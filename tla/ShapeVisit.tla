------------------------------ MODULE ShapeVisit ------------------------------
(* The order in which ShapeVisitor::visit works: it climbs from a request to    *)
(* the operands with one worklist, remembers in a second one what it has seen,  *)
(* and then takes that one from its end. What is computed for an info, and      *)
(* which infos it needs, are parameters here; ShapeComponents gives them.       *)
(* src/mhlo/analysis/shape_component_analysis.cc:68-207                         *)
EXTENDS Naturals, Sequences

CONSTANTS
    Programs,
    Infos,               \* what can be requested: the shape or the value of a value
    Clients(_),          \* those who use the analysis of a program
    Requests(_, _),      \* what a client requests, in order
    Deps(_, _),          \* the infos that are needed to compute one
    Uninteresting(_, _), \* infos of types that the analysis skips
    AtOnce(_, _),        \* infos entered while climbing: shapes of block arguments
    NoEntry(_, _)        \* infos that are visited and yet not entered

VARIABLES
    prog,
    client,
    asks,   \* the requests still to come
    bwd,    \* backwardsWorklist
    fwd,    \* forwardsWorklist
    known   \* the keys of symbolicExprsMap

vars == <<prog, client, asks, bwd, fwd, known>>

Members(s) == {s[k] : k \in 1..Len(s)}
Back(s) == s[Len(s)]
Popped(s) == SubSeq(s, 1, Len(s) - 1)

\* What a visit of the info leaves in the map.
Entry(i) == IF NoEntry(prog, i) THEN {} ELSE {i}

Init ==
    /\ prog \in Programs
    /\ client \in Clients(prog)
    /\ asks = Requests(prog, client)
    /\ bwd = <<>>
    /\ fwd = <<>>
    /\ known = {}

Idle == bwd = <<>> /\ fwd = <<>>

Ask ==
    /\ Idle
    /\ asks # <<>>
    /\ bwd' = <<Head(asks)>>
    /\ asks' = Tail(asks)
    /\ UNCHANGED <<prog, client, fwd, known>>

\* Already processed, or irrelevant.
Skip ==
    /\ bwd # <<>>
    /\ Back(bwd) \in known \/ Uninteresting(prog, Back(bwd))
    /\ bwd' = Popped(bwd)
    /\ UNCHANGED <<prog, client, asks, fwd, known>>

ToVisit ==
    /\ bwd # <<>>
    /\ Back(bwd) \notin known
    /\ ~Uninteresting(prog, Back(bwd))

BlockArgument ==
    /\ ToVisit
    /\ AtOnce(prog, Back(bwd))
    /\ known' = known \cup Entry(Back(bwd))
    /\ bwd' = Popped(bwd)
    /\ UNCHANGED <<prog, client, asks, fwd>>

\* Bug variant: a visited set, so that an info is put on the second list once.
ClimbOnce ==
    /\ ToVisit
    /\ ~AtOnce(prog, Back(bwd))
    /\ IF Back(bwd) \in Members(fwd)
       THEN fwd' = fwd /\ bwd' = Popped(bwd)
       ELSE /\ fwd' = Append(fwd, Back(bwd))
            /\ bwd' = Popped(bwd) \o Deps(prog, Back(bwd))
    /\ UNCHANGED <<prog, client, asks, known>>

Climb ==
    /\ ToVisit
    /\ ~AtOnce(prog, Back(bwd))
    /\ fwd' = Append(fwd, Back(bwd))
    /\ bwd' = Popped(bwd) \o Deps(prog, Back(bwd))
    /\ UNCHANGED <<prog, client, asks, known>>

SkipForward ==
    /\ bwd = <<>>
    /\ fwd # <<>>
    /\ Back(fwd) \in known
    /\ fwd' = Popped(fwd)
    /\ UNCHANGED <<prog, client, asks, bwd, known>>

Forward ==
    /\ bwd = <<>>
    /\ fwd # <<>>
    /\ Back(fwd) \notin known
    /\ known' = known \cup Entry(Back(fwd))
    /\ fwd' = Popped(fwd)
    /\ UNCHANGED <<prog, client, asks, bwd>>

\* reset: nobody in the repository calls it, but whoever changes the program has to.
Reset ==
    /\ Idle
    /\ asks # <<>>
    /\ known # {}
    /\ known' = {}
    /\ UNCHANGED <<prog, client, asks, bwd, fwd>>

Next ==
    \/ Ask
    \/ Reset
    \/ Skip
    \/ BlockArgument
    \/ Climb
    \/ SkipForward
    \/ Forward

Spec == Init /\ [][Next]_vars

-----------------------------------------------------------------------------

\* lookup (cc:715-719) asserts "op not processed yet?": when an info is computed, those
\* it needs are in the map, except infos that never get there. Nothing in the
\* second list says so; it follows from the order of the two lists.
OperandsFirst ==
    bwd = <<>> /\ fwd # <<>> =>
        \A d \in Members(Deps(prog, Back(fwd))) :
            d \in known \/ Uninteresting(prog, d) \/ NoEntry(prog, d)

\* What an info on the second list needs is in the map, comes later on the list,
\* or is still to be climbed from.
NeededIsAhead ==
    \A k \in 1..Len(fwd) :
        \A d \in Members(Deps(prog, fwd[k])) :
            \/ d \in known \/ Uninteresting(prog, d) \/ NoEntry(prog, d)
            \/ d \in Members(bwd)
            \/ \E m \in (k + 1)..Len(fwd) : fwd[m] = d
=============================================================================
