-------------------------- MODULE InterpreterProofs --------------------------
(***************************************************************************)
(* The interpreter's account of a run differs from the run in known ways   *)
(* only, and an operation finds the side channel of what it is directly    *)
(* nested in, for any programs that the verifiers accept, any limit on the *)
(* steps and any number of iterations.                                     *)
(*                                                                         *)
(* The induction is about the stack.  A frame is in order (FrameOK) if     *)
(* what it still has to interpret belongs to the operation it is at, and   *)
(* its channels to the parallel loops up to there; the stack is (StackOK)  *)
(* if each region lies in the operation that the frame below it runs.  An  *)
(* action replaces the top frame, pushes one or pops one, and each of      *)
(* these keeps the stack in order if the frame is.                         *)
(***************************************************************************)
EXTENDS Interpreter, TLAPS, SequenceTheorems, WellFoundedInduction

Channels == [type : {"reductions", "indices", "mask"}, depth : Nat, at : Nat]
FramesOf(p) == [ops : Regions[p], at : Nat, running : BOOLEAN, todo : Seq(Regions[p]),
           channels : Seq(Channels), own : Seq(Channels)]

ChannelFor(type, k, at) == [type |-> type, depth |-> k, at |-> at]
OwnFor(kind, k, at) == IF kind = "generic" THEN <<ChannelFor("indices", k, at)>>
                       ELSE IF kind = "mask" THEN <<ChannelFor("mask", k, at)>> ELSE <<>>

(* The regions that an operation interprets.                               *)
Within(p, s, op) == s \in IF op.kind = "call" THEN ToSet(p) ELSE ToSet(op.regions)

(* A frame at depth k: what the running handler has still to interpret and *)
(* the scope it has opened belong to its operation, and the channels are   *)
(* those of the parallel loops up to where the frame stands.               *)
FrameOK(p, f, k) ==
    /\ f.at \in 1..Len(f.ops) + 1
    /\ f.running => f.at =< Len(f.ops) /\ f.ops[f.at].kind \in WithRegions
    /\ ~f.running => f.todo = <<>> /\ f.own = <<>>
    /\ f.running => f.own = OwnFor(f.ops[f.at].kind, k, f.at)
    /\ \A i \in DOMAIN f.todo : Within(p, f.todo[i], f.ops[f.at])
    /\ \A i \in DOMAIN f.channels :
         /\ f.channels[i].type = "reductions" /\ f.channels[i].depth = k
         /\ f.channels[i].at \in DOMAIN f.ops /\ f.ops[f.channels[i].at].kind = "parallel"
         /\ f.channels[i].at < f.at \/ (f.channels[i].at = f.at /\ f.running)
    /\ f.running /\ f.ops[f.at].kind = "parallel" =>
         \E i \in DOMAIN f.channels : f.channels[i].at = f.at

(* Every region but the innermost one is in the middle of an operation,    *)
(* and the next one is a region of this operation.                         *)
StackOK(p, st) ==
    /\ st \in Seq(FramesOf(p)) /\ st # <<>>
    /\ st[1].ops \in ToSet(p)
    /\ \A k \in 1..Len(st) : FrameOK(p, st[k], k)
    /\ \A k \in 1..Len(st) - 1 :
         st[k].running /\ Within(p, st[k + 1].ops, st[k].ops[st[k].at])

AccountInv ==
    /\ status \in {"running", "returned"} /\ failed \in BOOLEAN
    /\ disableDeallocations \in BOOLEAN
    /\ live \in Nat /\ uncounted \in Nat /\ given \in Nat
    /\ heapSize \in Int /\ entered \in Int
    /\ Accounted

IInv == prog \in Programs /\ StackOK(prog, stack) /\ AccountInv

-----------------------------------------------------------------------------
(* The stack: its top replaced, a frame pushed, the top popped.            *)

LEMMA ProgramFacts ==
  ASSUME NEW p \in Programs
  PROVE  /\ p \in Seq(Regions[p]) /\ p # <<>>
         /\ \A f \in ToSet(p) : f \in Regions[p]
         /\ \A f \in ToSet(p) : \A j \in DOMAIN f : f[j].kind \notin {"reduce", "index"}
         /\ \A r \in Regions[p] :
              /\ r \in Seq(Operations(Regions[p]))
              /\ \A i \in DOMAIN r :
                   /\ r[i].kind = "call" => r[i].callee \in DOMAIN p
                   /\ r[i].kind \in WithRegions \ {"call"} => r[i].regions # <<>>
                   /\ r[i].kind = "while" => Len(r[i].regions) = 2
                   /\ \A s \in ToSet(r[i].regions) : \A j \in DOMAIN s :
                        /\ s[j].kind \in {"reduce", "index"} =>
                             r[i].kind = Provider[Asks[s[j].kind]]
                        /\ r[i].kind = "mask" => s[j].kind \notin WithRegions
<1>1. Verified(p)
  BY InterpreterAssumption
<1>2. p \in Seq(Regions[p]) /\ p # <<>>
  BY <1>1 DEF Verified
<1>3. \A f \in ToSet(p) : f \in Regions[p]
  BY <1>2 DEF ToSet
<1> QED
  BY <1>1, <1>2, <1>3 DEF Verified

(* An operation of a region, and what is within it.                        *)
LEMMA OperationFacts ==
  ASSUME NEW p \in Programs, NEW r \in Regions[p], NEW i \in 1..Len(r)
  PROVE  /\ i \in DOMAIN r /\ Len(r) \in Nat
         /\ r[i].kind \in Kinds /\ r[i].regions \in Seq(Regions[p])
         /\ \A s : Within(p, s, r[i]) => s \in Regions[p]
<1>1. r \in Seq(Operations(Regions[p]))
  BY ProgramFacts
<1>2. r[i] \in Operations(Regions[p]) /\ i \in DOMAIN r /\ Len(r) \in Nat
  BY <1>1
<1>3. r[i].kind \in Kinds /\ r[i].regions \in Seq(Regions[p])
  BY <1>2 DEF Operations
<1>4. \A s : Within(p, s, r[i]) => s \in Regions[p]
  <2>1. ToSet(r[i].regions) \subseteq Regions[p]
    BY <1>3 DEF ToSet
  <2> QED BY <2>1, ProgramFacts DEF Within
<1> QED
  BY <1>2, <1>3, <1>4

LEMMA FrontFacts ==
  ASSUME NEW S, NEW s \in Seq(S), s # <<>>
  PROVE  /\ Len(s) \in Nat /\ Len(s) >= 1
         /\ Front(s) \in Seq(S) /\ Len(Front(s)) = Len(s) - 1
         /\ \A k \in 1..Len(s) - 1 : Front(s)[k] = s[k]
<1>1. Len(s) \in Nat /\ Len(s) >= 1
  OBVIOUS
<1>2. \A i \in 1..Len(s) - 1 : s[i] \in S
  OBVIOUS
<1> DEFINE t == SubSeq(s, 1, Len(s) - 1)
<1>3. /\ t \in Seq(S)
      /\ Len(t) = IF 1 =< Len(s) - 1 THEN Len(s) - 1 - 1 + 1 ELSE 0
      /\ \A i \in 1..Len(s) - 1 - 1 + 1 : t[i] = s[1 + i - 1]
  BY <1>1, <1>2, SubSeqProperties
<1>4. Front(s) = t
  BY DEF Front
<1> HIDE DEF t
<1> DEFINE n == Len(s) - 1
<1>a. n \in Nat
  BY <1>1
<1>b. Len(t) = IF 1 =< n THEN n - 1 + 1 ELSE 0
  BY <1>3
<1> HIDE DEF n
<1>c. Len(t) = n
  BY <1>a, <1>b
<1>5. Len(t) = Len(s) - 1
  BY <1>c DEF n
<1>6. \A k \in 1..Len(s) - 1 : t[k] = s[k]
  <2> TAKE k \in 1..Len(s) - 1
  <2>1. k \in 1..Len(s) - 1 - 1 + 1 /\ 1 + k - 1 = k
    BY <1>1
  <2>2. t[k] = s[1 + k - 1]
    BY <1>3, <2>1
  <2> QED BY <2>1, <2>2
<1> QED
  BY <1>1, <1>3, <1>4, <1>5, <1>6

LEMMA TopFacts ==
  ASSUME NEW p, StackOK(p, stack)
  PROVE  /\ Len(stack) \in Nat /\ Len(stack) >= 1
         /\ Top = stack[Len(stack)] /\ Top \in FramesOf(p) /\ FrameOK(p, Top, Len(stack))
         /\ \A k \in 1..Len(stack) : stack[k] \in FramesOf(p) /\ FrameOK(p, stack[k], k)
         /\ Front(stack) \in Seq(FramesOf(p)) /\ Len(Front(stack)) = Len(stack) - 1
         /\ \A k \in 1..Len(stack) - 1 : Front(stack)[k] = stack[k]
<1>1. stack \in Seq(FramesOf(p)) /\ stack # <<>>
  BY DEF StackOK
<1>2. Len(stack) \in Nat /\ Len(stack) >= 1
  BY <1>1
<1>3. \A k \in 1..Len(stack) : stack[k] \in FramesOf(p) /\ FrameOK(p, stack[k], k)
  BY <1>1 DEF StackOK
<1>4. Top = stack[Len(stack)]
  BY DEF Top, Last
<1>5. /\ Front(stack) \in Seq(FramesOf(p)) /\ Len(Front(stack)) = Len(stack) - 1
      /\ \A k \in 1..Len(stack) - 1 : Front(stack)[k] = stack[k]
  BY <1>1, FrontFacts
<1> QED
  BY <1>2, <1>3, <1>4, <1>5

LEMMA Replaced ==
  ASSUME NEW p, StackOK(p, stack), NEW f \in FramesOf(p)
  PROVE  /\ WithTop(f) \in Seq(FramesOf(p)) /\ Len(WithTop(f)) = Len(stack)
         /\ \A k \in 1..Len(stack) : WithTop(f)[k] = IF k = Len(stack) THEN f ELSE stack[k]
<1> DEFINE b == Front(stack)
<1>1. /\ b \in Seq(FramesOf(p)) /\ Len(b) = Len(stack) - 1
      /\ \A k \in 1..Len(stack) - 1 : b[k] = stack[k]
      /\ Len(stack) \in Nat /\ Len(stack) >= 1
  BY TopFacts
<1>2. WithTop(f) = b \o <<f>>
  BY DEF WithTop
<1> HIDE DEF b
<1>3. b \o <<f>> \in Seq(FramesOf(p)) /\ Len(b \o <<f>>) = Len(stack)
  BY <1>1
<1>4. \A k \in 1..Len(stack) : (b \o <<f>>)[k] = IF k = Len(stack) THEN f ELSE stack[k]
  BY <1>1
<1> QED
  BY <1>2, <1>3, <1>4

LEMMA ReplacedOK ==
  ASSUME NEW p, StackOK(p, stack), NEW f \in FramesOf(p),
         FrameOK(p, f, Len(stack)), f.ops = Top.ops
  PROVE  StackOK(p, WithTop(f)) /\ Len(WithTop(f)) = Len(stack)
<1> DEFINE st == WithTop(f)
<1>1. /\ st \in Seq(FramesOf(p)) /\ Len(st) = Len(stack)
      /\ \A k \in 1..Len(stack) : st[k] = IF k = Len(stack) THEN f ELSE stack[k]
  BY Replaced
<1>2. Len(stack) \in Nat /\ Len(stack) >= 1 /\ Top = stack[Len(stack)]
  BY TopFacts
<1>3. \A k \in 1..Len(stack) : st[k].ops = stack[k].ops
  BY <1>1, <1>2
<1> HIDE DEF st
<1>4. st # <<>>
  BY <1>1, <1>2
<1>5. st[1].ops \in ToSet(p)
  BY <1>2, <1>3 DEF StackOK
<1>6. \A k \in 1..Len(st) : FrameOK(p, st[k], k)
  BY <1>1, TopFacts
<1>7. \A k \in 1..Len(st) - 1 : st[k].running /\ Within(p, st[k + 1].ops, st[k].ops[st[k].at])
  <2> TAKE k \in 1..Len(st) - 1
  <2>1. st[k] = stack[k] /\ k + 1 \in 1..Len(stack) /\ k \in 1..Len(stack) - 1
    BY <1>1, <1>2
  <2> QED BY <1>3, <2>1 DEF StackOK
<1> QED
  BY <1>1, <1>4, <1>5, <1>6, <1>7 DEF StackOK, st

LEMMA PushedOK ==
  ASSUME NEW p, StackOK(p, stack), NEW f \in FramesOf(p),
         FrameOK(p, f, Len(stack)), f.ops = Top.ops, f.running,
         NEW g \in FramesOf(p), FrameOK(p, g, Len(stack) + 1),
         Within(p, g.ops, f.ops[f.at])
  PROVE  /\ StackOK(p, WithTop(f) \o <<g>>)
         /\ Len(WithTop(f) \o <<g>>) = Len(stack) + 1
<1> DEFINE t == WithTop(f)
           st == t \o <<g>>
<1>1. StackOK(p, t) /\ Len(t) = Len(stack)
  BY ReplacedOK
<1>2. Len(stack) \in Nat /\ Len(stack) >= 1
  BY TopFacts
<1>3. t \in Seq(FramesOf(p)) /\ t[Len(stack)] = f
  BY <1>2, Replaced
<1> HIDE DEF t
<1>4. /\ st \in Seq(FramesOf(p)) /\ Len(st) = Len(stack) + 1
      /\ \A k \in 1..Len(stack) : st[k] = t[k]
      /\ st[Len(stack) + 1] = g
  BY <1>1, <1>2, <1>3
<1> HIDE DEF st
<1>5. st # <<>> /\ st[1].ops \in ToSet(p)
  BY <1>1, <1>2, <1>4 DEF StackOK
<1>6. \A k \in 1..Len(st) : FrameOK(p, st[k], k)
  <2> TAKE k \in 1..Len(st)
  <2>1. CASE k = Len(stack) + 1
    BY <1>4, <2>1
  <2>2. CASE k \in 1..Len(stack)
    BY <1>1, <1>4, <2>2 DEF StackOK
  <2> QED BY <1>2, <1>4, <2>1, <2>2
<1>7. \A k \in 1..Len(st) - 1 : st[k].running /\ Within(p, st[k + 1].ops, st[k].ops[st[k].at])
  <2> TAKE k \in 1..Len(st) - 1
  <2>1. CASE k = Len(stack)
    <3>1. st[k] = f /\ st[k + 1] = g
      BY <1>2, <1>3, <1>4, <2>1
    <3> QED BY <3>1
  <2>2. CASE k \in 1..Len(t) - 1
    <3>1. st[k] = t[k] /\ st[k + 1] = t[k + 1]
      BY <1>1, <1>2, <1>4, <2>2
    <3> QED BY <1>1, <2>2, <3>1 DEF StackOK
  <2> QED BY <1>1, <1>2, <1>4, <2>1, <2>2
<1>8. StackOK(p, st)
  BY <1>4, <1>5, <1>6, <1>7 DEF StackOK
<1> QED
  BY <1>4, <1>8 DEF st, t

LEMMA PoppedOK ==
  ASSUME NEW p, StackOK(p, stack), Len(stack) > 1
  PROVE  StackOK(p, Front(stack)) /\ Len(Front(stack)) = Len(stack) - 1
<1> DEFINE st == Front(stack)
<1>1. /\ Len(stack) \in Nat
      /\ st \in Seq(FramesOf(p)) /\ Len(st) = Len(stack) - 1
      /\ \A k \in 1..Len(stack) - 1 : st[k] = stack[k]
  BY TopFacts
<1> HIDE DEF st
<1>2. st # <<>> /\ st[1].ops \in ToSet(p)
  BY <1>1 DEF StackOK
<1>3. \A k \in 1..Len(st) : FrameOK(p, st[k], k)
  BY <1>1 DEF StackOK
<1>4. \A k \in 1..Len(st) - 1 : st[k].running /\ Within(p, st[k + 1].ops, st[k].ops[st[k].at])
  <2> TAKE k \in 1..Len(st) - 1
  <2>1. k \in 1..Len(stack) - 1 /\ k + 1 \in 1..Len(stack) - 1
    BY <1>1
  <2>2. st[k] = stack[k] /\ st[k + 1] = stack[k + 1]
    BY <1>1, <2>1
  <2> QED BY <2>1, <2>2 DEF StackOK
<1> QED
  BY <1>1, <1>2, <1>3, <1>4 DEF StackOK, st

-----------------------------------------------------------------------------
(* What the actions do with a frame.                                       *)

LEMMA FrameOpens ==
  ASSUME NEW p \in Programs, NEW r \in Regions[p], NEW k \in Nat
  PROVE  Frame(r) \in FramesOf(p) /\ FrameOK(p, Frame(r), k)
<1>1. Len(r) \in Nat
  BY ProgramFacts
<1>2. Frame(r) \in FramesOf(p)
  BY DEF Frame, FramesOf
<1>3. /\ Frame(r).ops = r /\ Frame(r).at = 1 /\ Frame(r).running = FALSE
      /\ Frame(r).todo = <<>> /\ Frame(r).own = <<>> /\ Frame(r).channels = <<>>
  BY DEF Frame
<1> QED
  BY <1>1, <1>2, <1>3 DEF FrameOK

LEMMA FrameEnds ==
  ASSUME NEW p \in Programs, NEW f \in FramesOf(p), NEW k \in Nat, FrameOK(p, f, k),
         f.todo = <<>>, f.at =< Len(f.ops)
  PROVE  LET g == [f EXCEPT !.at = @ + 1, !.running = FALSE, !.own = <<>>]
         IN  g \in FramesOf(p) /\ FrameOK(p, g, k) /\ g.ops = f.ops
<1> DEFINE g == [f EXCEPT !.at = @ + 1, !.running = FALSE, !.own = <<>>]
<1>1. /\ f.ops \in Regions[p] /\ f.at \in Nat /\ f.channels \in Seq(Channels)
      /\ f.todo \in Seq(Regions[p])
  BY DEF FramesOf
<1>a. \A i \in DOMAIN f.channels : f.channels[i].at \in Nat
  <2> TAKE i \in DOMAIN f.channels
  <2>1. f.channels[i] \in Channels
    BY <1>1
  <2> QED BY <2>1 DEF Channels
<1>2. Len(f.ops) \in Nat
  BY <1>1, ProgramFacts
<1>3. g \in FramesOf(p)
  <2>1. <<>> \in Seq(Channels) /\ f.at + 1 \in Nat
    BY <1>1
  <2> HIDE DEF Channels
  <2> QED BY <2>1 DEF FramesOf
<1>4. /\ g.ops = f.ops /\ g.at = f.at + 1 /\ g.running = FALSE
      /\ g.todo = <<>> /\ g.own = <<>> /\ g.channels = f.channels
  BY DEF FramesOf
<1> HIDE DEF g
<1>5. g.at \in 1..Len(g.ops) + 1
  BY <1>1, <1>2, <1>4
<1>6. \A i \in DOMAIN g.channels :
        /\ g.channels[i].type = "reductions" /\ g.channels[i].depth = k
        /\ g.channels[i].at \in DOMAIN g.ops /\ g.ops[g.channels[i].at].kind = "parallel"
        /\ g.channels[i].at < g.at
  <2> TAKE i \in DOMAIN g.channels
  <2>1. /\ f.channels[i].type = "reductions" /\ f.channels[i].depth = k
        /\ f.channels[i].at \in DOMAIN f.ops /\ f.ops[f.channels[i].at].kind = "parallel"
        /\ f.channels[i].at < f.at \/ f.channels[i].at = f.at
    BY <1>4 DEF FrameOK
  <2>2. f.channels[i].at < f.at + 1
    BY <1>1, <1>a, <1>4, <2>1
  <2> QED BY <1>4, <2>1, <2>2
<1>7. FrameOK(p, g, k)
  BY <1>4, <1>5, <1>6 DEF FrameOK
<1> QED
  BY <1>3, <1>4, <1>7 DEF g

LEMMA FrameGoesOn ==
  ASSUME NEW p \in Programs, NEW f \in FramesOf(p), NEW k \in Nat, FrameOK(p, f, k),
         f.running, NEW q \in Seq(Regions[p]),
         \A i \in DOMAIN q : Within(p, q[i], f.ops[f.at])
  PROVE  LET g == [f EXCEPT !.todo = q]
         IN  /\ g \in FramesOf(p) /\ FrameOK(p, g, k)
             /\ g.ops = f.ops /\ g.at = f.at /\ g.running
<1> DEFINE g == [f EXCEPT !.todo = q]
<1>1. g \in FramesOf(p)
  BY DEF FramesOf
<1>2. /\ g.ops = f.ops /\ g.at = f.at /\ g.running = f.running
      /\ g.todo = q /\ g.own = f.own /\ g.channels = f.channels
  BY DEF FramesOf
<1> HIDE DEF g
<1>3. FrameOK(p, g, k)
  BY <1>2 DEF FrameOK
<1> QED
  BY <1>1, <1>2, <1>3 DEF g

(* What holds when a frame f at depth k begins its operation.              *)
BeginsOK(p, f, k, q, outer, own) ==
    /\ p \in Programs /\ f \in FramesOf(p) /\ k \in Nat /\ FrameOK(p, f, k)
    /\ ~f.running /\ f.at =< Len(f.ops) /\ f.ops[f.at].kind \in WithRegions
    /\ q \in Seq(Regions[p]) /\ \A i \in DOMAIN q : Within(p, q[i], f.ops[f.at])
    /\ outer = IF f.ops[f.at].kind = "parallel"
                 THEN <<ChannelFor("reductions", k, f.at)>> ELSE <<>>
    /\ own = OwnFor(f.ops[f.at].kind, k, f.at)

Begun(f, q, outer, own) ==
    [f EXCEPT !.running = TRUE, !.todo = q, !.channels = @ \o outer, !.own = own]

LEMMA FrameBegins ==
  ASSUME NEW p, NEW f, NEW k, NEW q, NEW outer, NEW own, BeginsOK(p, f, k, q, outer, own)
  PROVE  /\ Begun(f, q, outer, own) \in FramesOf(p) /\ FrameOK(p, Begun(f, q, outer, own), k)
         /\ Begun(f, q, outer, own).ops = f.ops
<1>0. /\ p \in Programs /\ f \in FramesOf(p) /\ k \in Nat /\ FrameOK(p, f, k)
      /\ ~f.running /\ f.at =< Len(f.ops) /\ f.ops[f.at].kind \in WithRegions
      /\ q \in Seq(Regions[p]) /\ \A i \in DOMAIN q : Within(p, q[i], f.ops[f.at])
      /\ outer = IF f.ops[f.at].kind = "parallel"
                   THEN <<ChannelFor("reductions", k, f.at)>> ELSE <<>>
      /\ own = OwnFor(f.ops[f.at].kind, k, f.at)
  BY DEF BeginsOK
<1> USE <1>0
<1> DEFINE g == [f EXCEPT !.running = TRUE, !.todo = q, !.channels = @ \o outer, !.own = own]
           cs == f.channels \o outer
<1>1. /\ f.ops \in Regions[p] /\ f.at \in Nat /\ f.channels \in Seq(Channels)
  BY DEF FramesOf
<1>2. Len(f.ops) \in Nat /\ f.at \in 1..Len(f.ops) /\ f.at \in DOMAIN f.ops
  <2>1. f.ops \in Seq(Operations(Regions[p]))
    BY <1>1, ProgramFacts
  <2>2. f.at \in 1..Len(f.ops) + 1
    BY DEF FrameOK
  <2> QED BY <2>1, <2>2
<1>3. outer \in Seq(Channels) /\ own \in Seq(Channels)
  <2>1. \A type \in {"reductions", "indices", "mask"} : ChannelFor(type, k, f.at) \in Channels
    BY <1>1 DEF ChannelFor, Channels
  <2> HIDE DEF Channels
  <2>2. <<ChannelFor("reductions", k, f.at)>> \in Seq(Channels)
        /\ <<ChannelFor("indices", k, f.at)>> \in Seq(Channels)
        /\ <<ChannelFor("mask", k, f.at)>> \in Seq(Channels)
        /\ <<>> \in Seq(Channels)
    BY <2>1
  <2> QED BY <2>2 DEF OwnFor
<1>4. cs \in Seq(Channels)
  BY <1>1, <1>3
<1>5. g \in FramesOf(p)
  BY <1>3, <1>4 DEF FramesOf
<1>6. /\ g.ops = f.ops /\ g.at = f.at /\ g.running = TRUE
      /\ g.todo = q /\ g.own = own /\ g.channels = cs
  BY DEF FramesOf
<1>7. \A i \in DOMAIN cs :
        /\ cs[i].type = "reductions" /\ cs[i].depth = k
        /\ cs[i].at \in DOMAIN f.ops /\ f.ops[cs[i].at].kind = "parallel"
        /\ cs[i].at < f.at \/ cs[i].at = f.at
  <2> TAKE i \in DOMAIN cs
  <2>1. CASE i \in DOMAIN f.channels
    <3>1. cs[i] = f.channels[i]
      BY <1>1, <1>3, <2>1
    <3> QED BY <2>1, <3>1 DEF FrameOK
  <2>2. CASE i \notin DOMAIN f.channels
    <3>1. outer # <<>>
      <4> SUFFICES ASSUME outer = <<>>  PROVE FALSE
        OBVIOUS
      <4>1. f.channels \o <<>> = f.channels
        BY <1>1, ConcatEmptySeq
      <4>2. cs = f.channels
        BY <4>1
      <4> QED BY <2>2, <4>2
    <3>2. f.ops[f.at].kind = "parallel" /\ outer = <<ChannelFor("reductions", k, f.at)>>
      BY <3>1
    <3>3. cs[i] = ChannelFor("reductions", k, f.at)
      BY <1>1, <2>2, <3>2
    <3> QED BY <1>2, <3>2, <3>3 DEF ChannelFor
  <2> QED BY <2>1, <2>2
<1>8. f.ops[f.at].kind = "parallel" => \E i \in DOMAIN cs : cs[i].at = f.at
  <2> SUFFICES ASSUME f.ops[f.at].kind = "parallel"
               PROVE  \E i \in DOMAIN cs : cs[i].at = f.at
    OBVIOUS
  <2>1. outer = <<ChannelFor("reductions", k, f.at)>>
    OBVIOUS
  <2> DEFINE c == ChannelFor("reductions", k, f.at)
             n == Len(f.channels) + 1
  <2>2. c.at = f.at
    BY DEF ChannelFor
  <2>3. cs = f.channels \o <<c>>
    BY <2>1
  <2> HIDE DEF c, cs
  <2>4. n \in DOMAIN cs /\ cs[n] = c
    BY <1>1, <2>3
  <2> QED BY <2>2, <2>4
<1> HIDE DEF g, cs
<1>9. FrameOK(p, g, k)
  BY <1>2, <1>6, <1>7, <1>8 DEF FrameOK
<1> QED
  BY <1>5, <1>6, <1>9 DEF g, Begun

-----------------------------------------------------------------------------
(* The actions.                                                            *)

LEMMA InvFacts ==
  ASSUME IInv
  PROVE  /\ prog \in Programs /\ StackOK(prog, stack)
         /\ Len(stack) \in Nat /\ Len(stack) >= 1
         /\ Top \in FramesOf(prog) /\ FrameOK(prog, Top, Len(stack))
         /\ Top.ops \in Regions[prog] /\ Len(Top.ops) \in Nat
         /\ Top.at \in 1..Len(Top.ops) + 1
         /\ Top.todo \in Seq(Regions[prog]) /\ Top.running \in BOOLEAN
<1>1. prog \in Programs /\ StackOK(prog, stack)
  BY DEF IInv
<1>2. /\ Len(stack) \in Nat /\ Len(stack) >= 1
      /\ Top \in FramesOf(prog) /\ FrameOK(prog, Top, Len(stack))
  BY <1>1, TopFacts
<1>3. Top.ops \in Regions[prog] /\ Top.todo \in Seq(Regions[prog]) /\ Top.running \in BOOLEAN
  BY <1>2 DEF FramesOf
<1>4. Len(Top.ops) \in Nat
  BY <1>1, <1>3, ProgramFacts
<1>5. Top.at \in 1..Len(Top.ops) + 1
  BY <1>2 DEF FrameOK
<1> QED
  BY <1>1, <1>2, <1>3, <1>4, <1>5

(* A frame at which an operation starts is at rest.                        *)
LEMMA AtRest ==
  ASSUME IInv, NEW kinds, AtStart(kinds)
  PROVE  /\ status = "running" /\ ~failed /\ Op.kind \in kinds
         /\ ~Top.running /\ Top.todo = <<>> /\ Top.own = <<>> /\ Top.at =< Len(Top.ops)
<1>1. /\ status = "running" /\ ~failed /\ Op.kind \in kinds
      /\ ~Top.running /\ Top.at =< Len(Top.ops)
  BY DEF AtStart
<1>2. FrameOK(prog, Top, Len(stack))
  BY InvFacts
<1> QED
  BY <1>1, <1>2 DEF FrameOK

LEMMA EndOperationStep ==
  ASSUME IInv, Top.todo = <<>>, Top.at =< Len(Top.ops), NEW fails \in BOOLEAN,
         EndOperation(fails)
  PROVE  /\ prog' \in Programs /\ StackOK(prog', stack') /\ Len(stack') = Len(stack)
         /\ failed' \in BOOLEAN /\ (~failed' => ~fails)
         /\ entered' = entered /\ status' = status
         /\ disableDeallocations' = disableDeallocations
<1>1. /\ prog \in Programs /\ StackOK(prog, stack) /\ Len(stack) \in Nat
      /\ Top \in FramesOf(prog) /\ FrameOK(prog, Top, Len(stack))
  BY InvFacts
<1> DEFINE f == [Top EXCEPT !.at = @ + 1, !.running = FALSE, !.own = <<>>]
<1>2. f \in FramesOf(prog) /\ FrameOK(prog, f, Len(stack)) /\ f.ops = Top.ops
  BY <1>1, FrameEnds
<1>3. /\ stack' = WithTop(f) /\ prog' = prog /\ entered' = entered /\ status' = status
      /\ disableDeallocations' = disableDeallocations
      /\ failed' = (fails \/ remaining = 0)
  BY DEF EndOperation, StepCounted
<1> HIDE DEF f
<1>4. StackOK(prog, WithTop(f)) /\ Len(WithTop(f)) = Len(stack)
  BY <1>1, <1>2, ReplacedOK
<1>5. failed' \in BOOLEAN /\ (~failed' => ~fails)
  BY <1>3
<1> QED
  BY <1>1, <1>3, <1>4, <1>5

(* The account of the buffers.                                             *)
LEMMA Balance ==
  ASSUME IInv
  PROVE  /\ live \in Nat /\ uncounted \in Nat /\ given \in Nat /\ heapSize \in Int
         /\ heapSize =< live
         /\ ~failed /\ ~disableDeallocations => live - heapSize = given - uncounted
BY DEF IInv, AccountInv, Accounted

(* A step that keeps the buffers in balance and enters or leaves no region *)
(* keeps the account.                                                      *)
LEMMA AccountStep ==
  ASSUME IInv, failed' \in BOOLEAN, disableDeallocations' = disableDeallocations,
         live' \in Nat, uncounted' \in Nat, given' \in Nat, heapSize' \in Int,
         heapSize' =< live',
         ~failed' /\ ~disableDeallocations => live' - heapSize' = given' - uncounted',
         status' = status, Len(stack') = Len(stack), entered' = entered, ~failed' => ~failed
  PROVE  AccountInv'
<1>1. /\ status \in {"running", "returned"} /\ entered \in Int /\ disableDeallocations \in BOOLEAN
      /\ Accounted
  BY DEF IInv, AccountInv
<1>2. ~failed' => entered' = IF status' = "running" THEN Len(stack') ELSE 0
  BY <1>1 DEF Accounted
<1>3. ~failed' /\ ~disableDeallocations' => live' - heapSize' = given' - uncounted'
  OBVIOUS
<1>4. Accounted'
  BY <1>2, <1>3 DEF Accounted
<1> QED
  BY <1>1, <1>4 DEF AccountInv

(* A step that changes nothing of the buffers keeps them in balance.       *)
LEMMA BuffersUnchanged ==
  ASSUME IInv, UNCHANGED buffers, ~failed' => ~failed
  PROVE  /\ live' \in Nat /\ uncounted' \in Nat /\ given' \in Nat /\ heapSize' \in Int
         /\ heapSize' =< live'
         /\ ~failed' /\ ~disableDeallocations => live' - heapSize' = given' - uncounted'
<1>1. live' = live /\ uncounted' = uncounted /\ given' = given /\ heapSize' = heapSize
  BY DEF buffers
<1> QED
  BY <1>1, Balance

(* A step that enters or leaves a region, and leaves the buffers alone.    *)
LEMMA RegionStep ==
  ASSUME IInv, UNCHANGED buffers, failed' = failed,
         disableDeallocations' = disableDeallocations,
         status' \in {"running", "returned"}, entered' \in Int,
         ~failed => entered' = IF status' = "running" THEN Len(stack') ELSE 0
  PROVE  AccountInv'
<1>1. failed \in BOOLEAN /\ disableDeallocations \in BOOLEAN
  BY DEF IInv, AccountInv
<1>2. /\ live' \in Nat /\ uncounted' \in Nat /\ given' \in Nat /\ heapSize' \in Int
      /\ heapSize' =< live'
      /\ ~failed' /\ ~disableDeallocations' => live' - heapSize' = given' - uncounted'
  BY BuffersUnchanged
<1> QED
  BY <1>1, <1>2 DEF AccountInv, Accounted

LEMMA ExecuteStep ==
  ASSUME IInv, Execute
  PROVE  IInv'
<1>1. PICK fails \in BOOLEAN : EndOperation(fails)
  BY DEF Execute
<1>2. ~failed /\ Top.todo = <<>> /\ Top.at =< Len(Top.ops)
  BY AtRest DEF Execute
<1>3. /\ prog' \in Programs /\ StackOK(prog', stack') /\ Len(stack') = Len(stack)
      /\ failed' \in BOOLEAN /\ (~failed' => ~fails)
      /\ entered' = entered /\ status' = status /\ disableDeallocations' = disableDeallocations
  BY <1>1, <1>2, EndOperationStep
<1>4. UNCHANGED buffers
  BY DEF Execute
<1>5. AccountInv'
  BY <1>2, <1>3, <1>4, BuffersUnchanged, AccountStep
<1> QED
  BY <1>3, <1>5 DEF IInv

LEMMA AllocStep ==
  ASSUME IInv, Alloc
  PROVE  IInv'
<1>1. /\ EndOperation(FALSE) /\ live' = live + 1 /\ heapSize' = heapSize + 1
      /\ uncounted' = uncounted /\ given' = given
  BY DEF Alloc
<1>2. ~failed /\ Top.todo = <<>> /\ Top.at =< Len(Top.ops)
  BY AtRest DEF Alloc
<1>3. /\ prog' \in Programs /\ StackOK(prog', stack') /\ Len(stack') = Len(stack)
      /\ failed' \in BOOLEAN
      /\ entered' = entered /\ status' = status /\ disableDeallocations' = disableDeallocations
  BY <1>1, <1>2, EndOperationStep
<1>4. /\ live' \in Nat /\ uncounted' \in Nat /\ given' \in Nat /\ heapSize' \in Int
      /\ heapSize' =< live'
      /\ ~disableDeallocations => live' - heapSize' = given' - uncounted'
  BY <1>1, <1>2, Balance
<1>5. AccountInv'
  BY <1>2, <1>3, <1>4, AccountStep
<1> QED
  BY <1>3, <1>5 DEF IInv

LEMMA GetGlobalStep ==
  ASSUME IInv, GetGlobal
  PROVE  IInv'
<1>1. /\ EndOperation(FALSE) /\ uncounted' = uncounted + 1 /\ given' = given + 1
      /\ live' = live /\ heapSize' = heapSize
  BY DEF GetGlobal
<1>2. ~failed /\ Top.todo = <<>> /\ Top.at =< Len(Top.ops)
  BY AtRest DEF GetGlobal
<1>3. /\ prog' \in Programs /\ StackOK(prog', stack') /\ Len(stack') = Len(stack)
      /\ failed' \in BOOLEAN
      /\ entered' = entered /\ status' = status /\ disableDeallocations' = disableDeallocations
  BY <1>1, <1>2, EndOperationStep
<1>4. /\ live' \in Nat /\ uncounted' \in Nat /\ given' \in Nat /\ heapSize' \in Int
      /\ heapSize' =< live'
      /\ ~disableDeallocations => live' - heapSize' = given' - uncounted'
  BY <1>1, <1>2, Balance
<1>5. AccountInv'
  BY <1>2, <1>3, <1>4, AccountStep
<1> QED
  BY <1>3, <1>5 DEF IInv

(* What a dealloc does to the buffers, in each of its outcomes.            *)
LEMMA DeallocBalance ==
  ASSUME IInv, Dealloc
  PROVE  \E fails \in BOOLEAN :
           /\ EndOperation(fails)
           /\ live' \in Nat /\ uncounted' \in Nat /\ given' \in Nat /\ heapSize' \in Int
           /\ heapSize' =< live'
           /\ ~fails /\ ~disableDeallocations => live' - heapSize' = given' - uncounted'
<1>1. /\ live \in Nat /\ uncounted \in Nat /\ given \in Nat /\ heapSize \in Int
      /\ heapSize =< live
      /\ ~disableDeallocations => live - heapSize = given - uncounted
      /\ given' = given
  BY Balance DEF Dealloc, AtStart
<1>2. CASE UNCHANGED <<live, uncounted, heapSize>> /\ EndOperation(TRUE)
  <2>1. /\ live' \in Nat /\ uncounted' \in Nat /\ given' \in Nat /\ heapSize' \in Int
        /\ heapSize' =< live'
    BY <1>1, <1>2
  <2> QED BY <1>2, <2>1
<1>3. CASE heapSize' = heapSize - 1 /\ UNCHANGED <<live, uncounted>> /\ EndOperation(TRUE)
  <2>1. /\ live' \in Nat /\ uncounted' \in Nat /\ given' \in Nat /\ heapSize' \in Int
        /\ heapSize' =< live'
    BY <1>1, <1>3
  <2> QED BY <1>3, <2>1
<1>4. CASE /\ heapSize' = heapSize - 1
           /\ disableDeallocations /\ UNCHANGED <<live, uncounted>> /\ EndOperation(FALSE)
  <2>1. /\ live' \in Nat /\ uncounted' \in Nat /\ given' \in Nat /\ heapSize' \in Int
        /\ heapSize' =< live'
    BY <1>1, <1>4
  <2> QED BY <1>4, <2>1
<1>5. CASE /\ heapSize' = heapSize - 1
           /\ ~disableDeallocations /\ Deallocate /\ EndOperation(FALSE)
  <2>1. \/ live > 0 /\ live' = live - 1 /\ uncounted' = uncounted
        \/ uncounted > 0 /\ uncounted' = uncounted - 1 /\ live' = live
    BY <1>5 DEF Deallocate
  <2>2. /\ live' \in Nat /\ uncounted' \in Nat /\ given' \in Nat /\ heapSize' \in Int
        /\ heapSize' =< live'
        /\ live' - heapSize' = given' - uncounted'
    <3>1. heapSize' = heapSize - 1 /\ live - heapSize = given - uncounted
      BY <1>1, <1>5
    <3> QED BY <1>1, <2>1, <3>1
  <2> QED BY <1>5, <2>2
<1> QED
  BY <1>2, <1>3, <1>4, <1>5 DEF Dealloc

LEMMA DeallocStep ==
  ASSUME IInv, Dealloc
  PROVE  IInv'
<1>1. ~failed /\ Top.todo = <<>> /\ Top.at =< Len(Top.ops)
  BY AtRest DEF Dealloc
<1>2. PICK fails \in BOOLEAN :
        /\ EndOperation(fails)
        /\ live' \in Nat /\ uncounted' \in Nat /\ given' \in Nat /\ heapSize' \in Int
        /\ heapSize' =< live'
        /\ ~fails /\ ~disableDeallocations => live' - heapSize' = given' - uncounted'
  BY DeallocBalance
<1>3. /\ prog' \in Programs /\ StackOK(prog', stack') /\ Len(stack') = Len(stack)
      /\ failed' \in BOOLEAN /\ (~failed' => ~fails)
      /\ entered' = entered /\ status' = status /\ disableDeallocations' = disableDeallocations
  BY <1>1, <1>2, EndOperationStep
<1>4. AccountInv'
  BY <1>1, <1>2, <1>3, AccountStep
<1> QED
  BY <1>3, <1>4 DEF IInv

LEMMA UnsupportedStep ==
  ASSUME IInv, Unsupported
  PROVE  IInv'
<1>1. /\ prog' = prog /\ stack' = stack /\ failed' = TRUE /\ entered' = entered
      /\ status' = status /\ disableDeallocations' = disableDeallocations /\ UNCHANGED buffers
  BY DEF Unsupported
<1>2. prog \in Programs /\ StackOK(prog, stack)
  BY DEF IInv
<1>3. AccountInv'
  BY <1>1, BuffersUnchanged, AccountStep
<1> QED
  BY <1>1, <1>2, <1>3 DEF IInv

LEMMA EndStep ==
  ASSUME IInv, End
  PROVE  IInv'
<1>1. /\ Top.running /\ Top.todo = <<>> /\ EndOperation(failed)
      /\ UNCHANGED buffers
  BY DEF End
<1>2. Top.at =< Len(Top.ops)
  BY <1>1, InvFacts DEF FrameOK
<1>3. failed \in BOOLEAN
  BY DEF IInv, AccountInv
<1>4. /\ prog' \in Programs /\ StackOK(prog', stack') /\ Len(stack') = Len(stack)
      /\ failed' \in BOOLEAN /\ (~failed' => ~failed)
      /\ entered' = entered /\ status' = status /\ disableDeallocations' = disableDeallocations
  BY <1>1, <1>2, <1>3, EndOperationStep
<1>5. AccountInv'
  BY <1>1, <1>4, BuffersUnchanged, AccountStep
<1> QED
  BY <1>4, <1>5 DEF IInv

(* The regions that a handler plans to interpret are those of its          *)
(* operation, or the function that it calls.                               *)
LEMMA PlansWithin ==
  ASSUME IInv, AtStart(WithRegions), NEW plan \in Plans
  PROVE  plan \in Seq(Regions[prog]) /\ \A i \in DOMAIN plan : Within(prog, plan[i], Op)
<1> DEFINE R == Regions[prog]
           rs == Op.regions
<1>1. prog \in Programs /\ Top.ops \in R /\ Top.at \in 1..Len(Top.ops) /\ Op.kind \in WithRegions
  <2>1. Top.at \in 1..Len(Top.ops) + 1 /\ Len(Top.ops) \in Nat /\ Top.at =< Len(Top.ops)
    BY InvFacts, AtRest
  <2> QED BY <2>1, InvFacts, AtRest
<1>2. Op = Top.ops[Top.at]
  BY DEF Op
<1>3. rs \in Seq(R) /\ \A s : Within(prog, s, Op) => s \in R
  BY <1>1, <1>2, OperationFacts
<1>p. Op.kind \in Loops => \E n \in 0..MaxTrips : plan = [k \in 1..n |-> rs[1]]
  <2> SUFFICES ASSUME Op.kind \in Loops
               PROVE  \E n \in 0..MaxTrips : plan = [k \in 1..n |-> rs[1]]
    OBVIOUS
  <2>1. Plans = {[k \in 1..n |-> Op.regions[1]] : n \in 0..MaxTrips}
    BY DEF Plans, Loops
  <2>2. plan \in {[k \in 1..n |-> rs[1]] : n \in 0..MaxTrips}
    BY <2>1
  <2> HIDE DEF rs
  <2> QED BY <2>2
<1>4. \A s \in ToSet(plan) : Within(prog, s, Op)
  <2>1. CASE Op.kind = "call"
    <3>1. plan = <<prog[Op.callee]>>
      BY <2>1 DEF Plans, Loops
    <3>2. Op.callee \in DOMAIN prog
      BY <1>1, <1>2, <2>1, OperationFacts, ProgramFacts
    <3>3. ToSet(plan) = {prog[Op.callee]}
      BY <3>1 DEF ToSet
    <3>4. prog[Op.callee] \in ToSet(prog)
      BY <3>2 DEF ToSet
    <3> QED BY <2>1, <3>3, <3>4 DEF Within
  <2>2. CASE Op.kind # "call"
    <3>1. rs # <<>>
      BY <1>1, <1>2, <2>2, OperationFacts, ProgramFacts
    <3>2. rs[1] \in ToSet(rs)
      BY <1>3, <3>1 DEF ToSet
    <3>3. ToSet(plan) \subseteq ToSet(rs)
      <4>1. CASE Op.kind \in Loops
        <5>1. PICK n \in 0..MaxTrips : plan = [k \in 1..n |-> rs[1]]
          BY <1>p, <4>1
        <5>2. ToSet(plan) \subseteq {rs[1]}
          BY <5>1 DEF ToSet
        <5> QED BY <3>2, <5>2
      <4>2. CASE Op.kind = "if"
        <5>1. plan = <<rs[1]>> \/ plan = Tail(rs)
          BY <4>2 DEF Plans, Loops
        <5>2. CASE plan = <<rs[1]>>
          BY <3>2, <5>2 DEF ToSet
        <5>3. CASE plan = Tail(rs)
          <6> HIDE DEF rs
          <6>1. \A i \in DOMAIN Tail(rs) : i + 1 \in DOMAIN rs /\ Tail(rs)[i] = rs[i + 1]
            BY <1>3, <3>1
          <6> QED BY <5>3, <6>1 DEF ToSet
        <5> QED BY <5>1, <5>2, <5>3
      <4>3. CASE Op.kind \notin Loops \cup {"if"}
        <5>1. plan = <<rs[1]>>
          BY <2>2, <4>3 DEF Plans
        <5> QED BY <3>2, <5>1 DEF ToSet
      <4> QED BY <4>1, <4>2, <4>3
    <3> QED BY <2>2, <3>3 DEF Within
  <2> QED BY <2>1, <2>2
<1>5. \A i \in DOMAIN plan : Within(prog, plan[i], Op)
  BY <1>4 DEF ToSet
<1>6. \E n \in Nat : DOMAIN plan = 1..n /\ plan = [i \in 1..n |-> plan[i]]
  <2>1. CASE Op.kind \in Loops
    <3>1. PICK n \in 0..MaxTrips : plan = [k \in 1..n |-> rs[1]]
      BY <1>p, <2>1
    <3>2. n \in Nat
      BY InterpreterAssumption
    <3> QED BY <3>1, <3>2
  <2>2. CASE Op.kind \notin Loops
    <3>1. \/ plan = Tail(rs) /\ Op.kind = "if"
          \/ \E x : plan = <<x>>
      BY <2>2 DEF Plans
    <3>2. CASE plan = Tail(rs) /\ Op.kind = "if"
      <4>1. rs # <<>>
        BY <1>1, <1>2, <3>2, OperationFacts, ProgramFacts
      <4> HIDE DEF rs
      <4>2. plan \in Seq(R)
        BY <1>3, <3>2, <4>1
      <4>3. Len(plan) \in Nat /\ DOMAIN plan = 1..Len(plan) /\ plan = [i \in 1..Len(plan) |-> plan[i]]
        BY <4>2
      <4> QED BY <4>3
    <3>3. ASSUME NEW x, plan = <<x>>  PROVE DOMAIN plan = 1..1 /\ plan = [i \in 1..1 |-> plan[i]]
      BY <3>3
    <3> QED BY <3>1, <3>2, <3>3
  <2> QED BY <2>1, <2>2
<1>7. plan \in Seq(R)
  <2> HIDE DEF R
  <2>1. PICK n \in Nat : DOMAIN plan = 1..n /\ plan = [i \in 1..n |-> plan[i]]
    BY <1>6
  <2>2. \A i \in 1..n : plan[i] \in R
    BY <1>3, <1>5, <2>1
  <2> QED BY <2>1, <2>2
<1> QED
  BY <1>5, <1>7

LEMMA BeginStep ==
  ASSUME IInv, Begin
  PROVE  IInv'
<1>1. AtStart(WithRegions)
  BY DEF Begin
<1>2. PICK plan \in Plans :
        stack' = WithTop([Top EXCEPT !.running = TRUE, !.todo = plan,
                                     !.channels = @ \o OuterChannels, !.own = OwnChannels])
  BY DEF Begin
<1>3. /\ prog \in Programs /\ StackOK(prog, stack) /\ Len(stack) \in Nat
      /\ Top \in FramesOf(prog) /\ FrameOK(prog, Top, Len(stack))
  BY InvFacts
<1>4. /\ ~failed /\ ~Top.running /\ Top.at =< Len(Top.ops)
      /\ Op = Top.ops[Top.at] /\ Top.ops[Top.at].kind \in WithRegions
  BY <1>1, AtRest DEF Op
<1>5. plan \in Seq(Regions[prog]) /\ \A i \in DOMAIN plan : Within(prog, plan[i], Top.ops[Top.at])
  BY <1>1, <1>4, PlansWithin
<1>6. \A type : Channel(type, Len(stack)) = ChannelFor(type, Len(stack), Top.at)
  BY DEF Channel, ChannelFor, Top, Last
<1>7. OuterChannels = IF Top.ops[Top.at].kind = "parallel"
                        THEN <<ChannelFor("reductions", Len(stack), Top.at)>> ELSE <<>>
  BY <1>4, <1>6 DEF OuterChannels
<1>8. OwnChannels = OwnFor(Top.ops[Top.at].kind, Len(stack), Top.at)
  BY <1>4, <1>6 DEF OwnChannels, OwnFor
<1> DEFINE f == Begun(Top, plan, OuterChannels, OwnChannels)
<1>9. f \in FramesOf(prog) /\ FrameOK(prog, f, Len(stack)) /\ f.ops = Top.ops
  <2>1. BeginsOK(prog, Top, Len(stack), plan, OuterChannels, OwnChannels)
    BY <1>3, <1>4, <1>5, <1>7, <1>8 DEF BeginsOK
  <2> QED BY <2>1, FrameBegins
<1>10. stack' = WithTop(f)
  BY <1>2 DEF Begun
<1> HIDE DEF f
<1>11. StackOK(prog, stack') /\ Len(stack') = Len(stack)
  BY <1>3, <1>9, <1>10, ReplacedOK
<1>12. /\ prog' = prog /\ failed' = failed /\ entered' = entered /\ status' = status
       /\ disableDeallocations' = disableDeallocations /\ UNCHANGED buffers
  BY DEF Begin
<1>13. failed \in BOOLEAN
  BY DEF IInv, AccountInv
<1>14. AccountInv'
  BY <1>11, <1>12, <1>13, BuffersUnchanged, AccountStep
<1> QED
  BY <1>3, <1>11, <1>12, <1>14 DEF IInv

LEMMA RepeatStep ==
  ASSUME IInv, Repeat
  PROVE  IInv'
<1>1. /\ Top.running /\ Op.kind = "while"
      /\ stack' = WithTop([Top EXCEPT !.todo = <<Op.regions[2], Op.regions[1]>>])
      /\ prog' = prog /\ failed' = failed /\ entered' = entered /\ status' = status
      /\ disableDeallocations' = disableDeallocations /\ UNCHANGED buffers
  BY DEF Repeat
<1>2. /\ prog \in Programs /\ StackOK(prog, stack) /\ Len(stack) \in Nat
      /\ Top \in FramesOf(prog) /\ FrameOK(prog, Top, Len(stack)) /\ Top.ops \in Regions[prog]
      /\ Len(Top.ops) \in Nat /\ Top.at \in 1..Len(Top.ops) + 1
  BY InvFacts
<1>3. Top.at \in 1..Len(Top.ops)
  <2>1. Top.at =< Len(Top.ops)
    BY <1>1, <1>2 DEF FrameOK
  <2> QED BY <1>2, <2>1
<1> DEFINE rs == Op.regions
           q == <<rs[2], rs[1]>>
<1>4. rs \in Seq(Regions[prog]) /\ Len(rs) = 2
  BY <1>1, <1>2, <1>3, OperationFacts, ProgramFacts DEF Op
<1>5. rs[1] \in ToSet(rs) /\ rs[2] \in ToSet(rs) /\ rs[1] \in Regions[prog] /\ rs[2] \in Regions[prog]
  <2> HIDE DEF rs
  <2>1. 1 \in DOMAIN rs /\ 2 \in DOMAIN rs
    BY <1>4
  <2> QED BY <1>4, <2>1 DEF ToSet
<1>6. Within(prog, rs[1], Op) /\ Within(prog, rs[2], Op)
  BY <1>1, <1>5 DEF Within
<1>7. q \in Seq(Regions[prog]) /\ \A i \in DOMAIN q : Within(prog, q[i], Top.ops[Top.at])
  <2>1. Op = Top.ops[Top.at]
    BY DEF Op
  <2>2. DOMAIN q = 1..2 /\ q[1] = rs[2] /\ q[2] = rs[1]
    OBVIOUS
  <2>3. q \in Seq(Regions[prog])
    <3> DEFINE a == rs[2]
               b == rs[1]
               R == Regions[prog]
    <3>1. a \in R /\ b \in R
      BY <1>5
    <3> HIDE DEF a, b, R
    <3>2. <<a, b>> \in Seq(R)
      BY <3>1
    <3> QED BY <3>2 DEF a, b, R
  <2> HIDE DEF q, rs
  <2> QED BY <1>6, <2>1, <2>2, <2>3
<1> DEFINE f == [Top EXCEPT !.todo = q]
<1>8. stack' = WithTop(f)
  BY <1>1
<1> HIDE DEF q
<1>9. f \in FramesOf(prog) /\ FrameOK(prog, f, Len(stack)) /\ f.ops = Top.ops
  BY <1>1, <1>2, <1>7, FrameGoesOn
<1> HIDE DEF f
<1>10. StackOK(prog, stack') /\ Len(stack') = Len(stack)
  BY <1>2, <1>8, <1>9, ReplacedOK
<1>11. failed \in BOOLEAN
  BY DEF IInv, AccountInv
<1>12. AccountInv'
  BY <1>1, <1>10, <1>11, BuffersUnchanged, AccountStep
<1> QED
  BY <1>1, <1>2, <1>10, <1>12 DEF IInv

LEMMA EnterStep ==
  ASSUME IInv, Enter
  PROVE  IInv'
<1>1. /\ Top.running /\ Top.todo # <<>> /\ status = "running"
      /\ prog' = prog /\ failed' = failed /\ status' = status
      /\ disableDeallocations' = disableDeallocations /\ UNCHANGED buffers
  BY DEF Enter
<1>2. /\ prog \in Programs /\ StackOK(prog, stack) /\ Len(stack) \in Nat
      /\ Top \in FramesOf(prog) /\ FrameOK(prog, Top, Len(stack))
      /\ Top.todo \in Seq(Regions[prog])
      /\ Top.ops \in Regions[prog] /\ Len(Top.ops) \in Nat /\ Top.at \in 1..Len(Top.ops) + 1
  BY InvFacts
<1>3. Top.at \in 1..Len(Top.ops)
  <2>1. Top.at =< Len(Top.ops)
    BY <1>1, <1>2 DEF FrameOK
  <2> QED BY <1>2, <2>1
<1> DEFINE r == Head(Top.todo)
           q == Tail(Top.todo)
<1>4. /\ r = Top.todo[1] /\ 1 \in DOMAIN Top.todo /\ q \in Seq(Regions[prog])
      /\ \A i \in DOMAIN q : i + 1 \in DOMAIN Top.todo /\ q[i] = Top.todo[i + 1]
  <2> DEFINE todo == Top.todo
             R == Regions[prog]
  <2>1. todo \in Seq(R) /\ todo # <<>>
    BY <1>1, <1>2
  <2> HIDE DEF todo, R
  <2>2. /\ Head(todo) = todo[1] /\ 1 \in DOMAIN todo /\ Tail(todo) \in Seq(R)
        /\ \A i \in DOMAIN Tail(todo) : i + 1 \in DOMAIN todo /\ Tail(todo)[i] = todo[i + 1]
    BY <2>1
  <2> QED BY <2>2 DEF todo, R
<1>5. \A i \in DOMAIN Top.todo : Within(prog, Top.todo[i], Top.ops[Top.at])
  BY <1>2 DEF FrameOK
<1>6. /\ Within(prog, r, Top.ops[Top.at])
      /\ \A i \in DOMAIN q : Within(prog, q[i], Top.ops[Top.at])
  <2> HIDE DEF r, q
  <2> QED BY <1>4, <1>5
<1>7. r \in Regions[prog]
  BY <1>2, <1>3, <1>6, OperationFacts
<1> DEFINE f == [Top EXCEPT !.todo = q]
<1>8. IF failed THEN stack' = WithTop(f) /\ entered' = entered
                ELSE stack' = WithTop(f) \o <<Frame(r)>> /\ entered' = entered + 1
  BY DEF Enter
<1> HIDE DEF q, r
<1>9. /\ f \in FramesOf(prog) /\ FrameOK(prog, f, Len(stack))
      /\ f.ops = Top.ops /\ f.at = Top.at /\ f.running
  BY <1>1, <1>2, <1>4, <1>6, FrameGoesOn
<1> HIDE DEF f
<1>10. failed \in BOOLEAN /\ Accounted
  BY DEF IInv, AccountInv
<1>11. CASE failed
  <2>1. StackOK(prog, stack') /\ Len(stack') = Len(stack)
    BY <1>2, <1>8, <1>9, <1>11, ReplacedOK
  <2>2. entered' = entered
    BY <1>8, <1>11
  <2>3. AccountInv'
    BY <1>1, <1>10, <2>1, <2>2, BuffersUnchanged, AccountStep
  <2> QED BY <1>1, <1>2, <2>1, <2>3 DEF IInv
<1>12. CASE ~failed
  <2>1. Frame(r) \in FramesOf(prog) /\ FrameOK(prog, Frame(r), Len(stack) + 1) /\ Frame(r).ops = r
    <3>1. Len(stack) + 1 \in Nat
      BY <1>2
    <3>2. Frame(r) \in FramesOf(prog) /\ FrameOK(prog, Frame(r), Len(stack) + 1)
      BY <1>2, <1>7, <3>1, FrameOpens
    <3> QED BY <3>2 DEF Frame
  <2> DEFINE g == Frame(r)
  <2>2. g \in FramesOf(prog) /\ FrameOK(prog, g, Len(stack) + 1) /\ Within(prog, g.ops, f.ops[f.at])
    BY <1>6, <1>9, <2>1
  <2>3. stack' = WithTop(f) \o <<g>> /\ entered' = entered + 1
    BY <1>8, <1>12
  <2> HIDE DEF g
  <2>4. StackOK(prog, stack') /\ Len(stack') = Len(stack) + 1
    BY <1>2, <1>9, <2>2, <2>3, PushedOK
  <2>5. AccountInv'
    <3>1. entered = Len(stack)
      BY <1>1, <1>10, <1>12 DEF Accounted
    <3>2. entered' = Len(stack') /\ entered' \in Int
      BY <1>2, <2>3, <2>4, <3>1
    <3> QED BY <1>1, <3>2, RegionStep
  <2> QED BY <1>1, <1>2, <2>4, <2>5 DEF IInv
<1> QED
  BY <1>11, <1>12

LEMMA LeaveStep ==
  ASSUME IInv, Leave
  PROVE  IInv'
<1>1. /\ status = "running" /\ prog' = prog /\ failed' = failed
      /\ disableDeallocations' = disableDeallocations /\ UNCHANGED buffers
      /\ entered' = IF failed THEN entered ELSE entered - 1
  BY DEF Leave
<1>2. prog \in Programs /\ StackOK(prog, stack) /\ Len(stack) \in Nat /\ Len(stack) >= 1
  BY InvFacts
<1>3. failed \in BOOLEAN /\ entered \in Int /\ Accounted
  BY DEF IInv, AccountInv
<1>4. ~failed => entered = Len(stack) /\ entered' = Len(stack) - 1
  BY <1>1, <1>3 DEF Accounted
<1>5. entered' \in Int
  BY <1>1, <1>3
<1>6. CASE Len(stack) > 1
  <2>1. stack' = Front(stack) /\ status' = "running"
    BY <1>1, <1>6 DEF Leave
  <2>2. StackOK(prog, stack') /\ Len(stack') = Len(stack) - 1
    BY <1>2, <1>6, <2>1, PoppedOK
  <2>3. AccountInv'
    BY <1>1, <1>4, <1>5, <2>1, <2>2, RegionStep
  <2> QED BY <1>1, <1>2, <2>2, <2>3 DEF IInv
<1>7. CASE ~(Len(stack) > 1)
  <2>1. stack' = stack /\ status' = "returned"
    BY <1>7 DEF Leave
  <2>2. ~failed => entered' = 0
    BY <1>2, <1>4, <1>7
  <2>3. AccountInv'
    BY <1>1, <1>4, <1>5, <2>1, <2>2, RegionStep
  <2> QED BY <1>1, <1>2, <2>1, <2>3 DEF IInv
<1> QED
  BY <1>6, <1>7

LEMMA InitInv ==
  ASSUME Init
  PROVE  IInv
<1>1. /\ prog \in Programs /\ stack = <<Frame(prog[1])>> /\ failed = FALSE
      /\ disableDeallocations \in BOOLEAN /\ live = 0 /\ heapSize = 0
      /\ uncounted \in 0..MaxArguments /\ given = uncounted
      /\ entered = 1 /\ status = "running"
  BY DEF Init
<1> DEFINE f == Frame(prog[1])
<1>2. prog[1] \in ToSet(prog) /\ prog[1] \in Regions[prog]
  <2>1. prog \in Seq(Regions[prog]) /\ prog # <<>>
    BY <1>1, ProgramFacts
  <2> DEFINE R == Regions[prog]
  <2> HIDE DEF R
  <2>2. 1 \in DOMAIN prog /\ prog[1] \in R
    BY <2>1 DEF R
  <2> QED BY <2>2 DEF ToSet, R
<1>3. f \in FramesOf(prog) /\ FrameOK(prog, f, 1) /\ f.ops = prog[1]
  <2>1. 1 \in Nat /\ f.ops = prog[1]
    BY DEF Frame
  <2> QED BY <1>1, <1>2, <2>1, FrameOpens
<1> HIDE DEF f
<1>4. stack = <<f>> /\ Len(stack) = 1 /\ stack[1] = f
  BY <1>1 DEF f
<1>5. StackOK(prog, stack)
  <2>1. stack \in Seq(FramesOf(prog)) /\ stack # <<>>
    BY <1>3, <1>4
  <2>2. stack[1].ops \in ToSet(prog)
    BY <1>2, <1>3, <1>4
  <2>3. \A k \in 1..Len(stack) : FrameOK(prog, stack[k], k)
    BY <1>3, <1>4
  <2>4. 1..Len(stack) - 1 = {}
    BY <1>4
  <2> QED BY <2>1, <2>2, <2>3, <2>4 DEF StackOK
<1>6. AccountInv
  <2>1. Len(stack) = 1
    BY <1>4
  <2>2. uncounted \in Nat /\ given \in Nat
    BY <1>1, InterpreterAssumption
  <2>3. heapSize =< live /\ live - heapSize = given - uncounted
    BY <1>1, <2>2
  <2>4. entered = IF status = "running" THEN Len(stack) ELSE 0
    BY <1>1, <2>1
  <2>5. live \in Nat /\ heapSize \in Int /\ entered \in Int
    BY <1>1
  <2> QED BY <1>1, <2>2, <2>3, <2>4, <2>5 DEF AccountInv, Accounted
<1> QED
  BY <1>1, <1>5, <1>6 DEF IInv

(* The invariant of the interpreter: a stack of regions, each within the   *)
(* operation that the one around it is running, with the scopes of what is *)
(* being interpreted (interpreter.cc:37-101), and the account of it.       *)
THEOREM Invariance == Spec => []IInv
<1>1. Init => IInv
  BY InitInv
<1>2. IInv /\ [Next]_vars => IInv'
  <2> SUFFICES ASSUME IInv, [Next]_vars  PROVE IInv'
    OBVIOUS
  <2>1. CASE Next
    <3>1. CASE Execute
      BY <3>1, ExecuteStep
    <3>2. CASE Unsupported
      BY <3>2, UnsupportedStep
    <3>3. CASE Alloc
      BY <3>3, AllocStep
    <3>4. CASE Dealloc
      BY <3>4, DeallocStep
    <3>5. CASE Begin
      BY <3>5, BeginStep
    <3>6. CASE Repeat
      BY <3>6, RepeatStep
    <3>7. CASE End
      BY <3>7, EndStep
    <3>8. CASE Enter
      BY <3>8, EnterStep
    <3>9. CASE Leave
      BY <3>9, LeaveStep
    <3>10. CASE Returned
      BY <3>10 DEF Returned, vars, buffers, IInv, AccountInv, Accounted
    <3>11. CASE GetGlobal
      BY <3>11, GetGlobalStep
    <3> QED BY <2>1, <3>1, <3>2, <3>3, <3>4, <3>5, <3>6, <3>7, <3>8, <3>9, <3>10, <3>11
         DEF Next, Run
  <2>2. CASE UNCHANGED vars
    BY <2>2 DEF vars, buffers, IInv, AccountInv, Accounted
  <2> QED BY <2>1, <2>2
<1> QED
  BY <1>1, <1>2, PTL DEF Spec

(* The statistics of memref.alloc and dealloc (dialects/memref.cc) never   *)
(* count a counted buffer that is gone.  Until something fails, unless     *)
(* deallocations are disabled, they differ from the counted buffers that   *)
(* are left by the freed ones that were never counted, and the listener    *)
(* has heard of exactly the regions that are being interpreted.            *)
THEOREM CallsAccounted == Spec => []Accounted
<1>1. IInv => Accounted
  BY DEF IInv, AccountInv
<1> QED
  BY <1>1, Invariance, PTL

-----------------------------------------------------------------------------
(* Which channel is found.                                                 *)

(* A channel in a frame is the one of the scope that its handler has       *)
(* opened, or that of a parallel loop it has come past or is running.      *)
LEMMA ChannelOrigin ==
  ASSUME IInv, NEW k \in 1..Len(stack), NEW i \in DOMAIN ChannelsOf(stack[k])
  PROVE  LET f == stack[k]
             c == ChannelsOf(f)[i]
         IN  \/ /\ f.running /\ f.ops[f.at].kind \in {"generic", "mask"}
                /\ <<c>> = OwnFor(f.ops[f.at].kind, k, f.at)
             \/ \E j \in DOMAIN f.channels : c = f.channels[j]
<1> DEFINE f == stack[k]
           o == f.own
           cs == f.channels
<1>1. f \in FramesOf(prog) /\ FrameOK(prog, f, k)
  BY TopFacts DEF IInv
<1>2. o \in Seq(Channels) /\ cs \in Seq(Channels)
  BY <1>1 DEF FramesOf
<1>3. ChannelsOf(f) = o \o cs
  BY DEF ChannelsOf
<1>4. o # <<>> => /\ f.running /\ o = OwnFor(f.ops[f.at].kind, k, f.at)
                  /\ f.ops[f.at].kind \in {"generic", "mask"}
  BY <1>1 DEF FrameOK, OwnFor
<1>5. o = <<>> \/ \E c : o = <<c>>
  BY <1>4 DEF OwnFor
<1> HIDE DEF f, o, cs
<1>6. i \in DOMAIN (o \o cs)
  BY <1>3 DEF f
<1>7. CASE o = <<>>
  <2>1. o \o cs = cs
    BY <1>2, <1>7, ConcatEmptySeq
  <2>2. i \in DOMAIN cs /\ (o \o cs)[i] = cs[i]
    BY <1>6, <2>1
  <2> QED BY <1>3, <2>2 DEF f, cs
<1>8. ASSUME NEW c, o = <<c>>
      PROVE  \/ (o \o cs)[i] = c
             \/ \E j \in DOMAIN cs : (o \o cs)[i] = cs[j]
  <2>1. CASE i = 1
    BY <1>2, <1>6, <1>8, <2>1
  <2>2. CASE i # 1
    <3>1. i - 1 \in DOMAIN cs /\ (o \o cs)[i] = cs[i - 1]
      BY <1>2, <1>6, <1>8, <2>2
    <3> QED BY <3>1
  <2> QED BY <2>1, <2>2
<1>9. CASE o # <<>>
  <2>1. PICK c : o = <<c>>
    BY <1>5, <1>9
  <2>2. \/ (o \o cs)[i] = c
        \/ \E j \in DOMAIN cs : (o \o cs)[i] = cs[j]
    BY <1>8, <2>1
  <2>3. /\ f.running /\ <<c>> = OwnFor(f.ops[f.at].kind, k, f.at)
        /\ f.ops[f.at].kind \in {"generic", "mask"}
    BY <1>4, <1>9, <2>1
  <2> QED BY <1>3, <2>2, <2>3 DEF f, cs
<1> QED
  BY <1>7, <1>9

(* The channels of parallel loops in a frame.                              *)
LEMMA LoopChannel ==
  ASSUME IInv, NEW k \in 1..Len(stack), NEW j \in DOMAIN stack[k].channels
  PROVE  LET f == stack[k]
             c == f.channels[j]
         IN  /\ c = ChannelFor("reductions", k, c.at) /\ c.at \in Nat /\ f.at \in Nat
             /\ c.at \in DOMAIN f.ops /\ f.ops[c.at].kind = "parallel"
             /\ c.at < f.at \/ (c.at = f.at /\ f.running)
<1> DEFINE f == stack[k]
           c == f.channels[j]
<1>1. f \in FramesOf(prog) /\ FrameOK(prog, f, k)
  BY TopFacts DEF IInv
<1>2. f.channels \in Seq(Channels) /\ f.at \in Nat
  BY <1>1 DEF FramesOf
<1>3. c \in Channels
  BY <1>2
<1>4. /\ c.type = "reductions" /\ c.depth = k
      /\ c.at \in DOMAIN f.ops /\ f.ops[c.at].kind = "parallel"
      /\ c.at < f.at \/ (c.at = f.at /\ f.running)
  BY <1>1 DEF FrameOK
<1> HIDE DEF c
<1>5. c = ChannelFor("reductions", k, c.at) /\ c.at \in Nat
  BY <1>3, <1>4 DEF Channels, ChannelFor
<1> QED
  BY <1>2, <1>4, <1>5 DEF c

(* The smallest of some numbers.                                           *)
LEMMA MinIn ==
  ASSUME NEW S \in SUBSET Nat, S # {}
  PROVE  Min(S) \in S
<1>1. PICK x \in S : \A y \in S : ~(<<y, x>> \in OpToRel(<, Nat))
  BY NatLessThanWellFounded, WFMin
<1>a. \A y \in S : ~(y < x)
  BY <1>1 DEF OpToRel
<1>2. \A y \in S : x =< y
  BY <1>a
<1> QED
  BY <1>2 DEF Min

(* What is found if the innermost region offers nothing, and the one       *)
(* around it only one channel, though maybe more than once.                *)
LEMMA FoundAround ==
  ASSUME IInv, NEW type, NEW c, Len(stack) > 1,
         Offers(Top, type) = {}, Offers(stack[Len(stack) - 1], type) # {},
         \A i \in Offers(stack[Len(stack) - 1], type) :
             ChannelsOf(stack[Len(stack) - 1])[i] = c
  PROVE  GetSideChannel(type) = c
<1> DEFINE n == Len(stack)
           offering == {k \in DOMAIN stack : Offers(stack[k], type) # {}}
           f == stack[n - 1]
<1>1. n \in Nat /\ n > 1 /\ DOMAIN stack = 1..n /\ Top = stack[n]
  <2>1. stack \in Seq(FramesOf(prog))
    BY DEF IInv, StackOK
  <2> QED BY <2>1, TopFacts DEF IInv
<1> HIDE DEF n
<1>2. n - 1 \in offering /\ n \notin offering
  BY <1>1 DEF n
<1>3. \A k \in offering : k \in 1..n - 1
  BY <1>1, <1>2
<1>4. Max(offering) = n - 1
  <2> HIDE DEF offering
  <2>1. \A k \in offering : n - 1 >= k
    BY <1>1, <1>3
  <2>2. Max(offering) \in offering /\ Max(offering) >= n - 1
    BY <1>2, <2>1 DEF Max
  <2> QED BY <1>1, <1>3, <2>2
<1>5. Min(Offers(f, type)) \in Offers(f, type)
  <2>1. f \in FramesOf(prog)
    <3>1. n - 1 \in 1..n
      BY <1>1
    <3> QED BY <3>1, TopFacts DEF IInv, n
  <2>2. f.own \in Seq(Channels) /\ f.channels \in Seq(Channels)
    BY <2>1 DEF FramesOf
  <2>3. DOMAIN ChannelsOf(f) \in SUBSET Nat
    <3>1. ChannelsOf(f) \in Seq(Channels)
      BY <2>2, ConcatProperties DEF ChannelsOf
    <3> DEFINE s == ChannelsOf(f)
    <3> HIDE DEF s
    <3>2. DOMAIN s = 1..Len(s) /\ Len(s) \in Nat
      BY <3>1 DEF s
    <3> QED BY <3>2 DEF s
  <2>4. Offers(f, type) \in SUBSET Nat /\ Offers(f, type) # {}
    BY <2>3 DEF Offers, n
  <2> QED BY <2>4, MinIn
<1>6. GetSideChannel(type) = ChannelsOf(f)[Min(Offers(f, type))]
  BY <1>2, <1>4 DEF GetSideChannel
<1> QED
  BY <1>5, <1>6 DEF n

LEMMA FoundNowhere ==
  ASSUME NEW type, \A k \in DOMAIN stack : Offers(stack[k], type) = {}
  PROVE  GetSideChannel(type) = None
BY DEF GetSideChannel

(* The innermost region offers nothing to the operation that starts in it. *)
LEMMA NothingInside ==
  ASSUME IInv, OneChannelPerScope, NEW kinds, AtStart(kinds), Op.kind \in DOMAIN Asks
  PROVE  Offers(Top, Asks[Op.kind]) = {}
<1> DEFINE n == Len(stack)
<1>1. /\ n \in 1..n /\ Top = stack[n] /\ FrameOK(prog, Top, n) /\ ~Top.running
      /\ prog \in Programs /\ Top.ops \in Regions[prog]
      /\ Top.at \in 1..Len(Top.ops) + 1 /\ Top.at =< Len(Top.ops) /\ Len(Top.ops) \in Nat
  BY InvFacts, TopFacts, AtRest DEF IInv
<1>2. Top.at \in DOMAIN Top.ops
  <2>1. Top.at \in 1..Len(Top.ops)
    BY <1>1
  <2> QED BY <1>1, <2>1, OperationFacts
<1>3. SUFFICES ASSUME NEW i \in DOMAIN ChannelsOf(Top),
                      ChannelsOf(Top)[i].type = Asks[Op.kind]
               PROVE  FALSE
  BY DEF Offers
<1>4. PICK j \in DOMAIN Top.channels : ChannelsOf(Top)[i] = Top.channels[j]
  BY <1>1, <1>3, ChannelOrigin
<1> DEFINE c == Top.channels[j]
<1>5. /\ c = ChannelFor("reductions", n, c.at) /\ c.at \in Nat /\ Top.at \in Nat
      /\ c.at \in DOMAIN Top.ops /\ Top.ops[c.at].kind = "parallel"
      /\ c.at < Top.at
  BY <1>1, LoopChannel
<1>6. c.type = "reductions"
  BY <1>5 DEF ChannelFor
<1>7. Op.kind = "reduce"
  BY <1>3, <1>4, <1>6 DEF Asks
<1>8. Top.ops[Top.at].kind # "reduce"
  BY <1>1, <1>2, <1>5 DEF OneChannelPerScope
<1> QED
  BY <1>7, <1>8 DEF Op

(* A region that is not the outermost one is one of the regions of the     *)
(* operation around it, or a function if that is a call.                   *)
LEMMA Around ==
  ASSUME IInv, NEW k \in 1..Len(stack) - 1
  PROVE  /\ k \in 1..Len(stack) /\ k + 1 \in 1..Len(stack)
         /\ stack[k].running /\ stack[k].ops \in Regions[prog]
         /\ stack[k].at \in DOMAIN stack[k].ops
         /\ stack[k].ops[stack[k].at].kind \in WithRegions
         /\ Within(prog, stack[k + 1].ops, stack[k].ops[stack[k].at])
<1>1. Len(stack) \in Nat /\ prog \in Programs /\ StackOK(prog, stack)
  BY InvFacts
<1>2. k \in 1..Len(stack) /\ k + 1 \in 1..Len(stack)
  BY <1>1
<1>3. stack[k].running /\ Within(prog, stack[k + 1].ops, stack[k].ops[stack[k].at])
  BY <1>1 DEF StackOK
<1>4. stack[k] \in FramesOf(prog) /\ FrameOK(prog, stack[k], k)
  BY <1>1, <1>2, TopFacts
<1>5. stack[k].ops \in Regions[prog]
  BY <1>4 DEF FramesOf
<1>6. /\ stack[k].at \in 1..Len(stack[k].ops) + 1 /\ stack[k].at =< Len(stack[k].ops)
      /\ stack[k].ops[stack[k].at].kind \in WithRegions
  BY <1>3, <1>4 DEF FrameOK
<1>7. Len(stack[k].ops) \in Nat
  BY <1>1, <1>5, ProgramFacts
<1>8. stack[k].at \in 1..Len(stack[k].ops)
  BY <1>6, <1>7
<1>9. stack[k].at \in DOMAIN stack[k].ops
  BY <1>1, <1>5, <1>8, OperationFacts
<1> QED
  BY <1>2, <1>3, <1>5, <1>6, <1>9

(* A region around others has no scope of a vector.mask: the region of a   *)
(* mask has no operations with regions.                                    *)
LEMMA NoMaskAround ==
  ASSUME IInv, NEW k \in 1..Len(stack) - 1, k + 1 < Len(stack)
  PROVE  stack[k].ops[stack[k].at].kind # "mask"
<1> DEFINE r == stack[k + 1]
           op == stack[k].ops[stack[k].at]
<1>1. SUFFICES ASSUME op.kind = "mask"  PROVE FALSE
  OBVIOUS
<1>2. Len(stack) \in Nat /\ prog \in Programs
  BY InvFacts
<1>3. /\ stack[k].ops \in Regions[prog] /\ stack[k].at \in DOMAIN stack[k].ops
      /\ Within(prog, r.ops, op)
  BY Around
<1>4. k + 1 \in 1..Len(stack) - 1
  BY <1>2
<1>5. r.at \in DOMAIN r.ops /\ r.ops[r.at].kind \in WithRegions
  BY <1>4, Around
<1> HIDE DEF r
<1>6. r.ops \in ToSet(op.regions)
  BY <1>1, <1>3 DEF Within
<1>7. r.ops[r.at].kind \notin WithRegions
  BY <1>1, <1>2, <1>3, <1>5, <1>6, ProgramFacts
<1> QED
  BY <1>5, <1>7

(* Around an operation that asks, what offers it a channel is what it is   *)
(* directly nested in.                                                     *)
LEMMA ProviderAround ==
  ASSUME IInv, NEW kinds, AtStart(kinds), Op.kind \in {"reduce", "index"}, Len(stack) > 1
  PROVE  LET f == stack[Len(stack) - 1]
         IN  f.ops[f.at].kind = Provider[Asks[Op.kind]]
<1> DEFINE k == Len(stack) - 1
           f == stack[k]
<1>1. /\ Len(stack) \in Nat /\ prog \in Programs /\ Top.ops \in Regions[prog]
      /\ Top.at \in 1..Len(Top.ops) + 1 /\ Top.at =< Len(Top.ops) /\ Len(Top.ops) \in Nat
      /\ Top = stack[Len(stack)]
  BY InvFacts, AtRest, TopFacts DEF IInv
<1>2. Top.at \in DOMAIN Top.ops
  <2>1. Top.at \in 1..Len(Top.ops)
    BY <1>1
  <2> QED BY <1>1, <2>1, OperationFacts
<1>3. k \in 1..Len(stack) - 1 /\ k + 1 = Len(stack)
  BY <1>1
<1>4. /\ f.ops \in Regions[prog] /\ f.at \in DOMAIN f.ops
      /\ Within(prog, Top.ops, f.ops[f.at])
  <2> HIDE DEF k
  <2> QED BY <1>1, <1>3, Around
<1> HIDE DEF f, k
<1>5. Top.ops[Top.at].kind \in {"reduce", "index"} /\ Op.kind = Top.ops[Top.at].kind
  BY DEF Op
<1>6. Top.ops \notin ToSet(prog)
  BY <1>1, <1>2, <1>5, ProgramFacts
<1>7. Top.ops \in ToSet(f.ops[f.at].regions)
  BY <1>4, <1>6 DEF Within
<1>8. f.ops[f.at].kind = Provider[Asks[Top.ops[Top.at].kind]]
  <2>1. \A s \in ToSet(f.ops[f.at].regions) : \A j \in DOMAIN s :
          s[j].kind \in {"reduce", "index"} => f.ops[f.at].kind = Provider[Asks[s[j].kind]]
    BY <1>1, <1>4, ProgramFacts
  <2> QED BY <1>2, <1>5, <1>7, <2>1
<1> QED
  BY <1>5, <1>8 DEF f, k

(* The provider offers a channel, and no other one than its own.           *)
LEMMA ProviderOffers ==
  ASSUME IInv, OneChannelPerScope, NEW type \in {"reductions", "indices", "mask"},
         NEW k \in 1..Len(stack) - 1, stack[k].ops[stack[k].at].kind = Provider[type]
  PROVE  /\ Offers(stack[k], type) # {}
         /\ \A i \in Offers(stack[k], type) :
              ChannelsOf(stack[k])[i] = ChannelFor(type, k, stack[k].at)
<1> DEFINE f == stack[k]
           kind == f.ops[f.at].kind
<1>1. /\ k \in 1..Len(stack) /\ f.running /\ f.ops \in Regions[prog] /\ f.at \in DOMAIN f.ops
      /\ prog \in Programs
  BY Around, InvFacts
<1>2. f \in FramesOf(prog) /\ FrameOK(prog, f, k)
  BY <1>1, TopFacts DEF IInv
<1>3. f.own \in Seq(Channels) /\ f.channels \in Seq(Channels) /\ f.ops \in Seq(Operations(Regions[prog]))
  BY <1>1, <1>2, ProgramFacts DEF FramesOf
<1>4. f.own = OwnFor(kind, k, f.at)
  BY <1>1, <1>2 DEF FrameOK
<1>5. ChannelsOf(f) = f.own \o f.channels
  BY DEF ChannelsOf
<1>6. CASE type = "reductions"
  <2>1. kind = "parallel"
    BY <1>6 DEF Provider
  <2>2. f.own = <<>>
    BY <1>4, <2>1 DEF OwnFor
  <2>3. ChannelsOf(f) = f.channels
    BY <1>3, <1>5, <2>2, ConcatEmptySeq
  <2>4. \A j \in DOMAIN f.channels : f.channels[j] = ChannelFor("reductions", k, f.at)
    <3> TAKE j \in DOMAIN f.channels
    <3> DEFINE c == f.channels[j]
    <3>1. /\ c = ChannelFor("reductions", k, c.at) /\ c.at \in Nat /\ f.at \in Nat
          /\ c.at \in DOMAIN f.ops /\ f.ops[c.at].kind = "parallel"
          /\ c.at < f.at \/ c.at = f.at
      BY <1>1, LoopChannel
    <3>2. ~(c.at < f.at)
      BY <1>1, <2>1, <3>1 DEF OneChannelPerScope
    <3> QED BY <3>1, <3>2
  <2>5. \E j \in DOMAIN f.channels : f.channels[j].at = f.at
    BY <1>1, <1>2, <2>1 DEF FrameOK
  <2>6. PICK j \in DOMAIN f.channels : f.channels[j] = ChannelFor("reductions", k, f.at)
    BY <2>4, <2>5
  <2>7. f.channels[j].type = "reductions"
    BY <2>6 DEF ChannelFor
  <2>8. j \in Offers(f, type)
    BY <1>6, <2>3, <2>7 DEF Offers
  <2> QED BY <1>6, <2>3, <2>4, <2>8 DEF Offers
<1>7. CASE type # "reductions"
  <2>1. /\ f.own = <<ChannelFor(type, k, f.at)>>
        /\ \A t : OwnFor(kind, k, f.at) = <<t>> => t = ChannelFor(type, k, f.at)
    BY <1>4, <1>7 DEF Provider, OwnFor
  <2> DEFINE c == ChannelFor(type, k, f.at)
  <2>2. 1 \in DOMAIN ChannelsOf(f) /\ ChannelsOf(f)[1] = c
    <3>1. f.own = <<c>>
      BY <2>1
    <3> DEFINE cs == f.channels
    <3>2. cs \in Seq(Channels)
      BY <1>3
    <3> HIDE DEF c, cs
    <3>3. 1 \in DOMAIN (<<c>> \o cs) /\ (<<c>> \o cs)[1] = c
      BY <3>2
    <3> QED BY <1>5, <3>1, <3>3 DEF cs
  <2>3. c.type = type
    BY DEF ChannelFor
  <2>4. 1 \in Offers(f, type)
    BY <2>2, <2>3 DEF Offers
  <2>5. ASSUME NEW i \in Offers(f, type)
        PROVE  ChannelsOf(f)[i] = c
    <3>1. i \in DOMAIN ChannelsOf(f) /\ ChannelsOf(f)[i].type = type
      BY DEF Offers
    <3>2. CASE <<ChannelsOf(f)[i]>> = OwnFor(kind, k, f.at)
      BY <2>1, <3>2
    <3>3. CASE \E j \in DOMAIN f.channels : ChannelsOf(f)[i] = f.channels[j]
      <4>1. ChannelsOf(f)[i].type = "reductions"
        BY <1>2, <3>3 DEF FrameOK
      <4> QED BY <1>7, <3>1, <4>1
    <3> QED BY <1>1, <3>1, <3>2, <3>3, ChannelOrigin
  <2> QED BY <2>4, <2>5
<1> QED
  BY <1>6, <1>7

LEMMA OwnChannelHolds ==
  ASSUME IInv, OneChannelPerScope
  PROVE  OwnChannel
<1>1. SUFFICES ASSUME AtStart(DOMAIN Asks)
      PROVE LET outer == Len(stack) - 1
                type == Asks[Op.kind]
                isProvided == outer > 0 /\ stack[outer].ops[stack[outer].at].kind = Provider[type]
            IN  GetSideChannel(type) = IF isProvided THEN Channel(type, outer) ELSE None
  BY DEF OwnChannel
<1> DEFINE n == Len(stack)
           m == n - 1
           type == Asks[Op.kind]
           isProvided == m > 0 /\ stack[m].ops[stack[m].at].kind = Provider[type]
<1>2. /\ n \in Nat /\ n >= 1 /\ DOMAIN stack = 1..n /\ Top = stack[n]
      /\ Op.kind \in {"reduce", "index", "transfer"} /\ Op.kind \in DOMAIN Asks
  <2>1. stack \in Seq(FramesOf(prog))
    BY DEF IInv, StackOK
  <2>2. Op.kind \in DOMAIN Asks
    BY <1>1, AtRest
  <2>3. DOMAIN Asks = {"reduce", "index", "transfer"}
    BY DEF Asks
  <2> QED BY <2>1, <2>2, <2>3, TopFacts DEF IInv
<1>3. type \in {"reductions", "indices", "mask"} /\ (type = "mask" <=> Op.kind = "transfer")
  BY <1>2 DEF Asks
<1>4. Offers(Top, type) = {}
  BY <1>1, <1>2, NothingInside
<1> HIDE DEF n, type
<1>5. CASE isProvided
  <2>1. m \in 1..n - 1 /\ n > 1
    BY <1>2, <1>5
  <2>2. /\ Offers(stack[m], type) # {}
        /\ \A i \in Offers(stack[m], type) :
             ChannelsOf(stack[m])[i] = ChannelFor(type, m, stack[m].at)
    BY <1>3, <1>5, <2>1, ProviderOffers DEF n
  <2>3. GetSideChannel(type) = ChannelFor(type, m, stack[m].at)
    BY <1>4, <2>1, <2>2, FoundAround DEF n
  <2>4. ChannelFor(type, m, stack[m].at) = Channel(type, m)
    BY DEF ChannelFor, Channel
  <2> QED BY <1>5, <2>3, <2>4 DEF n, type
<1>6. CASE ~isProvided
  <2>1. ASSUME NEW k \in 1..n  PROVE Offers(stack[k], type) = {}
    <3>1. CASE k = n
      BY <1>2, <1>4, <3>1
    <3>2. CASE k # n
      <4>1. k \in 1..n - 1 /\ n > 1 /\ m > 0
        BY <1>2, <3>2
      <4>2. Op.kind = "transfer" /\ type = "mask"
        <5>1. Op.kind \notin {"reduce", "index"}
          BY <1>1, <1>6, <4>1, ProviderAround DEF n, type
        <5> QED BY <1>2, <1>3, <5>1
      <4>3. stack[k].ops[stack[k].at].kind # "mask"
        <5>1. CASE k = m
          <6>1. Provider["mask"] = "mask"
            BY DEF Provider
          <6> QED BY <1>6, <4>1, <4>2, <5>1, <6>1
        <5>2. CASE k # m
          <6>1. k + 1 < n
            BY <1>2, <4>1, <5>2
          <6> QED BY <4>1, <6>1, NoMaskAround DEF n
        <5> QED BY <5>1, <5>2
      <4>4. SUFFICES ASSUME NEW i \in DOMAIN ChannelsOf(stack[k]),
                            ChannelsOf(stack[k])[i].type = "mask"
                     PROVE  FALSE
        BY <4>2 DEF Offers
      <4> DEFINE c == ChannelsOf(stack[k])[i]
                 f == stack[k]
      <4>5. \/ f.ops[f.at].kind = "generic" /\ <<c>> = <<ChannelFor("indices", k, f.at)>>
            \/ \E j \in DOMAIN f.channels : c = f.channels[j]
        <5>1. \/ /\ f.ops[f.at].kind \in {"generic", "mask"}
                 /\ <<c>> = OwnFor(f.ops[f.at].kind, k, f.at)
              \/ \E j \in DOMAIN f.channels : c = f.channels[j]
          BY <4>1, ChannelOrigin DEF n
        <5>2. CASE /\ f.ops[f.at].kind \in {"generic", "mask"}
                   /\ <<c>> = OwnFor(f.ops[f.at].kind, k, f.at)
          <6>1. f.ops[f.at].kind = "generic"
            BY <4>3, <5>2
          <6>2. OwnFor(f.ops[f.at].kind, k, f.at) = <<ChannelFor("indices", k, f.at)>>
            BY <6>1 DEF OwnFor
          <6> QED BY <5>2, <6>1, <6>2
        <5> QED BY <5>1, <5>2
      <4>6. c.type = "indices" \/ c.type = "reductions"
        <5>1. CASE <<c>> = <<ChannelFor("indices", k, f.at)>>
          <6>1. c = ChannelFor("indices", k, f.at)
            BY <5>1
          <6> QED BY <6>1 DEF ChannelFor
        <5>2. CASE \E j \in DOMAIN f.channels : c = f.channels[j]
          <6>1. FrameOK(prog, f, k)
            BY <4>1, TopFacts DEF IInv, n
          <6> QED BY <5>2, <6>1 DEF FrameOK
        <5> QED BY <4>5, <5>1, <5>2
      <4> QED BY <4>4, <4>6
    <3> QED BY <3>1, <3>2
  <2>2. GetSideChannel(type) = None
    BY <1>2, <2>1, FoundNowhere DEF n
  <2> QED BY <1>6, <2>2 DEF n, type
<1> QED
  BY <1>5, <1>6

(* An operation that asks for a side channel finds the one of the          *)
(* operation that it is directly nested in (interpreter.h:151-160,         *)
(* scf.cc:153-172), however deep loops and calls are nested around it, in  *)
(* programs in which no two parallel loops share a scope.                  *)
THEOREM ChannelsAreOwn ==
  ASSUME OneChannelPerScope
  PROVE  Spec => []OwnChannel
<1>1. IInv => OwnChannel
  BY OwnChannelHolds
<1> QED
  BY <1>1, Invariance, PTL
=============================================================================
