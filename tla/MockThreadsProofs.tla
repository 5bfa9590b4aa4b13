-------------------------- MODULE MockThreadsProofs ----------------------------
(***************************************************************************)
(* Proofs about MockThreads, for any threads, mock objects, expectations,    *)
(* actions and programs.  A call that is too many carries its excess in its  *)
(* frame until it reports it; what verification takes off a list no call     *)
(* finds any more; and who holds the lock runs nothing else.                 *)
(***************************************************************************)
EXTENDS MockThreads, FiniteSetTheorems, SequenceTheorems, TLAPS

CallPcs == {"size", "find", "perform", "default", "unexpected", "report", "reportUnexpected"}
LockPcs == {"each", "unregister"}
(* Where an operation may stand that has invoked another *)
InvokingPcs == {"report", "reportUnexpected", "drop"}

Pcs == CallPcs \union LockPcs \union {"lock", "drop", "member", "dropDefaults"}

Frames ==
  [op : {"call", "verify", "destroy"}, on : Mockers \union Objects,
   pc : Pcs,
   exp : Exps \union {0}, excess : BOOLEAN, member : Mockers \union {Nobody},
   done : SUBSET Mockers, doomed : SUBSET Exps]

Typed ==
  /\ mutex \in Threads \union {Nobody}
  /\ stack \in [Threads -> Seq(Frames)] /\ todo \in [Threads -> Seq(Operations \union Joins)]
  /\ list \in [Mockers -> SUBSET Exps] /\ registered \subseteq Mockers /\ alive \subseteq Mockers
  /\ callCount \in [Exps -> Nat] /\ reported \in [Exps -> Nat] /\ unexpected \in Nat
  /\ verdict \in [Exps -> {"pending", "over", "missing", "met"}]

(* What a frame says is so: a call is on a mock function, an excessive one   *)
(* has its expectation, and a mock function whose expectations are being      *)
(* deleted has none left.                                                    *)
Sound(f) ==
  /\ f.pc \in CallPcs => f.on \in Mockers
  /\ f.pc = "perform" => f.exp \in Exps
  /\ f.excess => f.pc \in {"default", "report"} /\ f.exp \in Exps
  /\ f.pc \in {"drop", "unregister", "dropDefaults"} => f.member \in Mockers /\ list[f.member] = {}

AllSound == \A t \in Threads : \A i \in DOMAIN stack[t] : Sound(stack[t][i])

(* Only the innermost operation runs; the others have invoked it. *)
Invoking == \A t \in Threads : \A i \in DOMAIN stack[t] : i < Len(stack[t]) => stack[t][i].pc \in InvokingPcs

(* The lock is held by the thread that verifies or unregisters. *)
Holds(t) == At(t, "each") \/ At(t, "unregister")
LockedWhileShort == \A t \in Threads : mutex = t <=> Holds(t)

(* The excess is reported, or a frame will report it. *)
Counted ==
  \A e \in Exps :
    /\ IsFiniteSet(Unreported(e))
    /\ reported[e] + Cardinality(Unreported(e)) =
         IF callCount[e] > Max[e] THEN callCount[e] - Max[e] ELSE 0

(* An expectation is on its list until it is verified, before its mock       *)
(* function is gone, and from then on it is not called.                      *)
Judged ==
  /\ \A m \in Mockers : \A e \in list[m] : MockerOf[e] = m
  /\ \A e \in Exps :
       /\ verdict[e] = "pending" <=> e \in list[MockerOf[e]]
       /\ verdict[e] # "pending" => (verdict[e] = "over" <=> callCount[e] > Max[e])
       /\ MockerOf[e] \notin alive => verdict[e] # "pending"

MInv == Typed /\ AllSound /\ Invoking /\ LockedWhileShort /\ Counted /\ Judged
--------------------------------------------------------------------------------
(* Frames and stacks *)

(* A frame that moves on *)
LEMMA MovedFrame ==
  ASSUME NEW f \in Frames, NEW pc \in Pcs
  PROVE  LET g == [f EXCEPT !.pc = pc] IN
         /\ g \in Frames /\ g.pc = pc /\ g.op = f.op /\ g.on = f.on /\ g.exp = f.exp
         /\ g.excess = f.excess /\ g.member = f.member /\ g.doomed = f.doomed
BY DEF Frames

(* A frame that begins *)
LEMMA NewFrame ==
  ASSUME NEW op \in Operations
  PROVE  LET f == Frame(op, FirstPc[op.op]) IN
         /\ f \in Frames /\ f.pc \in {"size", "lock", "member"} /\ ~f.excess
         /\ f.pc = "size" => f.on \in Mockers
<1>1. FirstPc["call"] = "size" /\ FirstPc["verify"] = "lock" /\ FirstPc["destroy"] = "member"
  BY DEF FirstPc
<1>2. CASE \E m \in Mockers : op = Op("call", m)
  BY <1>1, <1>2 DEF Op, Frame, Frames, Pcs, CallPcs
<1>3. CASE \E o \in Objects : op = Op("verify", o) \/ op = Op("destroy", o)
  BY <1>1, <1>3 DEF Op, Frame, Frames, Pcs
<1> QED
  BY <1>2, <1>3 DEF Operations

(* The innermost frame *)
LEMMA TopFrame ==
  ASSUME Typed, AllSound, NEW t \in Threads, Running(t)
  PROVE  /\ stack[t] \in Seq(Frames) /\ Len(stack[t]) \in Nat /\ Len(stack[t]) > 0
         /\ DOMAIN stack[t] = 1 .. Len(stack[t]) /\ Len(stack[t]) \in DOMAIN stack[t]
         /\ Top(t) = stack[t][Len(stack[t])] /\ Top(t) \in Frames /\ Sound(Top(t))
<1>1. stack[t] \in Seq(Frames) /\ stack[t] # <<>>
  BY DEF Typed, Running
<1> QED
  BY <1>1 DEF AllSound, Top

(* The innermost frame becomes f. *)
LEMMA Replaced ==
  ASSUME Typed, AllSound, NEW t \in Threads, Running(t), NEW f \in Frames, Becomes(t, f)
  PROVE  /\ stack' \in [Threads -> Seq(Frames)] /\ \A u \in Threads : u # t => stack'[u] = stack[u]
         /\ Len(stack'[t]) = Len(stack[t]) /\ DOMAIN stack'[t] = DOMAIN stack[t]
         /\ stack'[t][Len(stack[t])] = f
         /\ \A i \in DOMAIN stack[t] : i # Len(stack[t]) => stack'[t][i] = stack[t][i]
<1> DEFINE s == stack[t]
           b == SubSeq(s, 1, Len(s) - 1)
<1>1. s \in Seq(Frames) /\ Len(s) \in Nat /\ Len(s) > 0 /\ DOMAIN s = 1 .. Len(s)
  BY TopFrame
<1>2. b \in Seq(Frames) /\ Len(b) = Len(s) - 1 /\ \A i \in 1 .. Len(s) - 1 : b[i] = s[i]
  BY <1>1
<1>3. stack' = [stack EXCEPT ![t] = Append(b, f)] /\ stack \in [Threads -> Seq(Frames)]
  BY DEF Becomes, Below, Typed
<1> HIDE DEF b
<1>4. Append(b, f) \in Seq(Frames) /\ Len(Append(b, f)) = Len(s) /\ DOMAIN Append(b, f) = 1 .. Len(s)
      /\ Append(b, f)[Len(s)] = f /\ \A i \in 1 .. Len(s) - 1 : Append(b, f)[i] = s[i]
  BY <1>1, <1>2
<1>5. stack' \in [Threads -> Seq(Frames)] /\ stack'[t] = Append(b, f)
      /\ \A u \in Threads : u # t => stack'[u] = stack[u]
  BY <1>3, <1>4
<1>6. \A i \in DOMAIN s : i # Len(s) => i \in 1 .. Len(s) - 1
  BY <1>1
<1> QED
  BY <1>1, <1>4, <1>5, <1>6

(* It ends. *)
LEMMA Popped ==
  ASSUME Typed, AllSound, NEW t \in Threads, Running(t), Returns(t)
  PROVE  /\ stack' \in [Threads -> Seq(Frames)] /\ \A u \in Threads : u # t => stack'[u] = stack[u]
         /\ Len(stack'[t]) = Len(stack[t]) - 1 /\ DOMAIN stack'[t] = 1 .. Len(stack[t]) - 1
         /\ \A i \in DOMAIN stack'[t] : stack'[t][i] = stack[t][i]
<1> DEFINE s == stack[t]
           b == SubSeq(s, 1, Len(s) - 1)
<1>1. s \in Seq(Frames) /\ Len(s) \in Nat /\ Len(s) > 0
  BY TopFrame
<1>2. b \in Seq(Frames) /\ Len(b) = Len(s) - 1 /\ DOMAIN b = 1 .. Len(s) - 1
      /\ \A i \in 1 .. Len(s) - 1 : b[i] = s[i]
  BY <1>1
<1>3. stack' = [stack EXCEPT ![t] = b] /\ stack \in [Threads -> Seq(Frames)]
  BY DEF Returns, Below, Typed
<1> HIDE DEF b
<1> QED
  BY <1>1, <1>2, <1>3

(* It becomes f and invokes an operation. *)
LEMMA Invoked ==
  ASSUME Typed, AllSound, NEW t \in Threads, Running(t), NEW f \in Frames, NEW op \in Operations,
         Invokes(t, f, op)
  PROVE  LET g == Frame(op, FirstPc[op.op]) IN
         /\ stack' \in [Threads -> Seq(Frames)] /\ \A u \in Threads : u # t => stack'[u] = stack[u]
         /\ Len(stack'[t]) = Len(stack[t]) + 1 /\ DOMAIN stack'[t] = 1 .. Len(stack[t]) + 1
         /\ stack'[t][Len(stack[t])] = f /\ stack'[t][Len(stack[t]) + 1] = g
         /\ \A i \in DOMAIN stack[t] : i # Len(stack[t]) => stack'[t][i] = stack[t][i]
<1> DEFINE s == stack[t]
           b == SubSeq(s, 1, Len(s) - 1)
           g == Frame(op, FirstPc[op.op])
<1>1. s \in Seq(Frames) /\ Len(s) \in Nat /\ Len(s) > 0 /\ DOMAIN s = 1 .. Len(s)
  BY TopFrame
<1>2. b \in Seq(Frames) /\ Len(b) = Len(s) - 1 /\ \A i \in 1 .. Len(s) - 1 : b[i] = s[i]
  BY <1>1
<1>3. g \in Frames
  BY NewFrame
<1>4. op # NoOp
  BY DEF Operations, NoOp, Op
<1>5. stack' = [stack EXCEPT ![t] = Append(b, f) \o <<g>>] /\ stack \in [Threads -> Seq(Frames)]
  BY <1>4 DEF Invokes, Below, Typed
<1> HIDE DEF b, g
<1> DEFINE c == Append(b, f)
<1>6. c \in Seq(Frames) /\ Len(c) = Len(s) /\ c[Len(s)] = f /\ \A i \in 1 .. Len(s) - 1 : c[i] = s[i]
  BY <1>1, <1>2
<1> HIDE DEF c
<1>7. c \o <<g>> \in Seq(Frames) /\ Len(c \o <<g>>) = Len(s) + 1 /\ DOMAIN (c \o <<g>>) = 1 .. Len(s) + 1
      /\ (c \o <<g>>)[Len(s) + 1] = g /\ \A i \in 1 .. Len(s) : (c \o <<g>>)[i] = c[i]
  BY <1>1, <1>3, <1>6
<1>8. stack' \in [Threads -> Seq(Frames)] /\ stack'[t] = c \o <<g>>
      /\ \A u \in Threads : u # t => stack'[u] = stack[u]
  BY <1>5, <1>7 DEF c
<1> HIDE DEF s
<1>9. \A i \in DOMAIN s : i # Len(s) => i \in 1 .. Len(s) - 1 /\ i \in 1 .. Len(s)
  BY <1>1
<1>10. Len(s) \in 1 .. Len(s)
  BY <1>1
<1>11. /\ Len(stack'[t]) = Len(s) + 1 /\ DOMAIN stack'[t] = 1 .. Len(s) + 1
      /\ stack'[t][Len(s)] = f /\ stack'[t][Len(s) + 1] = g
      /\ \A i \in DOMAIN s : i # Len(s) => stack'[t][i] = s[i]
  BY <1>6, <1>7, <1>8, <1>9, <1>10
<1> QED
  BY <1>8, <1>11 DEF g, s
--------------------------------------------------------------------------------
(* What a change of the stacks preserves *)

(* The i-th operation of thread u is a call that exceeded e. *)
Exceeds(u, i, e) == i \in DOMAIN stack[u] /\ stack[u][i].exp = e /\ stack[u][i].excess

LEMMA UnreportedIs ==
  ASSUME NEW e
  PROVE  \A w : w \in Unreported(e) <=> \E u \in Threads : \E i \in DOMAIN stack[u] :
                                           w = <<u, i>> /\ Exceeds(u, i, e)
BY DEF Unreported, Exceeds

(* The same calls are to be reported. *)
LEMMA SameToReport ==
  ASSUME NEW e, \A u \in Threads : \A i : Exceeds(u, i, e)' <=> Exceeds(u, i, e)
  PROVE  Unreported(e)' = Unreported(e)
<1>1. \A w : w \in Unreported(e) <=> \E u \in Threads : \E i \in DOMAIN stack[u] : w = <<u, i>> /\ Exceeds(u, i, e)
  BY UnreportedIs
<1>2. \A w : w \in Unreported(e)' <=> \E u \in Threads : \E i \in DOMAIN stack'[u] : w = <<u, i>> /\ Exceeds(u, i, e)'
  BY DEF Unreported, Exceeds
<1>3. \A u \in Threads : \A i : (Exceeds(u, i, e) => i \in DOMAIN stack[u]) /\ (Exceeds(u, i, e)' => i \in DOMAIN stack'[u])
  BY DEF Exceeds
<1> QED
  BY <1>1, <1>2, <1>3

(* One more is to be reported. *)
LEMMA MoreToReport ==
  ASSUME NEW e, NEW t \in Threads, NEW n, ~Exceeds(t, n, e), Exceeds(t, n, e)',
         \A u \in Threads : \A i : <<u, i>> # <<t, n>> => (Exceeds(u, i, e)' <=> Exceeds(u, i, e))
  PROVE  Unreported(e)' = Unreported(e) \union {<<t, n>>} /\ <<t, n>> \notin Unreported(e)
<1>1. \A w : w \in Unreported(e) <=> \E u \in Threads : \E i \in DOMAIN stack[u] : w = <<u, i>> /\ Exceeds(u, i, e)
  BY UnreportedIs
<1>2. \A w : w \in Unreported(e)' <=> \E u \in Threads : \E i \in DOMAIN stack'[u] : w = <<u, i>> /\ Exceeds(u, i, e)'
  BY DEF Unreported, Exceeds
<1>3. \A u \in Threads : \A i : (Exceeds(u, i, e) => i \in DOMAIN stack[u]) /\ (Exceeds(u, i, e)' => i \in DOMAIN stack'[u])
  BY DEF Exceeds
<1>4. <<t, n>> \notin Unreported(e)
  BY <1>1
<1>5. \A w : w \in Unreported(e)' <=> w \in Unreported(e) \/ w = <<t, n>>
  BY <1>1, <1>2, <1>3
<1> QED
  BY <1>4, <1>5

(* One is reported. *)
LEMMA LessToReport ==
  ASSUME NEW e, NEW t \in Threads, NEW n, Exceeds(t, n, e), ~Exceeds(t, n, e)',
         \A u \in Threads : \A i : <<u, i>> # <<t, n>> => (Exceeds(u, i, e)' <=> Exceeds(u, i, e))
  PROVE  Unreported(e)' = Unreported(e) \ {<<t, n>>} /\ <<t, n>> \in Unreported(e)
<1>1. \A w : w \in Unreported(e) <=> \E u \in Threads : \E i \in DOMAIN stack[u] : w = <<u, i>> /\ Exceeds(u, i, e)
  BY UnreportedIs
<1>2. \A w : w \in Unreported(e)' <=> \E u \in Threads : \E i \in DOMAIN stack'[u] : w = <<u, i>> /\ Exceeds(u, i, e)'
  BY DEF Unreported, Exceeds
<1>3. \A u \in Threads : \A i : (Exceeds(u, i, e) => i \in DOMAIN stack[u]) /\ (Exceeds(u, i, e)' => i \in DOMAIN stack'[u])
  BY DEF Exceeds
<1>4. <<t, n>> \in Unreported(e)
  BY <1>1, <1>3
<1>5. \A w : w \in Unreported(e)' <=> w \in Unreported(e) /\ w # <<t, n>>
  BY <1>1, <1>2, <1>3
<1> QED
  BY <1>4, <1>5

(* If the same calls are to be reported and nothing is counted or reported,   *)
(* the counts agree as before.                                               *)
LEMMA CountedKept ==
  ASSUME Counted, callCount' = callCount, reported' = reported,
         \A e \in Exps : Unreported(e)' = Unreported(e)
  PROVE  Counted'
BY DEF Counted

LEMMA JudgedKept ==
  ASSUME Judged, callCount' = callCount, UNCHANGED <<list, alive, verdict>>
  PROVE  Judged'
BY DEF Judged

(* Frames stay sound while lists are only cleared. *)
LEMMA SoundKept ==
  ASSUME AllSound, NEW t \in Threads,
         \A m \in Mockers : list'[m] = list[m] \/ list'[m] = {},
         \A u \in Threads : u # t => stack'[u] = stack[u],
         \A i \in DOMAIN stack'[t] :
           Sound(stack[t][i])' \/ (i \in DOMAIN stack[t] /\ stack'[t][i] = stack[t][i])
  PROVE  AllSound'
<1>1. \A u \in Threads : u # t => \A i \in DOMAIN stack'[u] : Sound(stack[u][i])'
  <2> SUFFICES ASSUME NEW u \in Threads, u # t, NEW i \in DOMAIN stack'[u] PROVE Sound(stack[u][i])'
    OBVIOUS
  <2>1. stack'[u] = stack[u] /\ Sound(stack[u][i])
    BY DEF AllSound
  <2> QED
    BY <2>1 DEF Sound
<1>2. \A i \in DOMAIN stack'[t] : Sound(stack[t][i])'
  <2> SUFFICES ASSUME NEW i \in DOMAIN stack'[t], i \in DOMAIN stack[t], stack'[t][i] = stack[t][i]
               PROVE  Sound(stack[t][i])'
    OBVIOUS
  <2>1. Sound(stack[t][i])
    BY DEF AllSound
  <2> QED
    BY <2>1 DEF Sound
<1> QED
  BY <1>1, <1>2 DEF AllSound

(* The lock is taken, given back, or stays where it is. *)
LEMMA LockKept ==
  ASSUME Typed, LockedWhileShort, NEW t \in Threads,
         \A u \in Threads : u # t => stack'[u] = stack[u],
         \/ mutex' = mutex /\ (Holds(t)' <=> Holds(t))
         \/ mutex = Nobody /\ mutex' = t /\ Holds(t)'
         \/ mutex = t /\ mutex' = Nobody /\ ~Holds(t)'
  PROVE  LockedWhileShort'
<1>1. \A u \in Threads : u # t => (Holds(u)' <=> Holds(u))
  BY DEF Holds, At, Running, Top
<1> QED
  BY <1>1, MockThreadsAssumption DEF LockedWhileShort

(* The innermost frame moves on. *)
LEMMA Moves ==
  ASSUME MInv, NEW t \in Threads, Running(t), NEW f \in Frames, Becomes(t, f), Sound(f)',
         \A m \in Mockers : list'[m] = list[m] \/ list'[m] = {}
  PROVE  /\ stack' \in [Threads -> Seq(Frames)] /\ \A u \in Threads : u # t => stack'[u] = stack[u]
         /\ AllSound' /\ Invoking' /\ (Holds(t)' <=> f.pc \in LockPcs)
         /\ (f.excess <=> Top(t).excess) /\ (f.excess => f.exp = Top(t).exp) =>
              \A e \in Exps : Unreported(e)' = Unreported(e)
<1>1. Typed /\ AllSound /\ Invoking
  BY DEF MInv
<1>2. /\ stack' \in [Threads -> Seq(Frames)] /\ \A u \in Threads : u # t => stack'[u] = stack[u]
      /\ Len(stack'[t]) = Len(stack[t]) /\ DOMAIN stack'[t] = DOMAIN stack[t]
      /\ stack'[t][Len(stack[t])] = f
      /\ \A i \in DOMAIN stack[t] : i # Len(stack[t]) => stack'[t][i] = stack[t][i]
  BY <1>1, Replaced
<1>3. Len(stack[t]) \in Nat /\ Len(stack[t]) > 0 /\ Top(t) = stack[t][Len(stack[t])] /\ Len(stack[t]) \in DOMAIN stack[t]
      /\ DOMAIN stack[t] = 1 .. Len(stack[t])
  BY <1>1, TopFrame
<1>4. AllSound'
  <2>1. \A i \in DOMAIN stack'[t] : Sound(stack[t][i])' \/ (i \in DOMAIN stack[t] /\ stack'[t][i] = stack[t][i])
    BY <1>2
  <2> QED
    BY <1>1, <1>2, <2>1, SoundKept
<1>5. Invoking'
  BY <1>1, <1>2, <1>3 DEF Invoking
<1>6. Holds(t)' <=> f.pc \in LockPcs
  <2>1. stack'[t] # <<>> /\ Top(t)' = f
    BY <1>2, <1>3 DEF Top
  <2> QED
    BY <2>1 DEF Holds, At, Running, LockPcs
<1>7. ASSUME f.excess <=> Top(t).excess, f.excess => f.exp = Top(t).exp, NEW e \in Exps
      PROVE  Unreported(e)' = Unreported(e)
  <2>1. \A u \in Threads : \A i : Exceeds(u, i, e)' <=> Exceeds(u, i, e)
    BY <1>2, <1>3, <1>7 DEF Exceeds
  <2> QED
    BY <2>1, SameToReport
<1> QED
  BY <1>2, <1>4, <1>5, <1>6, <1>7

(* It invokes an operation, if there is one to invoke. *)
LEMMA Calls ==
  ASSUME MInv, NEW t \in Threads, Running(t), NEW f \in Frames, NEW op \in Operations \union {NoOp},
         Invokes(t, f, op), Sound(f)', f.pc \in InvokingPcs, list' = list
  PROVE  /\ stack' \in [Threads -> Seq(Frames)] /\ \A u \in Threads : u # t => stack'[u] = stack[u]
         /\ AllSound' /\ Invoking' /\ ~Holds(t)'
         /\ (f.excess <=> Top(t).excess) /\ (f.excess => f.exp = Top(t).exp) =>
              \A e \in Exps : Unreported(e)' = Unreported(e)
<1>1. CASE op = NoOp
  <2>1. Becomes(t, f)
    BY <1>1 DEF Invokes, Becomes
  <2> QED
    BY <2>1, Moves DEF InvokingPcs, LockPcs
<1>2. CASE op \in Operations
  <2>1. Typed /\ AllSound /\ Invoking
    BY DEF MInv
  <2>2. PICK g : g = Frame(op, FirstPc[op.op])
    OBVIOUS
  <2>3. g \in Frames /\ g.pc \in {"size", "lock", "member"} /\ ~g.excess /\ (g.pc = "size" => g.on \in Mockers)
    BY <1>2, <2>2, NewFrame
  <2>4. /\ stack' \in [Threads -> Seq(Frames)] /\ \A u \in Threads : u # t => stack'[u] = stack[u]
        /\ Len(stack'[t]) = Len(stack[t]) + 1 /\ DOMAIN stack'[t] = 1 .. Len(stack[t]) + 1
        /\ stack'[t][Len(stack[t])] = f /\ stack'[t][Len(stack[t]) + 1] = g
        /\ \A i \in DOMAIN stack[t] : i # Len(stack[t]) => stack'[t][i] = stack[t][i]
    BY <1>2, <2>1, <2>2, Invoked
  <2>5. Len(stack[t]) \in Nat /\ Len(stack[t]) > 0 /\ Top(t) = stack[t][Len(stack[t])]
        /\ DOMAIN stack[t] = 1 .. Len(stack[t])
    BY <2>1, TopFrame
  <2>6. Sound(g)'
    BY <2>3 DEF Sound, CallPcs
  <2>7. AllSound'
    <3>1. \A i \in DOMAIN stack'[t] : Sound(stack[t][i])' \/ (i \in DOMAIN stack[t] /\ stack'[t][i] = stack[t][i])
      BY <2>4, <2>5, <2>6
    <3> QED
      BY <2>1, <2>4, <3>1, SoundKept
  <2>8. Invoking'
    BY <2>1, <2>4, <2>5 DEF Invoking
  <2>9. ~Holds(t)'
    <3>1. Top(t)' = g
      BY <2>4, <2>5 DEF Top
    <3> QED
      BY <2>3, <3>1 DEF Holds, At
  <2>10. ASSUME f.excess <=> Top(t).excess, f.excess => f.exp = Top(t).exp, NEW e \in Exps
         PROVE  Unreported(e)' = Unreported(e)
    <3>1. \A u \in Threads : \A i : Exceeds(u, i, e)' <=> Exceeds(u, i, e)
      BY <2>3, <2>4, <2>5, <2>10 DEF Exceeds
    <3> QED
      BY <3>1, SameToReport
  <2> QED
    BY <2>4, <2>7, <2>8, <2>9, <2>10
<1> QED
  BY <1>1, <1>2

(* It ends. *)
LEMMA Ends ==
  ASSUME MInv, NEW t \in Threads, Running(t), Returns(t), list' = list
  PROVE  /\ stack' \in [Threads -> Seq(Frames)] /\ \A u \in Threads : u # t => stack'[u] = stack[u]
         /\ AllSound' /\ Invoking' /\ ~Holds(t)'
         /\ \A e \in Exps : ~(Top(t).excess /\ Top(t).exp = e) => Unreported(e)' = Unreported(e)
<1>1. Typed /\ AllSound /\ Invoking
  BY DEF MInv
<1>2. /\ stack' \in [Threads -> Seq(Frames)] /\ \A u \in Threads : u # t => stack'[u] = stack[u]
      /\ Len(stack'[t]) = Len(stack[t]) - 1 /\ DOMAIN stack'[t] = 1 .. Len(stack[t]) - 1
      /\ \A i \in DOMAIN stack'[t] : stack'[t][i] = stack[t][i]
  BY <1>1, Popped
<1>3. Len(stack[t]) \in Nat /\ Len(stack[t]) > 0 /\ Top(t) = stack[t][Len(stack[t])] /\ Len(stack[t]) \in DOMAIN stack[t]
      /\ DOMAIN stack[t] = 1 .. Len(stack[t])
  BY <1>1, TopFrame
<1>4. AllSound'
  <2>1. \A i \in DOMAIN stack'[t] : Sound(stack[t][i])' \/ (i \in DOMAIN stack[t] /\ stack'[t][i] = stack[t][i])
    BY <1>2, <1>3
  <2> QED
    BY <1>1, <1>2, <2>1, SoundKept
<1>5. Invoking'
  <2>1. \A i \in DOMAIN stack'[t] : i < Len(stack'[t]) => stack'[t][i].pc \in InvokingPcs
    <3> SUFFICES ASSUME NEW i \in DOMAIN stack'[t], i < Len(stack'[t]) PROVE stack'[t][i].pc \in InvokingPcs
      OBVIOUS
    <3>1. i \in DOMAIN stack[t] /\ i < Len(stack[t]) /\ stack'[t][i] = stack[t][i]
      BY <1>2, <1>3
    <3> QED
      BY <1>1, <3>1 DEF Invoking
  <2>2. \A u \in Threads : u # t => \A i \in DOMAIN stack'[u] : i < Len(stack'[u]) => stack'[u][i].pc \in InvokingPcs
    BY <1>1, <1>2 DEF Invoking
  <2> QED
    BY <2>1, <2>2 DEF Invoking
<1>6. ~Holds(t)'
  <2> SUFFICES ASSUME stack'[t] # <<>>, Top(t)'.pc \in {"each", "unregister"} PROVE FALSE
    BY DEF Holds, At, Running
  <2>1. Len(stack'[t]) \in DOMAIN stack'[t]
    BY <1>2
  <2>2. Top(t)' = stack[t][Len(stack'[t])] /\ Len(stack'[t]) \in DOMAIN stack[t] /\ Len(stack'[t]) < Len(stack[t])
    BY <1>2, <1>3, <2>1 DEF Top
  <2> QED
    BY <1>1, <2>2 DEF Invoking, InvokingPcs
<1>7. ASSUME NEW e \in Exps, ~(Top(t).excess /\ Top(t).exp = e)
      PROVE  Unreported(e)' = Unreported(e)
  <2>1. \A u \in Threads : \A i : Exceeds(u, i, e)' <=> Exceeds(u, i, e)
    BY <1>2, <1>3, <1>7 DEF Exceeds
  <2> QED
    BY <2>1, SameToReport
<1> QED
  BY <1>2, <1>4, <1>5, <1>6, <1>7
--------------------------------------------------------------------------------
(* The steps *)

LEMMA InitEstablishes == Init => MInv
<1> SUFFICES ASSUME Init PROVE MInv
  OBVIOUS
<1>1. \A t \in Threads : stack[t] = <<>>
  BY DEF Init
<1>2. Typed
  BY <1>1, MockThreadsAssumption DEF Init, Typed
<1>3. AllSound /\ Invoking /\ LockedWhileShort
  BY <1>1, MockThreadsAssumption DEF Init, AllSound, Invoking, LockedWhileShort, Holds, At, Running
<1>4. \A e : Unreported(e) = {}
  BY <1>1 DEF Unreported
<1>5. Counted
  <2> SUFFICES ASSUME NEW e \in Exps
               PROVE  /\ IsFiniteSet(Unreported(e))
                      /\ reported[e] + Cardinality(Unreported(e)) =
                           IF callCount[e] > Max[e] THEN callCount[e] - Max[e] ELSE 0
    BY DEF Counted
  <2>1. IsFiniteSet(Unreported(e)) /\ Cardinality(Unreported(e)) = 0
    BY <1>4, FS_EmptySet
  <2>2. reported[e] = 0 /\ callCount[e] = 0 /\ Max[e] \in Nat
    BY MockThreadsAssumption DEF Init
  <2> QED
    BY <2>1, <2>2
<1>6. Judged
  BY MockThreadsAssumption DEF Init, Judged
<1> QED
  BY <1>2, <1>3, <1>5, <1>6 DEF MInv

LEMMA BeginStep == ASSUME MInv, NEW t \in Threads, Begin(t) PROVE MInv'
<1>1. /\ stack[t] = <<>> /\ todo[t] # <<>> /\ todo' = [todo EXCEPT ![t] = Tail(@)]
      /\ UNCHANGED <<mutex, memory, callCount, report>>
  BY DEF Begin, Running
<1>2. todo[t] \in Seq(Operations \union Joins) /\ Head(todo[t]) \in Operations \union Joins
      /\ Tail(todo[t]) \in Seq(Operations \union Joins)
  BY <1>1 DEF MInv, Typed
<1>3. Judged'
  BY <1>1, JudgedKept DEF MInv, memory
<1>4. CASE UNCHANGED stack
  <2>1. Typed'
    BY <1>1, <1>2, <1>4 DEF MInv, Typed, memory, report
  <2>2. \A e \in Exps : Unreported(e)' = Unreported(e)
    BY <1>4 DEF Unreported
  <2>3. AllSound' /\ Invoking' /\ LockedWhileShort'
    BY <1>1, <1>4 DEF MInv, AllSound, Sound, Invoking, LockedWhileShort, Holds, At, Running, Top, memory
  <2> QED
    BY <1>1, <1>3, <2>1, <2>2, <2>3, CountedKept DEF MInv, report
<1>5. CASE stack' # stack
  <2>1. PICK op \in Operations : stack' = [stack EXCEPT ![t] = <<Frame(op, FirstPc[op.op])>>]
    <3>1. Head(todo[t]).op # "join" /\ stack' = [stack EXCEPT ![t] = <<Frame(Head(todo[t]), FirstPc[Head(todo[t]).op])>>]
      BY <1>5 DEF Begin
    <3>2. \A j \in Joins : j.op = "join"
      BY DEF Joins, Op
    <3> QED
      BY <1>2, <3>1, <3>2
  <2>2. PICK g : g = Frame(op, FirstPc[op.op])
    OBVIOUS
  <2>3. g \in Frames /\ g.pc \in {"size", "lock", "member"} /\ ~g.excess /\ (g.pc = "size" => g.on \in Mockers)
    BY <2>2, NewFrame
  <2>4. /\ stack' \in [Threads -> Seq(Frames)] /\ stack'[t] = <<g>>
        /\ \A u \in Threads : u # t => stack'[u] = stack[u]
    BY <2>1, <2>2, <2>3 DEF MInv, Typed
  <2>5. Len(stack'[t]) = 1 /\ DOMAIN stack'[t] = {1} /\ stack'[t][1] = g /\ DOMAIN stack[t] = {}
    BY <1>1, <2>4
  <2>6. Typed'
    BY <1>1, <1>2, <2>4 DEF MInv, Typed, memory, report
  <2>7. Sound(g)'
    BY <2>3 DEF Sound, CallPcs
  <2>8. AllSound'
    BY <1>1, <2>4, <2>5, <2>7, SoundKept DEF MInv, memory
  <2>9. Invoking'
    <3>1. \A i \in DOMAIN stack'[t] : ~(i < Len(stack'[t]))
      BY <2>5
    <3>2. Invoking
      BY DEF MInv
    <3> QED
      BY <2>4, <3>1, <3>2 DEF Invoking
  <2>10. ~Holds(t)' /\ ~Holds(t)
    BY <1>1, <2>3, <2>4, <2>5 DEF Holds, At, Running, Top
  <2>11. LockedWhileShort'
    BY <1>1, <2>4, <2>10, LockKept DEF MInv
  <2>12. \A e \in Exps : Unreported(e)' = Unreported(e)
    <3> SUFFICES ASSUME NEW e \in Exps PROVE Unreported(e)' = Unreported(e)
      OBVIOUS
    <3>1. \A u \in Threads : \A i : Exceeds(u, i, e)' <=> Exceeds(u, i, e)
      BY <2>3, <2>4, <2>5 DEF Exceeds
    <3> QED
      BY <3>1, SameToReport
  <2> QED
    BY <1>1, <1>3, <2>6, <2>8, <2>9, <2>11, <2>12, CountedKept DEF MInv, report
<1> QED
  BY <1>4, <1>5

(* A step of the innermost frame that counts, reports and deletes nothing *)
LEMMA Quiet ==
  ASSUME MInv, NEW t \in Threads, UNCHANGED <<todo, list, registered, alive, verdict, callCount, reported>>,
         unexpected' \in {unexpected, unexpected + 1}, mutex' \in Threads \union {Nobody},
         stack' \in [Threads -> Seq(Frames)], \A u \in Threads : u # t => stack'[u] = stack[u],
         AllSound', Invoking', \A e \in Exps : Unreported(e)' = Unreported(e),
         \/ mutex' = mutex /\ ~Holds(t) /\ ~Holds(t)'
         \/ mutex = Nobody /\ mutex' = t /\ Holds(t)'
         \/ Holds(t) /\ mutex' = Nobody /\ ~Holds(t)'
  PROVE  MInv'
<1>1. Typed'
  BY DEF MInv, Typed
<1>2. mutex = t <=> Holds(t)
  BY DEF MInv, LockedWhileShort
<1>3. LockedWhileShort'
  BY <1>2, LockKept DEF MInv
<1>4. Counted' /\ Judged'
  BY CountedKept, JudgedKept DEF MInv
<1> QED
  BY <1>1, <1>3, <1>4 DEF MInv

(* The running operation of a thread and what is known of it *)
LEMMA Innermost ==
  ASSUME MInv, NEW t \in Threads, NEW pc, At(t, pc)
  PROVE  /\ Running(t) /\ Top(t) \in Frames /\ Top(t).pc = pc /\ Sound(Top(t))
         /\ Holds(t) <=> pc \in LockPcs
         /\ mutex = t <=> pc \in LockPcs
         /\ mutex \in Threads \union {Nobody}
<1>1. Running(t) /\ Top(t).pc = pc
  BY DEF At
<1>2. Holds(t) <=> pc \in LockPcs
  BY <1>1 DEF Holds, At, LockPcs
<1> QED
  BY <1>1, <1>2, TopFrame DEF MInv, LockedWhileShort, Typed

(* The innermost frame goes on, with the lock, without it, or taking it. *)
LEMMA GoesOn ==
  ASSUME MInv, NEW t \in Threads, NEW pc, At(t, pc), NEW next \in Pcs, Goto(t, next),
         UNCHANGED <<todo, list, registered, alive, verdict, callCount, report>>,
         next # "perform", next \in CallPcs => pc \in CallPcs,
         next \in {"drop", "unregister", "dropDefaults"} => pc \in {"drop", "unregister", "dropDefaults"},
         Top(t).excess => next \in {"default", "report"},
         \/ mutex' = mutex /\ pc \notin LockPcs /\ next \notin LockPcs
         \/ mutex = Nobody /\ mutex' = t /\ next \in LockPcs
         \/ pc \in LockPcs /\ mutex' = Nobody /\ next \notin LockPcs
  PROVE  MInv'
<1>1. PICK f : f = [Top(t) EXCEPT !.pc = next]
  OBVIOUS
<1>2. /\ Running(t) /\ Top(t) \in Frames /\ Top(t).pc = pc /\ Sound(Top(t))
      /\ Holds(t) <=> pc \in LockPcs
      /\ mutex \in Threads \union {Nobody}
  BY Innermost
<1>3. f \in Frames /\ f.pc = next /\ f.on = Top(t).on /\ f.exp = Top(t).exp
      /\ f.excess = Top(t).excess /\ f.member = Top(t).member
  BY <1>1, <1>2, MovedFrame
<1>4. Sound(f)'
  BY <1>2, <1>3 DEF Sound
<1>5. Becomes(t, f)
  BY <1>1 DEF Goto
<1>6. /\ stack' \in [Threads -> Seq(Frames)] /\ \A u \in Threads : u # t => stack'[u] = stack[u]
      /\ AllSound' /\ Invoking' /\ (Holds(t)' <=> f.pc \in LockPcs)
      /\ \A e \in Exps : Unreported(e)' = Unreported(e)
  BY <1>2, <1>3, <1>4, <1>5, Moves
<1> QED
  BY <1>2, <1>3, <1>6, Quiet DEF report

LEMMA ReadSizeStep == ASSUME MInv, NEW t \in Threads, ReadSize(t) PROVE MInv'
<1>1. At(t, "size") /\ UNCHANGED <<mutex, todo, memory, callCount, report>>
      /\ (Goto(t, "default") \/ Goto(t, "find"))
  BY DEF ReadSize
<1>2. ~Top(t).excess
  BY <1>1, Innermost DEF Sound
<1> QED
  BY <1>1, <1>2, GoesOn DEF memory, Pcs, CallPcs, LockPcs

LEMMA LockToVerifyStep == ASSUME MInv, NEW t \in Threads, LockToVerify(t) PROVE MInv'
<1>1. At(t, "lock") /\ mutex = Nobody /\ mutex' = t /\ Goto(t, "each")
      /\ UNCHANGED <<todo, memory, callCount, report>>
  BY DEF LockToVerify
<1>2. ~Top(t).excess
  BY <1>1, Innermost DEF Sound
<1> QED
  BY <1>1, <1>2, GoesOn DEF memory, Pcs, CallPcs, LockPcs

LEMMA RelockStep == ASSUME MInv, NEW t \in Threads, Relock(t) PROVE MInv'
<1>1. At(t, "drop") /\ mutex = Nobody /\ mutex' = t /\ (Goto(t, "each") \/ Goto(t, "unregister"))
      /\ UNCHANGED <<todo, memory, callCount, report>>
  BY DEF Relock
<1>2. ~Top(t).excess
  BY <1>1, Innermost DEF Sound
<1> QED
  BY <1>1, <1>2, GoesOn DEF memory, Pcs, CallPcs, LockPcs

(* An operation that ends *)
LEMMA EndsQuietly ==
  ASSUME MInv, NEW t \in Threads, NEW pc, At(t, pc), Returns(t), ~Top(t).excess,
         UNCHANGED <<todo, list, registered, alive, verdict, callCount, reported>>,
         unexpected' \in {unexpected, unexpected + 1},
         \/ mutex' = mutex /\ pc \notin LockPcs
         \/ pc \in LockPcs /\ mutex' = Nobody
  PROVE  MInv'
<1>1. /\ Running(t) /\ Top(t) \in Frames /\ Top(t).pc = pc /\ Sound(Top(t))
      /\ Holds(t) <=> pc \in LockPcs
      /\ mutex \in Threads \union {Nobody}
  BY Innermost
<1>2. /\ stack' \in [Threads -> Seq(Frames)] /\ \A u \in Threads : u # t => stack'[u] = stack[u]
      /\ AllSound' /\ Invoking' /\ ~Holds(t)'
      /\ \A e \in Exps : Unreported(e)' = Unreported(e)
  BY <1>1, Ends
<1> QED
  BY <1>1, <1>2, Quiet

LEMMA VerifyDoneStep == ASSUME MInv, NEW t \in Threads, VerifyDone(t) PROVE MInv'
<1>1. At(t, "each") /\ mutex' = Nobody /\ Returns(t) /\ UNCHANGED <<todo, memory, callCount, report>>
  BY DEF VerifyDone
<1>2. ~Top(t).excess
  BY <1>1, Innermost DEF Sound
<1> QED
  BY <1>1, <1>2, EndsQuietly DEF memory, report, LockPcs

LEMMA DestroyedStep == ASSUME MInv, NEW t \in Threads, Destroyed(t) PROVE MInv'
<1>1. At(t, "member") /\ Returns(t) /\ UNCHANGED <<mutex, todo, memory, callCount, report>>
  BY DEF Destroyed
<1>2. ~Top(t).excess
  BY <1>1, Innermost DEF Sound
<1> QED
  BY <1>1, <1>2, EndsQuietly DEF memory, report, LockPcs

(* An operation that invokes another *)
LEMMA InvokesQuietly ==
  ASSUME MInv, NEW t \in Threads, NEW pc, At(t, pc), pc \notin LockPcs,
         NEW f \in Frames, NEW op \in Operations \union {NoOp}, Invokes(t, f, op),
         f.pc \in InvokingPcs, f.excess = Top(t).excess, f.exp = Top(t).exp, Sound(f)',
         UNCHANGED <<todo, list, registered, alive, verdict, callCount, report, mutex>>
  PROVE  MInv'
<1>1. /\ Running(t) /\ ~Holds(t) /\ mutex \in Threads \union {Nobody}
  BY Innermost
<1>2. /\ stack' \in [Threads -> Seq(Frames)] /\ \A u \in Threads : u # t => stack'[u] = stack[u]
      /\ AllSound' /\ Invoking' /\ ~Holds(t)'
      /\ \A e \in Exps : Unreported(e)' = Unreported(e)
  BY <1>1, Calls
<1> QED
  BY <1>1, <1>2, Quiet DEF report

LEMMA PerformActionStep == ASSUME MInv, NEW t \in Threads, PerformAction(t) PROVE MInv'
<1>1. /\ At(t, "perform") /\ Invokes(t, [Top(t) EXCEPT !.pc = "report"], Action[Top(t).exp])
      /\ UNCHANGED <<mutex, todo, memory, callCount, report>>
  BY DEF PerformAction
<1>2. Top(t) \in Frames /\ Top(t).pc = "perform" /\ Sound(Top(t))
  BY <1>1, Innermost
<1>3. PICK op \in Operations \union {NoOp} : op = Action[Top(t).exp]
  BY <1>2, MockThreadsAssumption DEF Sound
<1>4. PICK f : f = [Top(t) EXCEPT !.pc = "report"]
  OBVIOUS
<1>5. f \in Frames /\ f.pc = "report" /\ f.on = Top(t).on /\ f.exp = Top(t).exp /\ f.excess = Top(t).excess
  BY <1>2, <1>4, MovedFrame DEF Pcs, CallPcs
<1>6. Sound(f)'
  BY <1>2, <1>5 DEF Sound, CallPcs
<1> QED
  BY <1>1, <1>3, <1>4, <1>5, <1>6, InvokesQuietly DEF memory, LockPcs, InvokingPcs

LEMMA PerformDefaultActionStep == ASSUME MInv, NEW t \in Threads, PerformDefaultAction(t) PROVE MInv'
<1>1. PICK pc \in {"default", "unexpected"} : At(t, pc)
  BY DEF PerformDefaultAction
<1>2. /\ Top(t) \in Frames /\ Top(t).pc = pc /\ Sound(Top(t))
  BY <1>1, Innermost
<1>3. PICK next \in {"report", "reportUnexpected"} :
        /\ next = (IF pc = "unexpected" THEN "reportUnexpected" ELSE "report")
        /\ Invokes(t, [Top(t) EXCEPT !.pc = next], DefaultAction[Top(t).on])
  BY <1>1, <1>2 DEF PerformDefaultAction, At
<1>4. UNCHANGED <<mutex, todo, memory, callCount, report>>
  BY DEF PerformDefaultAction
<1>5. PICK op \in Operations \union {NoOp} : op = DefaultAction[Top(t).on]
  BY <1>2, MockThreadsAssumption DEF Sound, CallPcs
<1>6. PICK f : f = [Top(t) EXCEPT !.pc = next]
  OBVIOUS
<1>7. f \in Frames /\ f.pc = next /\ f.on = Top(t).on /\ f.exp = Top(t).exp /\ f.excess = Top(t).excess
  BY <1>2, <1>6, MovedFrame DEF Pcs, CallPcs
<1>8. Sound(f)'
  BY <1>2, <1>3, <1>7 DEF Sound, CallPcs
<1> QED
  BY <1>1, <1>3, <1>4, <1>5, <1>6, <1>7, <1>8, InvokesQuietly DEF memory, LockPcs, InvokingPcs


LEMMA ReportUnexpectedStep == ASSUME MInv, NEW t \in Threads, ReportUnexpected(t) PROVE MInv'
<1>1. At(t, "reportUnexpected") /\ unexpected' = unexpected + 1 /\ Returns(t)
      /\ UNCHANGED <<mutex, todo, memory, callCount, reported>>
  BY DEF ReportUnexpected
<1>2. ~Top(t).excess
  BY <1>1, Innermost DEF Sound
<1> QED
  BY <1>1, <1>2, EndsQuietly DEF memory, LockPcs

LEMMA DropExpectationStep == ASSUME MInv, NEW t \in Threads, DropExpectation(t) PROVE MInv'
<1>1. PICK e \in Top(t).doomed :
        LET rest == [Top(t) EXCEPT !.doomed = @ \ {e}] IN
        IF Owns[e] = {} THEN Becomes(t, rest)
        ELSE \E o \in Owns[e] : Invokes(t, rest, Op("destroy", o))
  BY DEF DropExpectation
<1>2. /\ At(t, "drop") /\ UNCHANGED <<todo, list, registered, alive, verdict, callCount, report, mutex>>
  BY DEF DropExpectation
<1>3. /\ Running(t) /\ Top(t) \in Frames /\ Top(t).pc = "drop" /\ Sound(Top(t)) /\ ~Holds(t)
      /\ mutex \in Threads \union {Nobody}
  BY <1>2, Innermost DEF LockPcs
<1>4. PICK f : f = [Top(t) EXCEPT !.doomed = @ \ {e}]
  OBVIOUS
<1>5. /\ f \in Frames /\ f.pc = "drop" /\ f.on = Top(t).on /\ f.exp = Top(t).exp
      /\ f.excess = Top(t).excess /\ f.member = Top(t).member /\ e \in Exps
  BY <1>3, <1>4 DEF Frames
<1>6. Sound(f)'
  BY <1>2, <1>3, <1>5 DEF Sound, CallPcs
<1>7. CASE Owns[e] = {}
  <2>1. Becomes(t, f)
    BY <1>1, <1>4, <1>7
  <2>2. /\ stack' \in [Threads -> Seq(Frames)] /\ \A u \in Threads : u # t => stack'[u] = stack[u]
        /\ AllSound' /\ Invoking' /\ (Holds(t)' <=> f.pc \in LockPcs)
        /\ \A d \in Exps : Unreported(d)' = Unreported(d)
    BY <1>2, <1>3, <1>5, <1>6, <2>1, Moves
  <2> QED
    BY <1>2, <1>3, <1>5, <2>2, Quiet DEF report, LockPcs
<1>8. CASE Owns[e] # {}
  <2>1. PICK o \in Owns[e] : Invokes(t, f, Op("destroy", o))
    BY <1>1, <1>4, <1>8
  <2>2. PICK op : op = Op("destroy", o)
    OBVIOUS
  <2>3. op \in Operations
    BY <1>5, <2>2, MockThreadsAssumption DEF Operations
  <2> QED
    BY <1>2, <1>5, <1>6, <2>1, <2>2, <2>3, InvokesQuietly DEF LockPcs, InvokingPcs
<1> QED
  BY <1>7, <1>8

LEMMA ReportStep == ASSUME MInv, NEW t \in Threads, Report(t) PROVE MInv'
<1>1. /\ At(t, "report") /\ Returns(t) /\ UNCHANGED <<mutex, todo, memory, callCount, unexpected>>
      /\ IF Top(t).excess THEN reported' = [reported EXCEPT ![Top(t).exp] = @ + 1]
         ELSE UNCHANGED reported
  BY DEF Report
<1>2. CASE ~Top(t).excess
  BY <1>1, <1>2, EndsQuietly DEF memory, LockPcs
<1>3. CASE Top(t).excess
  <2>1. /\ Running(t) /\ Top(t) \in Frames /\ Sound(Top(t)) /\ ~Holds(t)
    BY <1>1, Innermost DEF LockPcs
  <2>2. PICK e \in Exps : e = Top(t).exp
    BY <1>3, <2>1 DEF Sound
  <2>3. /\ stack' \in [Threads -> Seq(Frames)] /\ \A u \in Threads : u # t => stack'[u] = stack[u]
        /\ AllSound' /\ Invoking' /\ ~Holds(t)'
        /\ \A d \in Exps : d # e => Unreported(d)' = Unreported(d)
    BY <1>1, <2>1, <2>2, Ends DEF memory
  <2>4. reported' = [reported EXCEPT ![e] = @ + 1] /\ reported \in [Exps -> Nat]
    BY <1>1, <1>3, <2>2 DEF MInv, Typed
  <2>5. Typed'
    BY <1>1, <2>3, <2>4 DEF MInv, Typed, memory
  <2>6. LockedWhileShort'
    BY <1>1, <2>1, <2>3, LockKept DEF MInv
  <2>7. PICK n : n = Len(stack[t])
    OBVIOUS
  <2>8. Unreported(e)' = Unreported(e) \ {<<t, n>>} /\ <<t, n>> \in Unreported(e)
    <3>1. /\ Len(stack'[t]) = n - 1 /\ DOMAIN stack'[t] = 1 .. n - 1
          /\ \A i \in DOMAIN stack'[t] : stack'[t][i] = stack[t][i]
      BY <1>1, <2>1, <2>7, Popped DEF MInv
    <3>2. n \in Nat /\ n > 0 /\ Top(t) = stack[t][n] /\ n \in DOMAIN stack[t] /\ DOMAIN stack[t] = 1 .. n
      BY <2>1, <2>7, TopFrame DEF MInv
    <3>3. Exceeds(t, n, e) /\ ~Exceeds(t, n, e)'
      BY <1>3, <2>2, <3>1, <3>2 DEF Exceeds
    <3>4. \A u \in Threads : \A i : <<u, i>> # <<t, n>> => (Exceeds(u, i, e)' <=> Exceeds(u, i, e))
      BY <2>3, <3>1, <3>2 DEF Exceeds
    <3> QED
      BY <3>3, <3>4, LessToReport
  <2>9. Counted'
    <3> SUFFICES ASSUME NEW d \in Exps
                 PROVE  /\ IsFiniteSet(Unreported(d)')
                        /\ reported'[d] + Cardinality(Unreported(d)') =
                             IF callCount'[d] > Max[d] THEN callCount'[d] - Max[d] ELSE 0
      BY DEF Counted
    <3>1. /\ IsFiniteSet(Unreported(d))
          /\ reported[d] + Cardinality(Unreported(d)) =
               IF callCount[d] > Max[d] THEN callCount[d] - Max[d] ELSE 0
      BY DEF MInv, Counted
    <3>2. CASE d # e
      BY <1>1, <2>3, <2>4, <3>1, <3>2
    <3>3. CASE d = e
      <4>1. IsFiniteSet(Unreported(d)') /\ Cardinality(Unreported(d)') = Cardinality(Unreported(d)) - 1
        BY <2>8, <3>1, <3>3, FS_RemoveElement
      <4>2. Cardinality(Unreported(d)) \in Nat /\ reported[d] \in Nat /\ reported'[d] = reported[d] + 1
        BY <2>4, <3>1, <3>3, FS_CardinalityType
      <4> QED
        BY <1>1, <3>1, <4>1, <4>2
    <3> QED
      BY <3>2, <3>3
  <2>10. Judged'
    BY <1>1, JudgedKept DEF MInv, memory
  <2> QED
    BY <2>3, <2>5, <2>6, <2>9, <2>10 DEF MInv
<1> QED
  BY <1>2, <1>3

LEMMA FindMatchStep == ASSUME MInv, NEW t \in Threads, FindMatch(t) PROVE MInv'
<1>1. /\ At(t, "find") /\ UNCHANGED <<mutex, todo, memory, report>>
  BY DEF FindMatch
<1>2. /\ Running(t) /\ Top(t) \in Frames /\ Top(t).pc = "find" /\ Sound(Top(t)) /\ ~Holds(t)
  BY <1>1, Innermost DEF LockPcs
<1>3. Top(t).on \in Mockers /\ ~Top(t).excess
  BY <1>2 DEF Sound, CallPcs
<1>4. CASE Goto(t, "unexpected") /\ UNCHANGED callCount
  BY <1>1, <1>3, <1>4, GoesOn DEF memory, Pcs, CallPcs, LockPcs
<1>5. CASE \E e \in list[Top(t).on] :
             /\ callCount' = [callCount EXCEPT ![e] = @ + 1]
             /\ Becomes(t, [Top(t) EXCEPT !.exp = e, !.excess = IsExcessive(e),
                    !.pc = IF IsExcessive(e) THEN "default" ELSE "perform"])
  <2>1. PICK e \in list[Top(t).on] :
             /\ callCount' = [callCount EXCEPT ![e] = @ + 1]
             /\ Becomes(t, [Top(t) EXCEPT !.exp = e, !.excess = IsExcessive(e),
                    !.pc = IF IsExcessive(e) THEN "default" ELSE "perform"])
    BY <1>5
  <2>2. e \in Exps /\ callCount \in [Exps -> Nat] /\ Max[e] \in Nat
    BY <1>3, MockThreadsAssumption DEF MInv, Typed
  <2>3. PICK f : f = [Top(t) EXCEPT !.exp = e, !.excess = IsExcessive(e),
                        !.pc = IF IsExcessive(e) THEN "default" ELSE "perform"]
    OBVIOUS
  <2>4. /\ f \in Frames /\ f.pc \in {"default", "perform"} /\ f.on = Top(t).on /\ f.exp = e
        /\ f.excess <=> callCount[e] >= Max[e]
        /\ f.excess => f.pc = "default"
    <3>1. CASE callCount[e] >= Max[e]
      <4>1. f = [Top(t) EXCEPT !.exp = e, !.excess = TRUE, !.pc = "default"]
        BY <2>3, <3>1 DEF IsExcessive
      <4> QED
        BY <1>2, <2>2, <3>1, <4>1 DEF Frames, Pcs, CallPcs
    <3>2. CASE ~(callCount[e] >= Max[e])
      <4>1. IsExcessive(e) = FALSE
        BY <2>2, <3>2 DEF IsExcessive
      <4>2. f = [Top(t) EXCEPT !.exp = e, !.excess = FALSE, !.pc = "perform"]
        BY <2>3, <4>1
      <4> QED
        BY <1>2, <2>2, <3>2, <4>2 DEF Frames, Pcs, CallPcs
    <3> QED
      BY <3>1, <3>2
  <2>5. Sound(f)'
    BY <1>3, <2>2, <2>4 DEF Sound
  <2>6. /\ stack' \in [Threads -> Seq(Frames)] /\ \A u \in Threads : u # t => stack'[u] = stack[u]
        /\ AllSound' /\ Invoking' /\ ~Holds(t)'
        /\ ~f.excess => \A d \in Exps : Unreported(d)' = Unreported(d)
    BY <1>1, <1>2, <1>3, <2>1, <2>3, <2>4, <2>5, Moves DEF memory, LockPcs
  <2>7. Typed'
    BY <1>1, <2>1, <2>2, <2>6 DEF MInv, Typed, memory, report
  <2>8. LockedWhileShort'
    BY <1>1, <1>2, <2>6, LockKept DEF MInv
  <2>9. Judged'
    <3>1. verdict[e] = "pending"
      BY <1>3, <2>2 DEF MInv, Judged
    <3> QED
      BY <1>1, <2>1, <2>2, <3>1 DEF MInv, Judged, memory
  <2>10. PICK n : n = Len(stack[t])
    OBVIOUS
  <2>11. f.excess => /\ \A d \in Exps : d # e => Unreported(d)' = Unreported(d)
                     /\ Unreported(e)' = Unreported(e) \union {<<t, n>>} /\ <<t, n>> \notin Unreported(e)
    <3> SUFFICES ASSUME f.excess
                 PROVE  /\ \A d \in Exps : d # e => Unreported(d)' = Unreported(d)
                        /\ Unreported(e)' = Unreported(e) \union {<<t, n>>} /\ <<t, n>> \notin Unreported(e)
      OBVIOUS
    <3>1. /\ DOMAIN stack'[t] = DOMAIN stack[t] /\ stack'[t][n] = f
          /\ \A i \in DOMAIN stack[t] : i # n => stack'[t][i] = stack[t][i]
      BY <1>2, <2>1, <2>3, <2>4, <2>10, Replaced DEF MInv
    <3>2. Top(t) = stack[t][n] /\ n \in DOMAIN stack[t]
      BY <1>2, <2>10, TopFrame DEF MInv
    <3>3. Exceeds(t, n, e)' /\ \A d \in Exps : ~Exceeds(t, n, d)
      BY <1>3, <2>4, <3>1, <3>2 DEF Exceeds
    <3>4. \A d \in Exps : \A u \in Threads : \A i : <<u, i>> # <<t, n>> => (Exceeds(u, i, d)' <=> Exceeds(u, i, d))
      BY <2>6, <3>1, <3>2 DEF Exceeds
    <3>5. \A d \in Exps : d # e => ~Exceeds(t, n, d)'
      BY <2>4, <3>1 DEF Exceeds
    <3>6. ASSUME NEW d \in Exps, d # e PROVE Unreported(d)' = Unreported(d)
      <4>1. \A u \in Threads : \A i : Exceeds(u, i, d)' <=> Exceeds(u, i, d)
        BY <3>3, <3>4, <3>5, <3>6
      <4> QED
        BY <4>1, SameToReport
    <3> QED
      BY <2>2, <3>3, <3>4, <3>6, MoreToReport
  <2>12. Counted'
    <3> SUFFICES ASSUME NEW d \in Exps
                 PROVE  /\ IsFiniteSet(Unreported(d)')
                        /\ reported'[d] + Cardinality(Unreported(d)') =
                             IF callCount'[d] > Max[d] THEN callCount'[d] - Max[d] ELSE 0
      BY DEF Counted
    <3>1. /\ IsFiniteSet(Unreported(d))
          /\ reported[d] + Cardinality(Unreported(d)) =
               IF callCount[d] > Max[d] THEN callCount[d] - Max[d] ELSE 0
      BY DEF MInv, Counted
    <3>2. reported' = reported /\ reported[d] \in Nat /\ callCount[d] \in Nat /\ Max[d] \in Nat
      BY <1>1, MockThreadsAssumption DEF report, MInv, Typed
    <3>3. CASE d # e
      BY <2>1, <2>2, <2>6, <2>11, <3>1, <3>2, <3>3
    <3>4. CASE d = e /\ ~f.excess
      BY <2>1, <2>2, <2>4, <2>6, <3>1, <3>2, <3>4
    <3>5. CASE d = e /\ f.excess
      <4>1. IsFiniteSet(Unreported(d)') /\ Cardinality(Unreported(d)') = Cardinality(Unreported(d)) + 1
        BY <2>11, <3>1, <3>5, FS_AddElement
      <4>2. Cardinality(Unreported(d)) \in Nat
        BY <3>1, FS_CardinalityType
      <4>3. callCount'[d] = callCount[d] + 1 /\ callCount[d] >= Max[d]
        BY <2>1, <2>2, <2>4, <3>5
      <4> QED
        BY <3>1, <3>2, <4>1, <4>2, <4>3
    <3> QED
      BY <3>3, <3>4, <3>5
  <2> QED
    BY <2>6, <2>7, <2>8, <2>9, <2>12 DEF MInv
<1> QED
  BY <1>4, <1>5 DEF FindMatch

(* Verification empties a list, judges what was on it, and unlocks. *)
LEMMA VerifyAndSwapStep ==
  ASSUME MInv, NEW t \in Threads, NEW pc, At(t, pc), NEW m \in Mockers, VerifyAndSwap(t, m, "drop"),
         UNCHANGED <<todo, registered, alive, callCount, report>>,
         pc = "each" \/ (pc = "member" /\ mutex = Nobody)
  PROVE  MInv'
<1>1. /\ Running(t) /\ Top(t) \in Frames /\ Top(t).pc = pc /\ Sound(Top(t)) /\ (mutex = t <=> pc \in LockPcs)
      /\ Holds(t) <=> pc \in LockPcs
  BY Innermost
<1>2. PICK f : f = [Top(t) EXCEPT !.pc = "drop", !.member = m, !.done = @ \union {m}, !.doomed = list[m]]
  OBVIOUS
<1>3. list \in [Mockers -> SUBSET Exps] /\ verdict \in [Exps -> {"pending", "over", "missing", "met"}]
  BY DEF MInv, Typed
<1>4. /\ f \in Frames /\ f.pc = "drop" /\ f.member = m
      /\ f.excess = Top(t).excess /\ f.exp = Top(t).exp
  BY <1>1, <1>2, <1>3 DEF Frames, Pcs
<1>5. /\ mutex' = Nobody /\ list' = [list EXCEPT ![m] = {}] /\ Becomes(t, f)
      /\ verdict' = [e \in Exps |->
                       IF e \notin list[m] THEN verdict[e]
                       ELSE IF callCount[e] > Max[e] THEN "over"
                       ELSE IF callCount[e] < Min[e] THEN "missing" ELSE "met"]
  BY <1>2 DEF VerifyAndSwap
<1>6. list'[m] = {} /\ \A k \in Mockers : k # m => list'[k] = list[k]
  BY <1>3, <1>5
<1>7. CASE ~Top(t).excess
  <2>1. Sound(f)'
    BY <1>4, <1>6, <1>7 DEF Sound, CallPcs
  <2>2. /\ stack' \in [Threads -> Seq(Frames)] /\ \A u \in Threads : u # t => stack'[u] = stack[u]
        /\ AllSound' /\ Invoking' /\ (Holds(t)' <=> f.pc \in LockPcs)
        /\ \A e \in Exps : Unreported(e)' = Unreported(e)
    BY <1>1, <1>4, <1>5, <1>6, <2>1, Moves
  <2>3. Typed'
    BY <1>3, <1>5, <2>2 DEF MInv, Typed, report
  <2>4. LockedWhileShort'
    BY <1>1, <1>4, <1>5, <2>2, LockKept DEF MInv, LockPcs
  <2>5. Counted'
    BY <2>2, CountedKept DEF MInv, report
  <2>6. Judged'
    <3>1. \A k \in Mockers : \A e \in list'[k] : MockerOf[e] = k
      BY <1>6 DEF MInv, Judged
    <3>2. ASSUME NEW e \in Exps
          PROVE  /\ verdict'[e] = "pending" <=> e \in list'[MockerOf[e]]
                 /\ verdict'[e] # "pending" => (verdict'[e] = "over" <=> callCount'[e] > Max[e])
                 /\ MockerOf[e] \notin alive' => verdict'[e] # "pending"
      <4>1. MockerOf[e] \in Mockers
        BY MockThreadsAssumption
      <4>2. CASE e \in list[m]
        <5>1. MockerOf[e] = m
          BY <4>2 DEF MInv, Judged
        <5> QED
          BY <1>5, <1>6, <4>2, <5>1
      <4>3. CASE e \notin list[m]
        <5>1. verdict'[e] = verdict[e]
          BY <1>5, <4>3
        <5>2. e \in list'[MockerOf[e]] <=> e \in list[MockerOf[e]]
          BY <1>6, <4>1, <4>3
        <5> QED
          BY <5>1, <5>2 DEF MInv, Judged
      <4> QED
        BY <4>2, <4>3
    <3> QED
      BY <3>1, <3>2 DEF Judged
  <2> QED
    BY <2>2, <2>3, <2>4, <2>5, <2>6 DEF MInv
<1>8. CASE Top(t).excess
  BY <1>1, <1>8 DEF Sound
<1> QED
  BY <1>7, <1>8

LEMMA VerifyMockerStep == ASSUME MInv, NEW t \in Threads, VerifyMocker(t) PROVE MInv'
<1>1. PICK m \in ToVerify(t) : VerifyAndSwap(t, m, "drop")
  BY DEF VerifyMocker
<1>2. At(t, "each") /\ UNCHANGED <<todo, registered, alive, freed, callCount, report>>
  BY DEF VerifyMocker
<1>3. m \in Mockers
  BY DEF ToVerify, MInv, Typed
<1> QED
  BY <1>1, <1>2, <1>3, VerifyAndSwapStep DEF LockPcs

LEMMA DestroyMemberStep == ASSUME MInv, NEW t \in Threads, DestroyMember(t) PROVE MInv'
<1>1. PICK m \in {k \in alive : ObjectOf[k] = Top(t).on} : VerifyAndSwap(t, m, "drop")
  BY DEF DestroyMember
<1>2. At(t, "member") /\ mutex = Nobody /\ UNCHANGED <<todo, registered, alive, freed, callCount, report>>
  BY DEF DestroyMember
<1>3. m \in Mockers
  BY DEF MInv, Typed
<1> QED
  BY <1>1, <1>2, <1>3, VerifyAndSwapStep

(* The members of a destroyed object go one by one, after their lists. *)
LEMMA UnregisterStep == ASSUME MInv, NEW t \in Threads, Unregister(t) PROVE MInv'
<1>1. /\ At(t, "unregister") /\ mutex' = Nobody /\ Goto(t, "dropDefaults")
      /\ registered' = registered \ {Top(t).member}
      /\ UNCHANGED <<todo, list, alive, freed, callCount, report, verdict>>
  BY DEF Unregister
<1>2. /\ Running(t) /\ Top(t) \in Frames /\ Sound(Top(t)) /\ mutex = t /\ Top(t).pc = "unregister"
  BY <1>1, Innermost DEF LockPcs
<1>3. PICK f : f = [Top(t) EXCEPT !.pc = "dropDefaults"]
  OBVIOUS
<1>4. f \in Frames /\ f.pc = "dropDefaults" /\ f.exp = Top(t).exp
      /\ f.excess = Top(t).excess /\ f.member = Top(t).member
  BY <1>2, <1>3, MovedFrame DEF Pcs
<1>5. Sound(f)'
  BY <1>1, <1>2, <1>4 DEF Sound, CallPcs
<1>6. /\ stack' \in [Threads -> Seq(Frames)] /\ \A u \in Threads : u # t => stack'[u] = stack[u]
      /\ AllSound' /\ Invoking' /\ (Holds(t)' <=> f.pc \in LockPcs)
      /\ \A e \in Exps : Unreported(e)' = Unreported(e)
  BY <1>1, <1>2, <1>3, <1>4, <1>5, Moves DEF Goto
<1>7. Typed'
  BY <1>1, <1>6 DEF MInv, Typed, report
<1>8. LockedWhileShort'
  BY <1>1, <1>2, <1>4, <1>6, LockKept DEF MInv, LockPcs
<1>9. Counted' /\ Judged'
  BY <1>1, <1>6, CountedKept, JudgedKept DEF MInv, report
<1> QED
  BY <1>6, <1>7, <1>8, <1>9 DEF MInv

LEMMA DropDefaultsStep == ASSUME MInv, NEW t \in Threads, DropDefaults(t) PROVE MInv'
<1>1. /\ At(t, "dropDefaults") /\ Goto(t, "member") /\ alive' = alive \ {Top(t).member}
      /\ UNCHANGED <<mutex, todo, list, registered, freed, callCount, report, verdict>>
  BY DEF DropDefaults
<1>2. /\ Running(t) /\ Top(t) \in Frames /\ Sound(Top(t)) /\ Top(t).pc = "dropDefaults" /\ ~Holds(t)
  BY <1>1, Innermost DEF LockPcs
<1>3. PICK f : f = [Top(t) EXCEPT !.pc = "member"]
  OBVIOUS
<1>4. f \in Frames /\ f.pc = "member" /\ f.exp = Top(t).exp /\ f.excess = Top(t).excess
  BY <1>2, <1>3, MovedFrame DEF Pcs
<1>5. Sound(f)'
  BY <1>1, <1>2, <1>4 DEF Sound, CallPcs
<1>6. /\ stack' \in [Threads -> Seq(Frames)] /\ \A u \in Threads : u # t => stack'[u] = stack[u]
      /\ AllSound' /\ Invoking' /\ (Holds(t)' <=> f.pc \in LockPcs)
      /\ \A e \in Exps : Unreported(e)' = Unreported(e)
  BY <1>1, <1>2, <1>3, <1>4, <1>5, Moves DEF Goto
<1>7. Typed'
  BY <1>1, <1>6 DEF MInv, Typed, report
<1>8. LockedWhileShort'
  BY <1>1, <1>2, <1>4, <1>6, LockKept DEF MInv, LockPcs
<1>9. Counted'
  BY <1>1, <1>6, CountedKept DEF MInv, report
<1>10. Judged'
  <2>1. list[Top(t).member] = {}
    BY <1>2 DEF Sound
  <2>2. ASSUME NEW e \in Exps, MockerOf[e] \notin alive' PROVE verdict[e] # "pending"
    BY <1>1, <2>1, <2>2 DEF MInv, Judged
  <2> QED
    BY <1>1, <2>2 DEF MInv, Judged
<1> QED
  BY <1>6, <1>7, <1>8, <1>9, <1>10 DEF MInv

LEMMA StepPreserves == MInv /\ [Next]_vars => MInv'
<1> SUFFICES ASSUME MInv, [Next]_vars PROVE MInv'
  OBVIOUS
<1>1. CASE \E t \in Threads : Step(t)
  <2>1. PICK t \in Threads : Step(t)
    BY <1>1
  <2> QED
    BY <2>1, BeginStep, ReadSizeStep, FindMatchStep, PerformActionStep, PerformDefaultActionStep,
       ReportStep, ReportUnexpectedStep, LockToVerifyStep, VerifyMockerStep, VerifyDoneStep,
       DropExpectationStep, RelockStep, DestroyMemberStep, UnregisterStep, DropDefaultsStep,
       DestroyedStep DEF Step
<1>2. CASE UNCHANGED vars
  <2>1. \A e \in Exps : Unreported(e)' = Unreported(e)
    BY <1>2 DEF vars, Unreported
  <2>2. Typed' /\ AllSound' /\ Invoking' /\ LockedWhileShort'
    BY <1>2 DEF vars, MInv, Typed, AllSound, Sound, Invoking, LockedWhileShort, Holds, At, Running, Top
  <2>3. Counted' /\ Judged'
    BY <1>2, <2>1, CountedKept, JudgedKept DEF vars, MInv
  <2> QED
    BY <2>2, <2>3 DEF MInv
<1> QED
  BY <1>1, <1>2 DEF Next, Terminated

(* The frames, the lists, the lock and the counts fit together in every       *)
(* reachable state.                                                          *)
THEOREM Invariant == Spec => []MInv
BY InitEstablishes, StepPreserves, PTL DEF Spec

(* Every call beyond the upper bound of an expectation is reported once, and *)
(* no other is, whatever the threads and their actions do meanwhile.         *)
THEOREM ReportedOnce == Spec => []ExcessReportedOnce
<1>1. MInv => ExcessReportedOnce
  BY DEF MInv, Counted, ExcessReportedOnce
<1> QED
  BY <1>1, Invariant, PTL

(* When all is over, the verdicts agree with what the calls reported, and no  *)
(* mock function is gone whose expectations were not verified.               *)
THEOREM Verified == Spec => []VerifiedInTheEnd
<1>1. MInv => VerifiedInTheEnd
  <2> SUFFICES ASSUME MInv, \A t \in Threads : Finished(t), NEW e \in Exps
               PROVE  IF verdict[e] = "pending" THEN MockerOf[e] \in alive /\ e \in list[MockerOf[e]]
                      ELSE verdict[e] = "over" <=> reported[e] > 0
    BY DEF VerifiedInTheEnd
  <2>1. \A t \in Threads : stack[t] = <<>>
    BY DEF Finished, Running
  <2>2. Unreported(e) = {}
    BY <2>1 DEF Unreported
  <2>3. reported[e] = IF callCount[e] > Max[e] THEN callCount[e] - Max[e] ELSE 0
    <3>1. reported[e] + Cardinality(Unreported(e)) =
            IF callCount[e] > Max[e] THEN callCount[e] - Max[e] ELSE 0
      BY DEF MInv, Counted
    <3>2. reported[e] \in Nat
      BY DEF MInv, Typed
    <3> QED
      BY <2>2, <3>1, <3>2, FS_EmptySet
  <2>4. callCount[e] \in Nat /\ Max[e] \in Nat
    BY MockThreadsAssumption DEF MInv, Typed
  <2> QED
    BY <2>3, <2>4 DEF MInv, Judged
<1> QED
  BY <1>1, Invariant, PTL

(* A thread that holds g_gmock_mutex is verifying or unregistering: no action *)
(* runs, no expectation is deleted and the lock is not asked for again while  *)
(* it is held, and no two threads hold it.                                   *)
LockIsShort ==
  /\ \A t \in Threads : mutex = t <=> At(t, "each") \/ At(t, "unregister")
  /\ \A t \in Threads : \A i \in DOMAIN stack[t] :
       stack[t][i].pc \in {"each", "unregister"} => i = Len(stack[t]) /\ mutex = t

THEOREM LockHeldShortly == Spec => []LockIsShort
<1>1. MInv => LockIsShort
  <2> SUFFICES ASSUME MInv PROVE LockIsShort
    OBVIOUS
  <2>1. \A t \in Threads : mutex = t <=> At(t, "each") \/ At(t, "unregister")
    BY DEF MInv, LockedWhileShort, Holds
  <2>2. ASSUME NEW t \in Threads, NEW i \in DOMAIN stack[t], stack[t][i].pc \in {"each", "unregister"}
        PROVE  i = Len(stack[t]) /\ mutex = t
    <3>1. stack[t] \in Seq(Frames)
      BY DEF MInv, Typed
    <3>2. i = Len(stack[t])
      BY <2>2, <3>1 DEF MInv, Invoking, InvokingPcs
    <3>3. At(t, "each") \/ At(t, "unregister")
      BY <2>2, <3>1, <3>2 DEF At, Running, Top
    <3> QED
      BY <2>1, <3>2, <3>3
  <2> QED
    BY <2>1, <2>2 DEF LockIsShort
<1> QED
  BY <1>1, Invariant, PTL
================================================================================
