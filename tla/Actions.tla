-------------------------------- MODULE Actions --------------------------------
(***************************************************************************)
(* What the actions of gmock-actions.h do when they are performed: the value *)
(* they return, what they write, and the state they share.                   *)
(*                                                                          *)
(* An action is a record; its field is names the class.  A mock function     *)
(* takes integers, some of which are addresses; world is what actions act on: *)
(* mem, what each address holds; next, the position of each round robin; and  *)
(* moved, the ByMove() values that have been given away.                     *)
(***************************************************************************)
EXTENDS Integers, Sequences

Returns(v, w) == [status |-> "returns", value |-> v, world |-> w]
Throws(e, w)  == [status |-> "throws", value |-> e, world |-> w]
Aborts(w)     == [status |-> "aborts", value |-> 0, world |-> w]
Void == 0
Null == 0
Errno == -1                       \* the address of errno
Ref(address) == -10 - address     \* a reference, told from the values

Store(w, address, v) == [w EXCEPT !.mem[address] = v]

(* ReturnRoundRobinAction::State::Next, a slip first: the last is skipped *)
NextTurnEarly(i, n) == IF i + 1 >= n THEN 1 ELSE i + 1
NextTurn(i, n) == IF i + 1 > n THEN 1 ELSE i + 1
ReturnRoundRobin(a, w) ==
  Returns(a.values[w.next[a.state]],
          [w EXCEPT !.next[a.state] = NextTurn(@, Len(a.values))])

(* ReturnAction<ByMoveWrapper>: GTEST_CHECK_ stops the program on the second *)
(* call.                                                                     *)
MoveAway(a, w) == [w EXCEPT !.moved = @ \union {a.state}]
ReturnByMove(a, w) ==
  IF a.state \in w.moved THEN Aborts(w) ELSE Returns(a.value, MoveAway(a, w))

(* Actions that write, and then return nothing *)
Assign(a, w)              == Returns(Void, Store(w, a.pointer, a.value))
SetArgumentPointee(a, args, w) == Returns(Void, Store(w, args[a.k], a.value))
SetArrayArgument(a, args, w) ==
  Returns(Void, [w EXCEPT !.mem = [p \in DOMAIN @ |->
    IF p - args[a.k] + 1 \in DOMAIN a.values THEN a.values[p - args[a.k] + 1] ELSE @[p]]])
SaveArg(a, args, w)        == Returns(Void, Store(w, a.pointer, args[a.k]))
SaveArgPointee(a, args, w) == Returns(Void, Store(w, a.pointer, w.mem[args[a.k]]))
SetErrnoAndReturn(a, w)    == Returns(a.value, Store(w, Errno, a.errno))

(* A user's function, functor or ACTION(): here one that writes and returns. *)
(* A functor with state of its own has no memory: each call performs a copy. *)
InvokeFunction(a, args, w) == Returns(a.value, Store(w, a.pointer, args[1]))

(* WithArgsAction: the arguments named, in the order named *)
SelectedArgs(a, args) == [i \in DOMAIN a.k |-> args[a.k[i]]]

(* DoAllAction runs its actions in order and returns what the last returns;  *)
(* an exception leaves at once.                                              *)
GoesOn(outcome) == outcome.status = "returns"

RECURSIVE Perform(_, _, _)
DoAll(a, args, w) ==
  LET first == Perform(Head(a.actions), args, w) IN
  IF Len(a.actions) = 1 \/ ~GoesOn(first) THEN first
  ELSE Perform([a EXCEPT !.actions = Tail(@)], args, first.world)

IgnoreResult(outcome) ==
  IF outcome.status = "returns" THEN Returns(Void, outcome.world) ELSE outcome

(* Action::Perform.  DoDefault() is an empty function: a mock function looks *)
(* for it before it performs an action, a composite action does not.         *)
Perform(a, args, w) ==
  CASE a.is = "Return"            -> Returns(a.value, w)
    [] a.is = "ReturnVoid"        -> Returns(Void, w)
    [] a.is = "ReturnNull"        -> Returns(Null, w)
    [] a.is = "ReturnByMove"      -> ReturnByMove(a, w)
    [] a.is = "ReturnRef"         -> Returns(Ref(a.pointer), w)
    [] a.is = "ReturnRefOfCopy"   -> Returns(Ref(a.copy), w)
    [] a.is = "ReturnPointee"     -> Returns(w.mem[a.pointer], w)
    [] a.is = "ReturnArg"         -> Returns(args[a.k], w)
    [] a.is = "ReturnRoundRobin"  -> ReturnRoundRobin(a, w)
    [] a.is = "Assign"            -> Assign(a, w)
    [] a.is = "SetArgPointee"     -> SetArgumentPointee(a, args, w)
    [] a.is = "SetArgReferee"     -> SetArgumentPointee(a, args, w)
    [] a.is = "SetArrayArgument"  -> SetArrayArgument(a, args, w)
    [] a.is = "SaveArg"           -> SaveArg(a, args, w)
    [] a.is = "SaveArgPointee"    -> SaveArgPointee(a, args, w)
    [] a.is = "SetErrnoAndReturn" -> SetErrnoAndReturn(a, w)
    [] a.is = "Invoke"            -> InvokeFunction(a, args, w)
    [] a.is = "InvokeWithoutArgs" -> InvokeFunction(a, <<a.value>>, w)
    [] a.is = "Throw"             -> Throws(a.exception, w)
    [] a.is = "IgnoreResult"      -> IgnoreResult(Perform(a.action, args, w))
    [] a.is = "WithArgs"          -> Perform(a.action, SelectedArgs(a, args), w)
    [] a.is = "DoAll"             -> DoAll(a, args, w)
    [] a.is = "DoDefault"         -> Aborts(w)
================================================================================
