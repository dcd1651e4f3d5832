------------------------- MODULE MouseModule_proofs -------------------------
(* MouseModule's tables agree with each other, and what follows from that. *)
EXTENDS MouseModule, TLAPS

-----------------------------------------------------------------------------
(* The three tables, by the places of their entries.                       *)

LEMMA StepsInOrder ==
    \A i \in 1 .. 8 : Steps[i] \in Things /\ Position[Steps[i]] = i
BY DEF Steps, Things, Position

LEMMA PositionIsInjective ==
    \A x, y \in Things : Position[x] \in 1 .. 8 /\ (Position[x] = Position[y] => x = y)
BY DEF Things, Position

LEMMA UnwindIsReversed ==
    /\ DOMAIN Unwind = 1 .. 6
    /\ \A i \in 1 .. 6 : Unwind[i] \in Things /\ Position[Unwind[i]] = 7 - i
BY DEF Unwind, Things, Position

LEMMA ExitIsReversed ==
    /\ DOMAIN Exit = 1 .. 8
    /\ \A i \in 1 .. 8 : Exit[i] \in Things /\ Position[Exit[i]] = 9 - i
BY DEF Exit, Things, Position

\* A failure jumps to the label that undoes the registration before it.
LEMMA LabelsAreRight ==
    \A i \in 1 .. 7 : Label[Steps[i]] = 8 - i
BY DEF Steps, Label

-----------------------------------------------------------------------------
(* What is held in each phase.                                             *)

UpTo(n) == {x \in Things : Position[x] <= n}

HeldInv ==
    /\ phase = "init" => step \in 1 .. 8 /\ held = UpTo(step - 1) /\ result = "unset"
    /\ phase = "unwind" => /\ step \in 1 .. 7 /\ held = UpTo(7 - step)
                           /\ result = "unset" => step >= 6
    /\ phase = "live" => step = 1 /\ (held = UpTo(8) \/ (result = "unset" /\ held = {}))
    /\ phase = "exit" => \/ step \in 1 .. 9 /\ held = UpTo(9 - step)
                         \/ step = 1 /\ result = "unset" /\ held = {}
    /\ phase = "out" => held = {}
    /\ phase = "oops" => result = "unset" /\ held = {}

\* Who depends on what is held.
UserInv ==
    /\ timer # "none" => "timer" \in held
    /\ mode = "inside" => "sysfs" \in held
    /\ \A f \in Files \ orphans :
          Open(f) => /\ phase # "exit"
                     /\ "chrdev" \in held \/ (phase = "unwind" /\ result = "error")

IInv == TypeOK /\ HeldInv /\ UserInv

LEMMA InitIInv == Init => IInv
BY DEF Init, IInv, TypeOK, HeldInv, UserInv, Things, Open

\* Taking the newest thing away leaves those before it, taking the next adds it.
LEMMA UpToSteps ==
    /\ UpTo(0) = {} /\ UpTo(8) = Things
    /\ \A n \in 1 .. 8, x \in Things :
          Position[x] = n => /\ UpTo(n) = UpTo(n - 1) \cup {x}
                             /\ UpTo(n) \ {x} = UpTo(n - 1)
                             /\ x \in UpTo(n)
BY PositionIsInjective DEF UpTo

LEMMA AcquireKeeps == IInv /\ Acquire => IInv'
<1> SUFFICES ASSUME IInv, Acquire PROVE IInv'
    OBVIOUS
<1> USE DEF IInv
<1> DEFINE x == Steps[step]
<1>1. step \in 1 .. 8 /\ held = UpTo(step - 1) /\ phase = "init"
    BY DEF Acquire, HeldInv
<1>2. x \in Things /\ Position[x] = step
    BY <1>1, StepsInOrder
<1>3. held' = UpTo(step)
    BY <1>1, <1>2, UpToSteps DEF Acquire
<1>4. x = "timer" <=> step = 8
    BY <1>1 DEF Steps
<1>5. TypeOK'
    BY <1>1, <1>2, <1>4 DEF Acquire, TypeOK, Open
<1>6. HeldInv'
    BY <1>1, <1>3, <1>4 DEF Acquire, HeldInv
<1>7. UserInv'
    BY <1>1, <1>2, <1>4 DEF Acquire, UserInv, Open, TypeOK
<1>8. QED
    BY <1>5, <1>6, <1>7

LEMMA FailKeeps == IInv /\ Fail => IInv'
<1> SUFFICES ASSUME IInv, Fail PROVE IInv'
    OBVIOUS
<1> USE DEF IInv
<1>1. step \in 1 .. 8 /\ held = UpTo(step - 1) /\ phase = "init" /\ result = "unset"
    BY DEF Fail, HeldInv
<1>2. step \in 1 .. 7 /\ (Steps[step] = "chrdev" <=> step = 2)
    BY <1>1 DEF Fail, Steps
<1>3. step' = 8 - step
    BY <1>2, LabelsAreRight DEF Fail
<1>4. TypeOK'
    BY <1>2, <1>3 DEF Fail, TypeOK, Open
<1>5. HeldInv'
    BY <1>1, <1>2, <1>3 DEF Fail, HeldInv
<1>6. "chrdev" \in held => step > 2
    BY <1>1 DEF UpTo, Position
<1>7. UserInv'
    BY <1>1, <1>2, <1>6 DEF Fail, UserInv, Open
<1>8. QED
    BY <1>4, <1>5, <1>7

LEMMA UndoKeeps == IInv /\ Undo => IInv'
<1> SUFFICES ASSUME IInv, Undo PROVE IInv'
    OBVIOUS
<1> USE DEF IInv
<1> DEFINE x == Unwind[step]
<1>1. step \in 1 .. 6 /\ held = UpTo(7 - step) /\ phase = "unwind"
    BY UnwindIsReversed DEF Undo, HeldInv
<1>2. x \in Things /\ Position[x] = 7 - step
    BY <1>1, UnwindIsReversed
<1>3. x \in held /\ held \ {x} = UpTo(7 - (step + 1))
    BY <1>1, <1>2, UpToSteps
<1>4. held' = held \ {x} /\ step' = step + 1 /\ phase' = phase
    BY <1>3 DEF Undo, Release
<1>5. x # "timer" /\ x # "sysfs" /\ (x = "chrdev" => result = "error")
    BY <1>1, <1>2 DEF Position, HeldInv, TypeOK
<1>6. TypeOK'
    BY <1>1, <1>4, <1>5 DEF Undo, Release, TypeOK, Open
<1>7. HeldInv'
    BY <1>1, <1>3, <1>4 DEF Undo, Release, HeldInv
<1>8. UserInv'
    BY <1>1, <1>4, <1>5 DEF Undo, Release, UserInv, Open
<1>9. QED
    BY <1>6, <1>7, <1>8

LEMMA TearDownKeeps == IInv /\ TearDown => IInv'
<1> SUFFICES ASSUME IInv, TearDown PROVE IInv'
    OBVIOUS
<1> USE DEF IInv
<1> DEFINE x == Exit[step]
<1>1. step \in 1 .. 8 /\ phase = "exit" /\ Release(x)
    BY ExitIsReversed DEF TearDown, HeldInv
<1>2. x \in Things /\ Position[x] = 9 - step
    BY <1>1, ExitIsReversed
<1>3. TypeOK'
    BY <1>1, <1>2 DEF Release, TypeOK, Open
<1>4. CASE x \in held
  <2>1. held = UpTo(9 - step) /\ held \ {x} = UpTo(9 - (step + 1))
      BY <1>1, <1>2, <1>4, UpToSteps DEF HeldInv
  <2>2. held' = held \ {x} /\ step' = step + 1 /\ phase' = phase
      BY <1>1, <1>4 DEF Release
  <2>3. HeldInv'
      BY <1>1, <2>1, <2>2 DEF Release, HeldInv
  <2>4. UserInv'
      BY <1>1, <2>2 DEF Release, UserInv, Open, TypeOK
  <2>5. QED
      BY <1>3, <2>3, <2>4
<1>5. CASE x \notin held
  <2>1. result = "unset" /\ held = {}
      BY <1>1, <1>2, <1>5, UpToSteps DEF HeldInv
  <2>2. HeldInv'
      BY <1>1, <1>5, <2>1 DEF Release, HeldInv
  <2>3. UserInv'
      BY <1>1, <1>5, <2>1 DEF Release, UserInv, Open
  <2>4. QED
      BY <1>3, <2>2, <2>3
<1>6. QED
    BY <1>4, <1>5

LEMMA LoadingKeeps == IInv /\ (Insmod \/ InitFails \/ Rmmod \/ Unloaded) => IInv'
<1> SUFFICES ASSUME IInv PROVE (Insmod \/ InitFails \/ Rmmod \/ Unloaded) => IInv'
    OBVIOUS
<1> USE DEF IInv
<1>1. CASE Insmod
    BY <1>1, UpToSteps DEF Insmod, TypeOK, HeldInv, UserInv, Open
<1>2. CASE InitFails
  <2>1. step = 7 /\ phase = "unwind" /\ held = {}
      BY <1>2, UnwindIsReversed, UpToSteps DEF InitFails, HeldInv
  <2>2. TypeOK'
      BY <1>2 DEF InitFails, TypeOK, Open
  <2>3. HeldInv'
      BY <1>2, <2>1 DEF InitFails, HeldInv
  <2>4. UserInv'
      BY <1>2, <2>1 DEF InitFails, UserInv, Open
  <2>5. QED
      BY <2>2, <2>3, <2>4
<1>3. CASE Rmmod
  <2>1. TypeOK'
      BY <1>3 DEF Rmmod, TypeOK, Open
  <2>2. HeldInv'
      BY <1>3 DEF Rmmod, HeldInv
  <2>3. UserInv'
      BY <1>3 DEF Rmmod, UserInv, Open
  <2>4. QED
      BY <2>1, <2>2, <2>3
<1>4. CASE Unloaded
  <2>1. step = 9 /\ held = {}
      BY <1>4, ExitIsReversed, UpToSteps DEF Unloaded, HeldInv
  <2>2. TypeOK' /\ HeldInv' /\ UserInv'
      BY <1>4, <2>1 DEF Unloaded, TypeOK, HeldInv, UserInv, Open
  <2>3. QED
      BY <2>2
<1>5. QED
    BY <1>1, <1>2, <1>3, <1>4

LEMMA UsersKeep == IInv /\ (Users \/ UseMode \/ Callback) => IInv'
<1> SUFFICES ASSUME IInv PROVE (Users \/ UseMode \/ Callback) => IInv'
    OBVIOUS
<1> USE DEF IInv
<1>1. ASSUME NEW f \in Files, OpenFile(f) PROVE IInv'
  <2>1. TypeOK' /\ HeldInv'
      BY <1>1 DEF OpenFile, TypeOK, HeldInv, Open
  <2>2. UserInv'
      BY <1>1 DEF OpenFile, TypeOK, UserInv, Open
  <2>3. QED
      BY <2>1, <2>2
<1>2. ASSUME NEW f \in Files, EnterCall(f) \/ LeaveCall(f) PROVE IInv'
  <2>1. TypeOK' /\ HeldInv'
      BY <1>2 DEF EnterCall, LeaveCall, TypeOK, HeldInv, Open
  <2>2. UserInv'
      BY <1>2 DEF EnterCall, LeaveCall, TypeOK, UserInv, Open
  <2>3. QED
      BY <2>1, <2>2
<1>3. ASSUME NEW f \in Files, CloseFile(f) PROVE IInv'
  <2>1. TypeOK' /\ HeldInv'
      BY <1>3 DEF CloseFile, TypeOK, HeldInv, Open
  <2>2. UserInv'
      BY <1>3 DEF CloseFile, TypeOK, UserInv, Open
  <2>3. QED
      BY <2>1, <2>2
<1>4. CASE UseMode
    BY <1>4 DEF UseMode, TypeOK, HeldInv, UserInv, Open
<1>5. CASE Callback
    BY <1>5 DEF Callback, TypeOK, HeldInv, UserInv, Open
<1>6. QED
    BY <1>1, <1>2, <1>3, <1>4, <1>5 DEF Users

LEMMA NextKeeps == IInv /\ [Next]_vars => IInv'
<1>1. IInv /\ UNCHANGED vars => IInv'
    BY DEF vars, IInv, TypeOK, HeldInv, UserInv, Open
<1>2. QED
    BY <1>1, AcquireKeeps, FailKeeps, UndoKeeps, TearDownKeeps, LoadingKeeps, UsersKeep
    DEF Next

-----------------------------------------------------------------------------
(* What follows.                                                           *)

\* What is held in each phase and who relies on it, for any number of files.
THEOREM HeldByPhase == Spec => []IInv
BY InitIInv, NextKeeps, PTL DEF Spec

\* BufferOutlivesItsUsers: the timer is only armed on top of everything else,
\* and a file that pins the module keeps mouse_exit away.
THEOREM UsersHaveTheBuffer == Spec => []BufferOutlivesItsUsers
<1>1. IInv => BufferOutlivesItsUsers
  <2> SUFFICES ASSUME IInv PROVE BufferOutlivesItsUsers
      OBVIOUS
  <2> USE DEF IInv
  <2>1. \A n \in Int : ("timer" \in UpTo(n) \/ "chrdev" \in UpTo(n)) => "buffer" \in UpTo(n)
      BY DEF UpTo, Things, Position
  <2>2. held = {} \/ \E n \in Int : held = UpTo(n)
      BY UpToSteps DEF HeldInv, TypeOK
  <2>3. QED
      BY <2>1, <2>2 DEF BufferOutlivesItsUsers, UserInv, HeldInv, TypeOK, Open
<1>2. QED
    BY <1>1, HeldByPhase, PTL

\* ReleasesWhatItHolds, from the labels and the table of mouse_exit.
THEOREM NothingReleasedTwice == Spec => []ReleasesWhatItHolds
<1>1. IInv => ReleasesWhatItHolds
    BY DEF IInv, HeldInv, UserInv, TypeOK, ReleasesWhatItHolds
<1>2. QED
    BY <1>1, HeldByPhase, PTL

\* UndoneInReverse: the entry the tables name next is the newest that is held.
THEOREM ReleasedInReverse == Spec => UndoneInReverse
<1> DEFINE Newest == \A x \in held \ held', y \in held' : Position[y] < Position[x]
<1>1. ASSUME IInv, [Next]_vars PROVE Newest
  <2> USE <1>1 DEF IInv
  <2>1. CASE Undo
    <3>1. step \in 1 .. 6 /\ held = UpTo(7 - step)
        BY <2>1, UnwindIsReversed DEF Undo, HeldInv
    <3>2. held \ held' \subseteq {Unwind[step]} /\ held' \subseteq held
        BY <2>1 DEF Undo, Release
    <3>3. Unwind[step] \in held \ held' => Unwind[step] \notin held'
        OBVIOUS
    <3>4. \A y \in held : Position[y] \in 1 .. 7 - step /\ y \in Things
        BY <3>1, PositionIsInjective DEF UpTo
    <3>5. QED
        BY <3>1, <3>2, <3>3, <3>4, UnwindIsReversed, PositionIsInjective
  <2>2. CASE TearDown
    <3>1. step \in 1 .. 8 /\ held \subseteq UpTo(9 - step)
        BY <2>2, ExitIsReversed DEF TearDown, HeldInv
    <3>2. held \ held' \subseteq {Exit[step]} /\ held' \subseteq held
        BY <2>2 DEF TearDown, Release
    <3>3. \A y \in held : Position[y] \in 1 .. 9 - step /\ y \in Things
        BY <3>1, PositionIsInjective DEF UpTo
    <3>4. QED
        BY <3>1, <3>2, <3>3, ExitIsReversed, PositionIsInjective
  <2>3. CASE ~(Undo \/ TearDown)
    <3>1. held \subseteq held'
        BY <2>3 DEF Next, vars, Insmod, Acquire, Fail, InitFails, Rmmod, Unloaded, Users,
                    OpenFile, EnterCall, LeaveCall, CloseFile, UseMode, Callback
    <3>2. QED
        BY <3>1
  <2>4. QED
      BY <2>1, <2>2, <2>3
<1>2. IInv /\ [Next]_vars => [Newest]_vars
    BY <1>1
<1>3. QED
    BY <1>2, HeldByPhase, PTL DEF Spec, UndoneInReverse
=============================================================================
