--------------------------- MODULE Mutators_proof ---------------------------
(***************************************************************************)
(* Proofs about the mutators: how they are made and dropped (Lazy and      *)
(* MutatorLife), and what they do for their threads' calls of the C and    *)
(* the Rust interface (MallocApi over BumpSpace).                          *)
(* The first part is for any number of threads, of early threads and of    *)
(* rounds. PLAN behaves as Lazy says (PlanIsLazy), so that the theorems    *)
(* about Lazy hold of it in MutatorLife. The invariant of Lazy ties its    *)
(* three fields together: while nobody has claimed the initialisation the  *)
(* initialiser is there and nothing is written; it is the claiming         *)
(* thread's while the state is INITIALIZING; and the value is written      *)
(* before the state says so. That of MutatorLife relates, thread by thread,*)
(* the state word of MUTATOR, its value, the registration of the destructor*)
(* and the point the thread has reached.                                   *)
(* The second part is for any mutators, sizes and alignments below what a  *)
(* header can say. Its invariant, ApiInv, puts areas and objects, with     *)
(* their headers, into acquired pages and apart, and has the header in     *)
(* front of an object cover what the client asked for last.                *)
(***************************************************************************)
EXTENDS MutatorLife, MallocApi, SharedLemmas, TLAPS


----------------------------------------------------------------------------
\* A value that all threads share: Lazy.

\* Before the claim nothing has happened.
Unclaimed ==
  state = "uninitialized" => init /\ \A t \in Threads : pc[t] \notin Initializing

\* The claim is one thread's, which finds the initialiser.
Claimed ==
  \A t \in Threads :
    /\ pc[t] \in Initializing => state = "initializing"
    /\ pc[t] = "take" => init

\* Who publishes or reads does so after the write.
WrittenFirst ==
  /\ state = "initialized" => written
  /\ \A t \in Threads :
       /\ pc[t] = "publish" => written
       /\ pc[t] \in {"fast", "read"} => state = "initialized"

\* Who wrote the value or has seen it published by a SeqCst load knows of it.
Synced ==
  \A t \in Threads : pc[t] \in {"publish", "read"} => t \in synced

IInv == TypeOK /\ InitOnce /\ Unclaimed /\ Claimed /\ WrittenFirst /\ Synced

\* An uninitialised value satisfies the invariant.
LEMMA InitInv == Init => IInv
BY DEF Init, IInv, TypeOK, InitOnce, Unclaimed, Claimed, WrittenFirst, Synced, Initializing

\* The steps that touch neither the initialiser nor the value, and leave the
\* state alone.
LEMMA LookInv ==
  ASSUME IInv, NEW t \in Threads,
         Deref(t) \/ ForceFast(t) \/ ForceSlow(t) \/ Slow(t) \/ Spin(t) \/ Read(t)
  PROVE  IInv'
<1>1. UNCHANGED <<state, init, written>> /\ synced' \subseteq Threads
  BY DEF IInv, TypeOK, Deref, ForceFast, ForceSlow, Slow, Spin, Read, Synchronise
<1>2. PICK to \in {"idle", "force", "slow", "claim", "spin", "fast", "read"} :
        /\ pc' = [pc EXCEPT ![t] = to]
        /\ to \in {"fast", "read"} => state = "initialized"
        /\ to = "read" => t \in synced'
  BY DEF IInv, TypeOK, Deref, ForceFast, ForceSlow, Slow, Spin, Read, Goto, AfterUpdate, Synchronise
<1>3. got' \in [Threads -> {"nothing", "value", "garbage"}]
  BY DEF IInv, TypeOK, Deref, ForceFast, ForceSlow, Slow, Spin, Read
<1>4. state' = state /\ init' = init /\ written' = written
  BY <1>1
<1>5. \A u \in Threads : pc'[u] = pc[u] \/ (u = t /\ pc'[u] = to)
  BY <1>2 DEF IInv, TypeOK
<1>6. TypeOK'
  BY <1>1, <1>2, <1>3 DEF IInv, TypeOK
<1>7. InitOnce' /\ Unclaimed'
  BY <1>4, <1>5 DEF IInv, InitOnce, Unclaimed, Initializing
<1>8. Claimed'
  BY <1>4, <1>5 DEF IInv, Claimed, Initializing
<1>9. WrittenFirst'
  BY <1>2, <1>4, <1>5 DEF IInv, WrittenFirst
<1>10. synced \subseteq synced'
  BY DEF Deref, ForceFast, ForceSlow, Slow, Spin, Read, Synchronise
<1>11. Synced'
  BY <1>2, <1>5, <1>10 DEF IInv, Synced
<1> QED BY <1>6, <1>7, <1>8, <1>9, <1>11 DEF IInv

\* The exchange lets one thread into force_initialize.
LEMMA ClaimInv == ASSUME IInv, NEW t \in Threads, Claim(t) PROVE IInv'
<1>1. CASE state = "uninitialized"
  BY <1>1 DEF IInv, TypeOK, InitOnce, Unclaimed, Claimed, WrittenFirst, Synced, Initializing,
              Claim, Goto, Synchronise
<1>2. CASE state # "uninitialized"
  <2>1. /\ UNCHANGED <<state, init, written, got>>
        /\ synced' \subseteq Threads /\ synced \subseteq synced'
    BY <1>2 DEF IInv, TypeOK, Claim, Synchronise
  <2>2. pc' = [pc EXCEPT ![t] = "spin"] \/ pc' = [pc EXCEPT ![t] = "force"]
    BY <1>2 DEF IInv, TypeOK, Claim, Goto, AfterUpdate
  <2> QED
    BY <2>1, <2>2
       DEF IInv, TypeOK, InitOnce, Unclaimed, Claimed, WrittenFirst, Synced, Initializing
<1> QED BY <1>1, <1>2

\* The three steps of force_initialize.
LEMMA InitializeInv ==
  ASSUME IInv, NEW t \in Threads, TakeInit(t) \/ WriteValue(t) \/ Publish(t)
  PROVE  IInv'
<1>1. CASE TakeInit(t)
  BY <1>1 DEF IInv, TypeOK, InitOnce, Unclaimed, Claimed, WrittenFirst, Synced, Initializing,
              TakeInit, Goto
<1>2. CASE WriteValue(t)
  <2>1. \A u \in Threads \ {t} : pc[u] \notin {"publish", "fast", "read"}
    BY <1>2 DEF IInv, InitOnce, Claimed, WrittenFirst, Initializing, WriteValue, Goto
  <2> QED
    BY <1>2, <2>1 DEF IInv, TypeOK, InitOnce, Unclaimed, Claimed, WrittenFirst, Synced,
       Initializing, WriteValue, Goto
<1>3. CASE Publish(t)
  BY <1>3 DEF IInv, TypeOK, InitOnce, Unclaimed, Claimed, WrittenFirst, Synced, Initializing,
              Publish, Goto
<1> QED BY <1>1, <1>2, <1>3

\* No step of any thread breaks the invariant.
LEMMA NextInv == IInv /\ [Next]_vars => IInv'
<1> SUFFICES ASSUME IInv, [Next]_vars PROVE IInv'
  OBVIOUS
<1>1. CASE UNCHANGED vars
  BY <1>1 DEF vars, IInv, TypeOK, InitOnce, Unclaimed, Claimed, WrittenFirst, Synced
<1>2. CASE Next
  <2> PICK t \in Threads : Deref(t) \/ Step(t) \/ \E s \in Threads : Meet(s, t)
    BY <1>2 DEF Next
  <2>1. ASSUME NEW s \in Threads, Meet(s, t) PROVE IInv'
    BY <2>1 DEF Meet, IInv, TypeOK, InitOnce, Unclaimed, Claimed, WrittenFirst, Synced
  <2> QED BY <2>1, LookInv, ClaimInv, InitializeInv DEF Step
<1> QED BY <1>1, <1>2

\* The invariant holds in every reachable state.
LEMMA Safety == Spec => []IInv
BY InitInv, NextInv, PTL DEF Spec

\* Types are invariant; in particular no thread panics in force_initialize.
THEOREM TypeCorrect == Spec => []TypeOK
<1>1. IInv => TypeOK
  BY DEF IInv
<1> QED BY <1>1, Safety, PTL

\* The initialiser runs once, whatever order loads have.
THEOREM InitialisedOnce == Spec => []InitOnce
<1>1. IInv => InitOnce
  BY DEF IInv
<1> QED BY <1>1, Safety, PTL

\* Nobody reads before the write, whatever order loads have, and who has been
\* through the slow path knows of the write.
THEOREM ReadsStayInitialized == Spec => []ReadsInitialized
<1>1. IInv => ReadsInitialized
  BY DEF IInv, WrittenFirst, Synced, ReadsInitialized
<1> QED BY <1>1, Safety, PTL

----------------------------------------------------------------------------
\* The values of the threads: MutatorLife.

Making == {"creating", "recreating"}
Lives == {"unborn", "running", "creating", "recreating", "exiting", "other",
          "ours", "reset", "gone"}
Orders == {<<"ours", "other">>, <<"other", "ours">>}

LifeTypes ==
  /\ LifeTypeOK
  /\ order \in Orders
  /\ fn \in [Threads -> BOOLEAN]
  /\ early \in [Threads -> BOOLEAN]

\* PLAN is being forced only while a mutator is being made, and was read then.
PlanForced(t) ==
  /\ life[t] \notin Making => pc[t] = "idle"
  /\ life[t] \in Making /\ pc[t] = "idle" => got[t] = "value" \/ t \notin synced
  /\ lazy[t] = "initialized" => got[t] = "value" \/ t \notin synced

\* The state word says whether there is a value, but between the two halves
\* of reset, and the initialiser is there when it is needed.
StateTells(t) ==
  /\ life[t] \in Making <=> lazy[t] = "initializing"
  /\ lazy[t] = "uninitialized" => fn[t]
  /\ value[t] = "live" <=> lazy[t] = "initialized" /\ life[t] # "reset"
  /\ value[t] = "dropped" => life[t] = "reset"

\* A mutator's destructor is registered until it runs, or cannot be, or is
\* given up after the last round.
Registered(t) ==
  /\ life[t] = "unborn" => lazy[t] = "uninitialized"
  /\ \/ life[t] \in {"ours", "reset"} \/ early[t] \/ lazy[t] = "uninitialized"
     \/ "ours" \in specific[t] /\ life[t] # "gone"
     \/ life[t] = "gone" /\ visit[t].round = Iterations

\* Inside a round the visit is at one of the two keys.
Visiting(t) == life[t] \in {"ours", "other", "recreating", "reset"} => visit[t].at <= 2

LifeInv ==
  /\ LifeTypes
  /\ \A t \in Threads : PlanForced(t) /\ StateTells(t) /\ Registered(t) /\ Visiting(t)

----------------------------------------------------------------------------
\* Whatever the threads do, PLAN takes steps of Lazy only.
THEOREM PlanIsLazy == LifeSpec => Spec
<1>1. LifeInit => Init
  BY DEF LifeInit
<1>2. [LifeNext]_lifeVars => [Next]_vars
  BY DEF LifeNext, lifeVars, LifeStep, Next, ProcessStart, Start, Use, Exit, Made, Call,
     Skip, RoundDone, OtherDone, DropValue, Reset, plan
<1> QED BY <1>1, <1>2, PTL DEF LifeSpec, Spec

----------------------------------------------------------------------------
\* A step of Lazy by t concerns t's own pc and what it read.
LEMMA StepIsLocal ==
  ASSUME TypeOK, NEW t \in Threads, Step(t)
  PROVE  /\ pc[t] # "idle"
         /\ \A s \in Threads \ {t} :
              pc'[s] = pc[s] /\ got'[s] = got[s] /\ (s \in synced' => s \in synced)
<1>0. \A s \in Threads \ {t} : s \in synced' => s \in synced
  BY DEF Step, ForceFast, ForceSlow, Slow, Claim, Spin, TakeInit, WriteValue, Publish, Read,
     Synchronise
<1>1. CASE Read(t)
  BY <1>0, <1>1 DEF TypeOK, Read, Goto
<1>2. CASE ~Read(t)
  <2>1. got' = got /\ pc[t] # "idle"
    BY <1>2 DEF Step, ForceFast, ForceSlow, Slow, Claim, Spin, TakeInit, WriteValue, Publish, Goto
  <2>2. PICK p : pc' = [pc EXCEPT ![t] = p] /\ p # "idle"
    BY <1>2 DEF Step, ForceFast, ForceSlow, Slow, Claim, Spin, TakeInit, WriteValue, Publish,
       Goto, AfterUpdate, TypeOK
  <2> QED BY <1>0, <2>1, <2>2 DEF TypeOK
<1> QED BY <1>1, <1>2

\* A thread that comes out of PLAN has read it, unless it has not met the
\* initialising thread.
LEMMA StepReads ==
  ASSUME TypeOK, ReadsInitialized, NEW t \in Threads, Step(t), pc'[t] = "idle"
  PROVE  got'[t] = "value" \/ t \notin synced'
<1>1. Read(t)
  BY DEF Step, ForceFast, ForceSlow, Slow, Claim, Spin, TakeInit, WriteValue, Publish, Goto,
     AfterUpdate, TypeOK
<1> QED BY <1>1 DEF TypeOK, ReadsInitialized, Read, Goto

\* A new process satisfies the invariant.
LEMMA LifeInitInv == LifeInit => LifeInv
<1> SUFFICES ASSUME LifeInit PROVE LifeInv
  OBVIOUS
<1>1. LifeTypeOK
  <2>1. visit \in [Threads -> [round : 0..Iterations, at : 1..3]]
    <3>1. [round |-> 0, at |-> 1] \in [round : 0..Iterations, at : 1..3]
      BY LifeAssumption
    <3> QED BY <3>1 DEF LifeInit
  <2>2. specific \in [Threads -> SUBSET {"ours", "other"}]
    BY DEF LifeInit
  <2>3. life \in [Threads -> Lives]
    BY DEF LifeInit, Lives
  <2> QED BY <2>1, <2>2, <2>3 DEF LifeInit, LifeTypeOK, Lives
<1>2. LifeTypes
  BY <1>1 DEF LifeInit, LifeTypes, Orders
<1>3. ASSUME NEW t \in Threads PROVE PlanForced(t) /\ Registered(t) /\ Visiting(t)
  BY DEF LifeInit, Init, PlanForced, Registered, Visiting, Making
<1>4. ASSUME NEW t \in Threads PROVE StateTells(t)
  BY DEF LifeInit, StateTells, Making
<1> QED BY <1>2, <1>3, <1>4 DEF LifeInv

\* Steps that leave everything of the mutators but the plan alone.
LEMMA StepInv ==
  ASSUME LifeInv, TypeOK, ReadsInitialized, NEW t \in Threads, Step(t), UNCHANGED <<tls, own>>
  PROVE  LifeInv'
<1>1. UNCHANGED <<key, order, life, lazy, fn, value, specific, early, visit>>
  BY DEF tls, own
<1>2. \A s \in Threads : PlanForced(s)'
  <2>1. life[t] \in Making /\ life' = life /\ lazy' = lazy
    BY <1>1, StepIsLocal DEF LifeInv, PlanForced
  <2>2. PlanForced(t)'
    BY <1>1, <2>1, StepReads DEF LifeInv, PlanForced, StateTells, Making
  <2>3. ASSUME NEW s \in Threads \ {t} PROVE PlanForced(s)'
    <3>1. pc'[s] = pc[s] /\ got'[s] = got[s] /\ (s \in synced' => s \in synced)
      BY StepIsLocal
    <3> QED BY <2>1, <3>1 DEF LifeInv, PlanForced
  <2> QED BY <2>2, <2>3
<1>3. \A s \in Threads : StateTells(s)' /\ Registered(s)' /\ Visiting(s)'
  BY <1>1 DEF LifeInv, StateTells, Registered, Visiting
<1>4. LifeTypes'
  BY <1>1 DEF LifeInv, LifeTypes, LifeTypeOK
<1> QED BY <1>2, <1>3, <1>4 DEF LifeInv

\* A thread starts, or calls the allocator without a mutator.
LEMMA StartInv ==
  ASSUME LifeInv, TypeOK, NEW t \in Threads, Start(t) \/ Use(t)
  PROVE  LifeInv'
<1>1. CASE Start(t)
  <2>1. LifeTypes'
    BY <1>1 DEF LifeInv, LifeTypes, LifeTypeOK, Start, Become, tls
  <2>2. \A s \in Threads : StateTells(s)' /\ Registered(s)' /\ Visiting(s)'
    BY <1>1 DEF LifeInv, LifeTypes, LifeTypeOK, Start, Become, tls,
       StateTells, Registered, Visiting, Making
  <2>3. UNCHANGED <<pc, got, lazy>> /\ \A s \in Threads \ {t} : s \in synced' => s \in synced
    BY <1>1 DEF Start, Meet, tls
  <2>4. life[t] = "unborn" /\ life' = [life EXCEPT ![t] = "running"]
    BY <1>1 DEF Start, Become
  <2>5. \A s \in Threads : PlanForced(s)'
    BY <2>3, <2>4 DEF LifeInv, LifeTypes, LifeTypeOK, PlanForced, Registered, Making
  <2> QED BY <2>1, <2>2, <2>5 DEF LifeInv
<1>2. CASE Use(t)
  <2>1. fn[t] /\ lazy[t] = "uninitialized"
    BY <1>2 DEF LifeInv, LifeTypes, LifeTypeOK, Use, StateTells, Making
  <2>2. LifeTypes'
    BY <1>2, <2>1 DEF LifeInv, LifeTypes, LifeTypeOK, Use, InitPthreadSpecific
  <2>3. \A s \in Threads : PlanForced(s)'
    BY <1>2, <2>1 DEF LifeInv, LifeTypes, LifeTypeOK, TypeOK, Use, Deref, Goto, PlanForced, Making
  <2>4. \A s \in Threads : StateTells(s)'
    BY <1>2, <2>1 DEF LifeInv, LifeTypes, LifeTypeOK, Use, StateTells, Making
  <2>5. \A s \in Threads : Registered(s)' /\ Visiting(s)'
    BY <1>2, <2>1 DEF LifeInv, LifeTypes, LifeTypeOK, Use, InitPthreadSpecific, Registered, Visiting
  <2> QED BY <2>2, <2>3, <2>4, <2>5 DEF LifeInv
<1> QED BY <1>1, <1>2

\* The value is written once the plan has been read.
LEMMA MadeInv == ASSUME LifeInv, NEW t \in Threads, Made(t) PROVE LifeInv'
<1>1. LifeTypes'
  BY DEF LifeInv, LifeTypes, LifeTypeOK, Made, Become
<1>2. \A s \in Threads : PlanForced(s)' /\ StateTells(s)'
  BY DEF LifeInv, LifeTypes, LifeTypeOK, Made, Become, plan, vars, PlanForced, StateTells, Making
<1>3. \A s \in Threads : Registered(s)' /\ Visiting(s)'
  BY DEF LifeInv, LifeTypes, LifeTypeOK, Made, Become, Registered, StateTells, Visiting, Making
<1> QED BY <1>1, <1>2, <1>3 DEF LifeInv

\* The rounds of destructors end with the last one allowed.
LEMMA LastRound == \A r \in 0..Iterations : ~(r < Iterations) => r = Iterations
BY LifeAssumption

\* The C library goes from key to key and from round to round.
LEMMA RoundsInv ==
  ASSUME LifeInv, NEW t \in Threads,
         Exit(t) \/ Call(t) \/ Skip(t) \/ RoundDone(t) \/ OtherDone(t)
  PROVE  LifeInv'
<1> USE LifeAssumption DEF LifeInv, LifeTypes, LifeTypeOK, Lives, Orders, plan, tls, Become
<1>0. UNCHANGED <<key, order, vars, lazy, fn, value, early>>
  BY DEF Exit, Call, Skip, RoundDone, OtherDone
<1>1. LifeTypes'
  <2>1. CASE Exit(t)
    BY <1>0, <2>1 DEF Exit
  <2>2. CASE Call(t)
    BY <1>0, <2>2 DEF Call, At
  <2>3. CASE Skip(t)
    BY <1>0, <2>3 DEF Skip
  <2>4. CASE RoundDone(t)
    <3>1. life' \in [Threads -> Lives]
      BY <2>4 DEF RoundDone
    <3>2. AnotherRound(t) => visit[t].round + 1 \in 0..Iterations
      BY DEF AnotherRound
    <3>3. visit' \in [Threads -> [round : 0..Iterations, at : 1..3]]
      BY <2>4, <3>2 DEF RoundDone
    <3>4. specific' = specific
      BY <2>4 DEF RoundDone
    <3> QED BY <1>0, <3>1, <3>3, <3>4
  <2>5. CASE OtherDone(t)
    <3>1. visit[t] \in [round : 0..Iterations, at : 1..3] /\ visit[t].at <= 2
      BY <2>5 DEF OtherDone, Visiting
    <3>2. visit' \in [Threads -> [round : 0..Iterations, at : 1..3]]
      BY <2>5, <3>1 DEF OtherDone
    <3> QED BY <1>0, <2>5, <3>2 DEF OtherDone
  <2> QED BY <2>1, <2>2, <2>3, <2>4, <2>5
<1>2. \A s \in Threads : PlanForced(s)' /\ StateTells(s)'
  BY <1>0 DEF Exit, Call, At, Skip, RoundDone, OtherDone, PlanForced, StateTells, Making, vars
<1>3. \A s \in Threads : Registered(s)'
  <2>1. CASE Exit(t) \/ Skip(t) \/ OtherDone(t)
    BY <1>0, <2>1 DEF Exit, Skip, OtherDone, Registered
  <2>2. CASE Call(t)
    BY <1>0, <2>2 DEF Call, At, Registered
  <2>3. CASE RoundDone(t) /\ AnotherRound(t)
    BY <1>0, <2>3 DEF RoundDone, Registered
  <2>4. CASE RoundDone(t) /\ ~AnotherRound(t)
    <3>1. specific[t] = {} \/ visit[t].round = Iterations
      <4>1. visit[t].round \in 0..Iterations
        OBVIOUS
      <4>2. specific[t] # {} => ~(visit[t].round < Iterations)
        BY <2>4, Zenon DEF AnotherRound
      <4>3. ~(visit[t].round < Iterations) => visit[t].round = Iterations
        BY <4>1, LastRound
      <4> QED BY <4>2, <4>3, Zenon
    <3>2. /\ life' = [life EXCEPT ![t] = "gone"] /\ life[t] = "exiting"
          /\ visit' = visit /\ specific' = specific
      BY <2>4 DEF RoundDone
    <3> QED BY <1>0, <3>1, <3>2 DEF Registered
  <2> QED BY <2>1, <2>2, <2>3, <2>4
<1>4. \A s \in Threads : Visiting(s)'
  BY <1>0 DEF Exit, Call, At, Skip, RoundDone, OtherDone, Visiting
<1> QED BY <1>1, <1>2, <1>3, <1>4

\* Our destructor resets the mutator.
LEMMA ResetInv ==
  ASSUME LifeInv, NEW t \in Threads, DropValue(t) \/ Reset(t)
  PROVE  LifeInv'
<1> USE DEF LifeInv, LifeTypes, LifeTypeOK, plan, Become
<1>1. CASE DropValue(t)
  BY <1>1 DEF DropValue, PlanForced, StateTells, Registered, Visiting, Making, vars
<1>2. CASE Reset(t)
  BY <1>2 DEF Reset, ResetState, PlanForced, StateTells, Registered, Visiting, Making, vars
<1> QED BY <1>1, <1>2

\* No step of any thread breaks the invariant.
LEMMA LifeNextInv ==
  LifeInv /\ TypeOK /\ ReadsInitialized /\ [LifeNext]_lifeVars => LifeInv'
<1> SUFFICES ASSUME LifeInv, TypeOK, ReadsInitialized, [LifeNext]_lifeVars PROVE LifeInv'
  OBVIOUS
<1>1. CASE UNCHANGED lifeVars
  BY <1>1 DEF lifeVars, vars, tls, own, LifeInv, LifeTypes, LifeTypeOK, PlanForced, StateTells,
     Registered, Visiting
<1>2. CASE ProcessStart
  BY <1>2 DEF ProcessStart, plan, vars, tls, LifeInv, LifeTypes, LifeTypeOK, PlanForced, StateTells,
     Registered, Visiting
<1>3. ASSUME NEW t \in Threads, Start(t) \/ Use(t) \/ Exit(t) \/ LifeStep(t)
      PROVE  LifeInv'
  BY <1>3, StepInv, StartInv, MadeInv, RoundsInv, ResetInv DEF LifeStep
<1> QED BY <1>1, <1>2, <1>3 DEF LifeNext

\* The invariant holds in every reachable state.
LEMMA LifeSafety == LifeSpec => []LifeInv
<1>1. LifeInit => LifeInv
  BY LifeInitInv
<1>2. LifeInv /\ TypeOK /\ ReadsInitialized /\ [LifeNext]_lifeVars => LifeInv'
  BY LifeNextInv
<1> QED BY <1>1, <1>2, PlanIsLazy, TypeCorrect, ReadsStayInitialized, PTL DEF LifeSpec

----------------------------------------------------------------------------
\* No call uses a mutator that is not live, none panics for want of its
\* initialiser, and a thread that is gone keeps nothing it could give back:
\* TLS::current, init and mallockit_pthread_destructor together.
THEOREM MutatorsStaySound == LifeSpec => []MutatorsSound
<1>1. LifeInv => LifeTypeOK
  BY DEF LifeInv, LifeTypes
<1>2. LifeInv => UsesLive
  BY DEF LifeInv, UsesLive, PlanForced, StateTells
<1>3. LifeInv => NothingHeld
  BY DEF LifeInv, LifeTypes, LifeTypeOK, NothingHeld, StateTells, Registered
<1>4. LifeInv /\ TypeOK => MutatorsSound
  BY <1>1, <1>2, <1>3 DEF MutatorsSound
<1> QED BY <1>4, LifeSafety, PlanIsLazy, TypeCorrect, PTL

\* A live mutator is dropped before its memory is written again, by reset or
\* by a new mutator.
THEOREM DropsFirst == LifeSpec => DroppedFirst
<1>1. LifeInv /\ [LifeNext]_lifeVars =>
        [\A t \in Threads : value[t] = "live" /\ value'[t] # "live" => value'[t] = "dropped"]_lifeVars
  <2> SUFFICES ASSUME LifeInv, LifeNext, NEW t \in Threads, value[t] = "live", value'[t] # "live"
               PROVE  value'[t] = "dropped"
    OBVIOUS
  <2>1. PICK s \in Threads : Reset(s) \/ DropValue(s) \/ Made(s) \/ value' = value
    BY DEF LifeNext, LifeStep, ProcessStart, Start, Use, Exit, Call, Skip, RoundDone, OtherDone, tls
  <2>2. CASE Reset(s)
    BY <2>2 DEF Reset, Become, LifeInv, LifeTypes, LifeTypeOK, StateTells
  <2>3. CASE DropValue(s) \/ Made(s) \/ value' = value
    BY <2>3 DEF DropValue, Made, LifeInv, LifeTypes, LifeTypeOK
  <2> QED BY <2>1, <2>2, <2>3
<1> QED BY <1>1, LifeSafety, PTL DEF LifeSpec, DroppedFirst

----------------------------------------------------------------------------
\* Calls of the interfaces: MallocApi.

\* What clients hold, and the layouts in front of it.
Objects == [ptr : Nat, size : Nat, align : Nat, kept : Nat]
Layouts == [size : 0..(FieldLimit - 1), align : Powers \cap 1..(FieldLimit - 1)]

\* Alignments that may be asked for with any size.
Used == {a \in Powers : a >= MinAlign /\
           \A n \in Sizes : n + MinAlign + a + 2 * ChunkWords + LayoutWords < FieldLimit}

\* The words left in an area, and those of acquired pages.
Room(t) == area[t].top..(area[t].limit - 1)
InTaken(w) == w \div ChunkWords \in taken

\* The types of the variables.
ApiTypes ==
  /\ area \in [Mutators -> [top : Nat, limit : Nat]]
  /\ \A t \in Mutators : area[t].top <= area[t].limit
  /\ taken \subseteq 0..(2^LogChunks - 1)
  /\ mem = [w \in Words |-> mem[w]]
  /\ obj \in [Ids -> Objects \cup {None}]
  /\ crashed \in {"no", "assert", "null write"}

\* Areas lie in acquired pages and share no word.
RoomsApart ==
  /\ \A t \in Mutators : \A w \in Room(t) : InTaken(w)
  /\ \A t, u \in Mutators : t # u => Room(t) \cap Room(u) = {}

\* What the header says of an object covers it, and what is known is written.
Described(i) == LET l == LoadLayout(obj[i].ptr) IN
  /\ l \in Layouts
  /\ obj[i].ptr % l.align = 0
  /\ obj[i].size <= l.size
  /\ obj[i].align <= l.align /\ obj[i].align \in Used
  /\ obj[i].kept <= obj[i].size
  /\ \A k \in 1..obj[i].kept : mem[obj[i].ptr + k - 1] # Junk

\* Every object is described, and lies in acquired pages with its header.
ObjectsSafe == \A i \in Live :
  /\ Described(i)
  /\ \A w \in LoadRange(obj[i].ptr) : w >= 0 /\ InTaken(w)

\* The inductive invariant.
ApiInv == ApiTypes /\ RoomsApart /\ ObjectsSafe /\ Separate
----------------------------------------------------------------------------
\* Multiples, and what align_up makes.

\* A range within another.
LEMMA Subrange ==
  ASSUME NEW a \in Int, NEW b \in Int, NEW c \in Int, NEW d \in Int, c <= a, b <= d
  PROVE  a..b \subseteq c..d
OBVIOUS

\* A product is a multiple, and a multiple is the product with its quotient.
LEMMA Multiples ==
  ASSUME NEW a \in Nat \ {0}
  PROVE  /\ \A k \in Nat : k * a \in Nat /\ (k * a) % a = 0
         /\ \A n \in Nat : n % a = 0 => n = (n \div a) * a /\ n \div a \in Nat
<1>1. ASSUME NEW k \in Nat PROVE k * a \in Nat /\ (k * a) % a = 0
  OBVIOUS
<1>2. ASSUME NEW n \in Nat, n % a = 0 PROVE n = (n \div a) * a /\ n \div a \in Nat
  BY <1>2
<1> QED BY <1>1, <1>2

\* align_up gives the least multiple that is not smaller.
LEMMA AlignedUp ==
  ASSUME NEW n \in Nat, NEW a \in Nat \ {0}
  PROVE  /\ AlignUp(n, a) \in Nat /\ AlignUp(n, a) % a = 0
         /\ n <= AlignUp(n, a) /\ AlignUp(n, a) < n + a
         /\ n % a = 0 => AlignUp(n, a) = n
<1> DEFINE m == n + a - 1
           q == m \div a
<1>1. m \in Nat /\ q \in Nat /\ q * a <= m /\ m < (q + 1) * a
  BY Quotient
<1>2. (q + 1) * a = q * a + a
  OBVIOUS
<1>3. AlignUp(n, a) = q * a
  BY DEF AlignUp
<1> HIDE DEF q
<1>4. q * a \in Nat /\ (q * a) % a = 0
  BY <1>1, Multiples
<1>5. ASSUME n % a = 0 PROVE q * a = n
  <2>1. PICK k \in Nat : n = k * a
    BY <1>5, Multiples
  <2>2. k * a < (q + 1) * a /\ q * a < (k + 1) * a
    BY <1>1, <1>2, <2>1
  <2>3. k < q + 1 /\ q < k + 1
    BY <1>1, <2>2
  <2> QED BY <1>1, <2>1, <2>3
<1> QED BY <1>1, <1>2, <1>3, <1>4, <1>5

\* Powers of two are positive.
LEMMA PowersNat == Powers \subseteq Nat \ {0}
BY PowerNat, BumpAssumption DEF Powers

\* The smaller of two powers of two divides the larger.
LEMMA PowersDivide ==
  ASSUME NEW p \in Powers, NEW q \in Powers, p <= q
  PROVE  \E k \in Nat \ {0} : q = k * p
<1>1. PICK a \in 0..MaxClass, b \in 0..MaxClass : p = 2^a /\ q = 2^b
  BY DEF Powers
<1>2. a \in Nat /\ b \in Nat
  BY BumpAssumption
<1>3. CASE a <= b
  <2>1. b - a \in Nat /\ a + (b - a) = b
    BY <1>2, <1>3
  <2>2. 2^(a + (b - a)) = 2^a * 2^(b - a) /\ 2^(b - a) \in Nat \ {0} /\ 2^a \in Nat
    BY <1>2, <2>1, PowerSum, PowerNat
  <2>3. q = 2^(b - a) * p
    BY <1>1, <2>1, <2>2
  <2> QED BY <2>2, <2>3
<1>4. CASE a > b
  <2>1. q <= p
    BY <1>1, <1>2, <1>4, PowerGrows
  <2>2. q = 1 * p
    BY <2>1, PowersNat
  <2> QED BY <2>2
<1> QED BY <1>2, <1>3, <1>4

\* What is a multiple of a power of two is one of all smaller powers.
LEMMA AlignedLess ==
  ASSUME NEW p \in Powers, NEW q \in Powers, p <= q, NEW n \in Nat, n % q = 0
  PROVE  n % p = 0
<1>1. PICK k \in Nat : q = k * p
  BY PowersDivide
<1>2. PICK m \in Nat : n = m * q
  BY PowersNat, Multiples
<1>3. p \in Nat \ {0} /\ m * k \in Nat /\ n = (m * k) * p
  BY <1>1, <1>2, PowersNat
<1> QED BY <1>3, Multiples

\* usize::max and min of two numbers.
LEMMA MaxOfTwo ==
  ASSUME NEW a \in Nat, NEW b \in Nat
  PROVE  Max({a, b}) = IF a >= b THEN a ELSE b
BY DEF Max

\* The smaller of two numbers.
LEMMA MinOfTwo ==
  ASSUME NEW a \in Nat, NEW b \in Nat
  PROVE  Min({a, b}) = IF a <= b THEN a ELSE b
BY DEF Min

\* next_power_of_two, of what is no more than the largest.
LEMMA PowerAtLeast ==
  ASSUME NEW n \in Nat, n <= 2^MaxClass
  PROVE  NextPowerOfTwo(n) \in Powers /\ n <= NextPowerOfTwo(n)
<1> DEFINE T == {2^k : k \in {j \in 0..MaxClass : n <= 2^j}}
<1>1. 2^MaxClass \in T
  BY BumpAssumption
<1>2. T \subseteq Powers /\ T \in SUBSET Nat /\ \A x \in T : n <= x
  BY PowersNat DEF Powers
<1> HIDE DEF T
<1>3. \E m \in T : \A x \in T : m <= x
  BY <1>1, <1>2, NatMin
<1>4. Min(T) \in T
  BY <1>3 DEF Min
<1>5. NextPowerOfTwo(n) = Min(T)
  BY DEF NextPowerOfTwo, T
<1> QED BY <1>2, <1>4, <1>5
----------------------------------------------------------------------------
\* The layouts of the requests.

\* What every interface makes of a request.
Requested == {l \in Layouts :
  /\ l.align \in Used /\ l.size % l.align = 0
  /\ l.size + 2 * ChunkWords + LayoutWords < FieldLimit}

\* The types of the constants.
LEMMA ChunkWordsNat ==
  /\ ChunkWords \in Nat \ {0} /\ MinAlign \in Nat \ {0} /\ PageWords \in Nat \ {0}
  /\ 2^LogChunks \in Nat \ {0} /\ FieldLimit \in Nat \ {0} /\ FieldLimit <= 2^MaxClass
  /\ 2^MaxClass \in Nat
BY PowersNat, BumpAssumption, ApiAssumption, PowerNat

\* The alignments of all requests are in use.
LEMMA UsedAligns ==
  /\ \A a \in Alignments \cup {PageWords} : a \in Powers => Max({a, MinAlign}) \in Used
  /\ MinAlign \in Used
<1>1. MinAlign \in Used
  BY ApiAssumption, ChunkWordsNat DEF Used
<1>2. ASSUME NEW a \in Alignments \cup {PageWords}, a \in Powers
      PROVE  Max({a, MinAlign}) \in Used
  <2>1. a \in Nat /\ MinAlign \in Nat /\ Max({a, MinAlign}) = IF a >= MinAlign THEN a ELSE MinAlign
    BY <1>2, PowersNat, ChunkWordsNat, MaxOfTwo
  <2>2. a >= MinAlign => a \in Used
    BY <1>2, ApiAssumption DEF Used
  <2> QED BY <1>1, <2>1, <2>2
<1> QED BY <1>1, <1>2

\* Alignments in use are positive powers of two.
LEMMA UsedType == \A a \in Used : a \in Powers /\ a \in Nat \ {0}
BY PowersNat DEF Used

\* A size rounded up to an alignment in use makes a layout.
LEMMA LayoutRequested ==
  ASSUME NEW n \in Sizes, NEW a \in Used, NEW m \in Nat, n <= m, m <= n + MinAlign
  PROVE  Layout(AlignUp(m, a), a) \in Requested /\ n <= AlignUp(m, a)
<1>1. n \in Nat /\ a \in Nat \ {0} /\ a \in Powers
  BY ApiAssumption, UsedType
<1>2. n + MinAlign + a + 2 * ChunkWords + LayoutWords < FieldLimit
  BY DEF Used
<1> DEFINE s == AlignUp(m, a)
<1>3. s \in Nat /\ s % a = 0 /\ m <= s /\ s < m + a
  BY <1>1, AlignedUp
<1> HIDE DEF s
<1>4. s + 2 * ChunkWords + LayoutWords < FieldLimit /\ s < FieldLimit /\ a < FieldLimit
  BY <1>1, <1>2, <1>3, ChunkWordsNat DEF LayoutWords
<1>5. [size |-> s, align |-> a] \in Requested
  BY <1>1, <1>3, <1>4, ChunkWordsNat DEF Requested, Layouts
<1> QED BY <1>1, <1>3, <1>5 DEF s, Layout

\* MallocLayout, also of posix_memalign, FixLayout and the layout of realloc.
LEMMA MallocRequested ==
  ASSUME NEW n \in Sizes, NEW a \in Used
  PROVE  MallocLayout(n, a) \in Requested /\ n <= MallocLayout(n, a).size
<1>1. n \in Nat /\ MinAlign \in Nat /\ Max({n, MinAlign}) = IF n >= MinAlign THEN n ELSE MinAlign
  BY ApiAssumption, ChunkWordsNat, MaxOfTwo
<1> DEFINE m == Max({n, MinAlign})
<1>2. m \in Nat /\ n <= m /\ m <= n + MinAlign
  BY <1>1
<1> HIDE DEF m
<1>3. Layout(AlignUp(m, a), a) \in Requested /\ n <= AlignUp(m, a)
  BY <1>2, LayoutRequested
<1> QED BY <1>3 DEF m, MallocLayout, Layout

\* __fix_layout pads to the larger of the alignment and the smallest one.
LEMMA FixRequested ==
  ASSUME NEW n \in Sizes, NEW a, Max({a, MinAlign}) \in Used
  PROVE  FixLayout(n, a) \in Requested /\ n <= FixLayout(n, a).size
<1> DEFINE b == Max({a, MinAlign})
<1>1. n \in Nat /\ n <= n /\ n <= n + MinAlign /\ b \in Used
  BY ApiAssumption, ChunkWordsNat
<1> HIDE DEF b
<1>2. Layout(AlignUp(n, b), b) \in Requested /\ n <= AlignUp(n, b)
  BY <1>1, LayoutRequested
<1> QED BY <1>2 DEF b, FixLayout, Layout

\* realloc pads to the smallest alignment.
LEMMA ReallocRequested ==
  ASSUME NEW n \in Sizes
  PROVE  /\ Layout(AlignUp(n, MinAlign), MinAlign) \in Requested
         /\ n <= Layout(AlignUp(n, MinAlign), MinAlign).size
<1>1. n \in Nat /\ n <= n /\ n <= n + MinAlign /\ MinAlign \in Used
  BY ApiAssumption, ChunkWordsNat, UsedAligns
<1>2. Layout(AlignUp(n, MinAlign), MinAlign) \in Requested /\ n <= AlignUp(n, MinAlign)
  BY <1>1, LayoutRequested
<1> QED BY <1>2 DEF Layout

----------------------------------------------------------------------------
\* Where an object is placed.

\* Offset: the header takes as much as the alignment.
LEMMA OffsetIsAlign == ASSUME NEW l, l.align \in Nat \ {0} PROVE Offset(l) = l.align
<1>1. (1 + l.align - 1) \div l.align = 1
  <2>1. 1 + l.align - 1 = l.align
    OBVIOUS
  <2>2. ASSUME NEW a \in Nat \ {0} PROVE a \div a = 1
    OBVIOUS
  <2> QED BY <2>1, <2>2
<1> QED BY <1>1 DEF Offset, AlignUp, HeaderWords

\* Data starts at a multiple of the alignment, less than two alignments into
\* the area, and right after the first one when the area starts at a multiple.
LEMMA Placement ==
  ASSUME NEW ar \in [top : Nat, limit : Nat], NEW l \in Layouts
  PROVE  LET p == DataStart(ar, l) IN
         /\ p \in Nat /\ p % l.align = 0
         /\ ar.top <= p - l.align /\ p - l.align < ar.top + l.align
         /\ End(ar, l) = p + l.size
         /\ ar.top % l.align = 0 => p = ar.top + l.align
<1>1. ar.top \in Nat /\ l.align \in Nat \ {0} /\ l.size \in Nat /\ Offset(l) = l.align
  BY PowersNat, OffsetIsAlign DEF Layouts
<1> DEFINE s == AlignUp(ar.top, l.align)
<1>2. s \in Nat /\ s % l.align = 0 /\ ar.top <= s /\ s < ar.top + l.align
      /\ (ar.top % l.align = 0 => s = ar.top)
  BY <1>1, AlignedUp
<1>3. DataStart(ar, l) = s + l.align
  BY <1>1 DEF DataStart
<1> HIDE DEF s
<1>4. (s + l.align) % l.align = 0
  <2>1. PICK k \in Nat : s = k * l.align
    BY <1>1, <1>2, Multiples
  <2>2. PICK m \in Nat : m = k + 1
    OBVIOUS
  <2>3. s + l.align = m * l.align
    <3>1. \A a \in Nat : (k + 1) * a = k * a + a
      OBVIOUS
    <3> QED BY <1>1, <2>1, <2>2, <3>1
  <2>4. (m * l.align) % l.align = 0
    BY <1>1, Multiples
  <2> QED BY <2>3, <2>4
<1> QED BY <1>1, <1>2, <1>3, <1>4 DEF End
----------------------------------------------------------------------------
\* The areas acquired from the page resource.

\* How much a request asks for, in chunks.
LEMMA AllocSizeFacts ==
  ASSUME NEW l \in Requested
  PROVE  LET c == AllocSize(l) \div ChunkWords IN
         /\ c \in Nat /\ c <= 2^MaxClass
         /\ l.size + LayoutWords <= c * ChunkWords
         /\ ChunkWords + LayoutWords <= c * ChunkWords
<1>1. /\ l.size \in Nat /\ l.size + 2 * ChunkWords + LayoutWords < FieldLimit
      /\ Max({l.size, ChunkWords}) = IF l.size >= ChunkWords THEN l.size ELSE ChunkWords
  BY ChunkWordsNat, MaxOfTwo DEF Requested, Layouts
<1> DEFINE m == Max({l.size, ChunkWords}) + LayoutWords
           s == AlignUp(m, ChunkWords)
           c == s \div ChunkWords
<1>2. m \in Nat /\ l.size + LayoutWords <= m /\ ChunkWords + LayoutWords <= m
      /\ m + ChunkWords < FieldLimit
  BY <1>1, ChunkWordsNat DEF LayoutWords
<1>3. AllocSize(l) = s
  BY DEF AllocSize
<1> HIDE DEF m
<1>4. s \in Nat /\ s % ChunkWords = 0 /\ m <= s /\ s < FieldLimit
  BY <1>2, ChunkWordsNat, AlignedUp
<1> HIDE DEF s
<1>5. c \in Nat /\ s = c * ChunkWords
  BY <1>4, ChunkWordsNat, Multiples
<1> HIDE DEF c
<1>6. c <= c * ChunkWords
  BY <1>5, ChunkWordsNat
<1>7. c <= 2^MaxClass
  BY <1>4, <1>5, <1>6, ChunkWordsNat
<1> QED BY <1>1, <1>2, <1>3, <1>4, <1>5, <1>7, ChunkWordsNat DEF c, LayoutWords

\* An acquired area is a power of two of chunks, aligned to itself, in words
\* that were free, and longer than the object and its layout.
LEMMA RefillFacts ==
  ASSUME NEW l \in Requested, NEW ar \in Refills(l)
  PROVE  \E n \in Powers :
         /\ ar.top \in Nat /\ ar.top % (n * ChunkWords) = 0
         /\ ar = [top |-> ar.top, limit |-> ar.top + n * ChunkWords]
         /\ l.size + LayoutWords <= n * ChunkWords /\ ChunkWords + LayoutWords <= n * ChunkWords
         /\ \A w \in ar.top..(ar.limit - 1) : w \in Words /\ ~InTaken(w)
<1> DEFINE c == AllocSize(l) \div ChunkWords
           n == NextPowerOfTwo(c)
<1>1. /\ c \in Nat /\ c <= 2^MaxClass /\ l.size + LayoutWords <= c * ChunkWords
      /\ ChunkWords + LayoutWords <= c * ChunkWords
  BY AllocSizeFacts
<1>2. PICK d \in 0..(2^LogChunks - n) :
        /\ d % n = 0 /\ d..(d + n - 1) \cap taken = {}
        /\ ar = [top |-> d * ChunkWords, limit |-> (d + n) * ChunkWords]
  BY DEF Refills
<1> HIDE DEF c
<1>3. n \in Powers /\ c <= n
  BY <1>1, PowerAtLeast
<1> HIDE DEF n
<1>4. n \in Nat \ {0} /\ d \in Nat /\ ChunkWords \in Nat \ {0} /\ l.size \in Nat /\ 2^LogChunks \in Nat
  BY <1>2, <1>3, PowersNat, ChunkWordsNat DEF Requested, Layouts
<1>5. c * ChunkWords <= n * ChunkWords /\ n * ChunkWords \in Nat \ {0}
  BY <1>1, <1>3, <1>4
<1>6. ar.top = d * ChunkWords /\ ar.top \in Nat /\ (d + n) * ChunkWords = ar.top + n * ChunkWords
  BY <1>2, <1>4
<1>7. ar.top % (n * ChunkWords) = 0
  <2>1. PICK k \in Nat : d = k * n
    BY <1>2, <1>4, Multiples
  <2>2. ar.top = k * (n * ChunkWords)
    BY <1>4, <1>6, <2>1
  <2> QED BY <1>5, <2>2, Multiples
<1>8. ASSUME NEW w \in ar.top..(ar.limit - 1) PROVE w \in Words /\ ~InTaken(w)
  <2> DEFINE q == w \div ChunkWords
  <2>1. w \in Nat /\ d * ChunkWords <= w /\ w < (d + n) * ChunkWords
    BY <1>2, <1>4, <1>6
  <2>2. q \in Nat /\ q * ChunkWords <= w /\ w < (q + 1) * ChunkWords
    BY <1>4, <2>1, Quotient
  <2> HIDE DEF q
  <2>3. d * ChunkWords < (q + 1) * ChunkWords /\ q * ChunkWords < (d + n) * ChunkWords
    BY <1>4, <2>1, <2>2
  <2>4. d < q + 1 /\ q < d + n
    BY <1>4, <2>2, <2>3
  <2>5. q \in d..(d + n - 1)
    BY <1>4, <2>2, <2>4
  <2>6. (d + n) * ChunkWords <= 2^LogChunks * ChunkWords
    <3>1. d + n <= 2^LogChunks /\ d + n \in Nat
      BY <1>2, <1>4
    <3> QED BY <1>4, <3>1
  <2>7. w <= 2^LogChunks * ChunkWords - 1
    BY <1>4, <2>1, <2>6
  <2> QED BY <1>2, <2>1, <2>5, <2>7 DEF q, Words, InTaken
<1>9. /\ ar = [top |-> ar.top, limit |-> ar.top + n * ChunkWords]
      /\ l.size + LayoutWords <= n * ChunkWords /\ ChunkWords + LayoutWords <= n * ChunkWords
  BY <1>1, <1>2, <1>4, <1>5, <1>6 DEF LayoutWords
<1> QED BY <1>3, <1>6, <1>7, <1>8, <1>9

\* An area that was just acquired has room for any request: it is a multiple
\* of the alignment long, and longer than the size.
LEMMA RefillRoom ==
  ASSUME NEW l \in Requested, NEW ar \in Refills(l), l.size # 0 \/ l.align <= 2 * ChunkWords
  PROVE  Fits(ar, l)
<1>1. PICK n \in Powers :
         /\ ar.top \in Nat /\ ar.top % (n * ChunkWords) = 0
         /\ ar = [top |-> ar.top, limit |-> ar.top + n * ChunkWords]
         /\ l.size + LayoutWords <= n * ChunkWords /\ ChunkWords + LayoutWords <= n * ChunkWords
  BY RefillFacts
<1> DEFINE m == n * ChunkWords
<1>2. /\ l \in Layouts /\ l.align \in Powers /\ l.size \in Nat /\ l.size % l.align = 0
      /\ l.align \in Nat \ {0} /\ n \in Nat \ {0}
  BY PowersNat DEF Requested, Layouts
<1>3. \E k \in Nat : m = 2^k
  <2>1. PICK a \in 0..MaxClass, b \in 0..MaxClass : n = 2^a /\ ChunkWords = 2^b
    BY BumpAssumption DEF Powers
  <2>2. a \in Nat /\ b \in Nat /\ a + b \in Nat
    BY BumpAssumption
  <2>3. 2^(a + b) = 2^a * 2^b
    BY <2>2, PowerSum
  <2> QED BY <2>1, <2>2, <2>3
<1>4. m \in Nat \ {0} /\ ar.top % m = 0 /\ ar.limit = ar.top + m
      /\ l.size + LayoutWords <= m /\ ChunkWords + LayoutWords <= m
  BY <1>1, <1>2, ChunkWordsNat DEF LayoutWords
<1> HIDE DEF m
<1>5. l.align <= m
  <2>1. CASE l.size # 0
    <3>1. PICK k \in Nat : l.size = k * l.align
      BY <1>2, Multiples
    <3>2. k >= 1
      BY <1>2, <2>1, <3>1
    <3>3. l.align <= l.size
      BY <1>2, <3>1, <3>2
    <3> QED BY <1>2, <1>4, <3>3 DEF LayoutWords
  <2>2. CASE l.size = 0
    <3>1. l.align <= 2 * ChunkWords
      BY <2>2
    <3>2. 2 * ChunkWords <= m
      <4>1. PICK k \in Nat : m = k * ChunkWords
        BY <1>2 DEF m
      <4>2. k >= 2
        <5>1. CASE k = 0
          BY <1>4, <4>1, <5>1, ChunkWordsNat DEF LayoutWords
        <5>2. CASE k = 1
          BY <1>4, <4>1, <5>2, ChunkWordsNat DEF LayoutWords
        <5> QED BY <5>1, <5>2
      <4> QED BY <4>1, <4>2, ChunkWordsNat
    <3> QED BY <1>2, <1>4, <3>1, <3>2, ChunkWordsNat
  <2> QED BY <2>1, <2>2
<1>6. PICK j \in Nat \ {0} : m = j * l.align
  <2>1. PICK a \in Nat, k \in Nat : l.align = 2^a /\ m = 2^k
    BY <1>2, <1>3, BumpAssumption DEF Powers
  <2>2. CASE a <= k
    <3>1. k - a \in Nat /\ a + (k - a) = k
      BY <2>2
    <3>2. 2^(a + (k - a)) = 2^a * 2^(k - a) /\ 2^(k - a) \in Nat \ {0} /\ 2^a \in Nat
      BY <3>1, PowerSum, PowerNat
    <3>3. m = 2^(k - a) * l.align
      BY <2>1, <3>1, <3>2
    <3> QED BY <3>2, <3>3
  <2>3. CASE a > k
    <3>1. m <= l.align
      BY <2>1, <2>3, PowerGrows
    <3>2. m = 1 * l.align
      BY <1>2, <1>4, <1>5, <3>1
    <3> QED BY <3>2
  <2> QED BY <2>2, <2>3
<1>7. ar.top % l.align = 0
  <2>1. PICK i \in Nat : ar.top = i * m
    BY <1>1, <1>4, Multiples
  <2>2. ar.top = (i * j) * l.align /\ i * j \in Nat
    BY <1>2, <1>6, <2>1
  <2>3. PICK q \in Nat : q = i * j
    BY <2>2
  <2>4. (q * l.align) % l.align = 0
    BY <1>2, Multiples
  <2> QED BY <2>2, <2>3, <2>4
<1>8. l.align + l.size <= m
  <2>1. PICK k \in Nat : l.size = k * l.align
    BY <1>2, Multiples
  <2>2. k * l.align < j * l.align
    BY <1>2, <1>4, <1>6, <2>1 DEF LayoutWords
  <2>3. k + 1 <= j
    BY <1>2, <1>6, <2>1, <2>2
  <2>4. (k + 1) * l.align <= j * l.align
    BY <1>2, <1>6, <2>1, <2>3
  <2> QED BY <1>2, <1>6, <2>1, <2>4
<1>9. ar \in [top : Nat, limit : Nat]
  BY <1>1, <1>4
<1>10. DataStart(ar, l) = ar.top + l.align /\ End(ar, l) = DataStart(ar, l) + l.size
  BY <1>2, <1>7, <1>9, Placement
<1> QED BY <1>1, <1>2, <1>4, <1>8, <1>10 DEF Fits
----------------------------------------------------------------------------
\* What the invariant says of an object and of an area.

\* A live object has a pointer.
LEMMA ObjectType ==
  ASSUME ApiInv, NEW i \in Live
  PROVE  i \in Ids /\ obj[i] \in Objects /\ obj[i].ptr \in Nat
BY DEF ApiInv, ApiTypes, Live, None, Objects

\* The words of an object, its header among them.
LEMMA RangeFacts ==
  ASSUME NEW p \in Nat, LoadLayout(p) \in Layouts
  PROVE  LET l == LoadLayout(p) IN
         /\ LoadRange(p) = (p - l.align)..(p + l.size - 1)
         /\ p - HeaderWords \in LoadRange(p)
         /\ \A k \in 1..l.size : p + k - 1 \in LoadRange(p)
         /\ l.align \in Nat \ {0} /\ l.size \in Nat
<1>1. LoadLayout(p).align \in Nat \ {0} /\ LoadLayout(p).size \in Nat
  BY PowersNat DEF Layouts
<1>2. Offset(LoadLayout(p)) = LoadLayout(p).align
  BY <1>1, OffsetIsAlign
<1>3. LoadRange(p) = (p - LoadLayout(p).align)..(p + LoadLayout(p).size - 1)
  BY <1>2 DEF LoadRange
<1> QED BY <1>1, <1>3 DEF HeaderWords

\* The words of a chunk are words of the space.
LEMMA ChunkInSpace ==
  ASSUME NEW w \in Nat, w \div ChunkWords \in 0..(2^LogChunks - 1)
  PROVE  w \in Words
<1> DEFINE q == w \div ChunkWords
           c == 2^LogChunks
<1>1. q \in Nat /\ w < (q + 1) * ChunkWords
  BY ChunkWordsNat, Quotient
<1>2. q \in 0..(c - 1) /\ c \in Nat
  BY ChunkWordsNat
<1> HIDE DEF q, c
<1>3. (q + 1) * ChunkWords <= c * ChunkWords /\ c * ChunkWords \in Nat
  <2>1. q + 1 <= c
    BY <1>2
  <2> QED BY <1>1, <1>2, <2>1, ChunkWordsNat
<1>4. w <= c * ChunkWords - 1
  BY <1>1, <1>3, ChunkWordsNat
<1> QED BY <1>4 DEF Words, c

\* The area a request is served from has words of nobody else.
LEMMA SourceRoom ==
  ASSUME ApiInv, NEW t \in Mutators, NEW l \in Requested, NEW ar \in Sources(t, l)
  PROVE  /\ ar \in [top : Nat, limit : Nat] /\ ar.top <= ar.limit
         /\ \A w \in ar.top..(ar.limit - 1) :
              /\ w \in Words
              /\ \A u \in Mutators \ {t} : w \notin Room(u)
              /\ \A i \in Live : w \notin LoadRange(obj[i].ptr)
<1>1. CASE ar = area[t]
  <2>1. ar \in [top : Nat, limit : Nat] /\ ar.top <= ar.limit
    BY <1>1 DEF ApiInv, ApiTypes
  <2>2. ASSUME NEW w \in ar.top..(ar.limit - 1) PROVE w \in Nat /\ w \in Room(t)
    BY <1>1, <2>1, <2>2 DEF Room
  <2>3. ASSUME NEW w \in ar.top..(ar.limit - 1)
        PROVE  w \in Words /\ \A u \in Mutators \ {t} : w \notin Room(u)
    BY <2>2, ChunkInSpace DEF ApiInv, ApiTypes, RoomsApart, InTaken
  <2>4. ASSUME NEW w \in ar.top..(ar.limit - 1), NEW i \in Live
        PROVE  w \notin LoadRange(obj[i].ptr)
    BY <2>2 DEF ApiInv, Separate, Room
  <2> QED BY <2>1, <2>3, <2>4
<1>2. CASE ar \in Refills(l)
  <2>1. PICK n \in Powers :
         /\ ar.top \in Nat
         /\ ar = [top |-> ar.top, limit |-> ar.top + n * ChunkWords]
         /\ \A w \in ar.top..(ar.limit - 1) : w \in Words /\ ~InTaken(w)
    BY <1>2, RefillFacts
  <2>2. n * ChunkWords \in Nat
    BY PowersNat, ChunkWordsNat
  <2>3. ar \in [top : Nat, limit : Nat] /\ ar.top <= ar.limit
    BY <2>1, <2>2
  <2>4. ASSUME NEW w \in ar.top..(ar.limit - 1)
        PROVE  /\ \A u \in Mutators \ {t} : w \notin Room(u)
               /\ \A i \in Live : w \notin LoadRange(obj[i].ptr)
    BY <2>1 DEF ApiInv, RoomsApart, ObjectsSafe
  <2> QED BY <2>1, <2>3, <2>4
<1> QED BY <1>1, <1>2 DEF Sources

\* An object whose words a step leaves alone stays what it was.
LEMMA ObjectKept ==
  ASSUME ApiInv, NEW i \in Live, obj'[i] = obj[i], taken \subseteq taken',
         \A w \in LoadRange(obj[i].ptr) : mem'[w] = mem[w]
  PROVE  /\ LoadRange(obj[i].ptr)' = LoadRange(obj[i].ptr)
         /\ Described(i)'
         /\ \A w \in LoadRange(obj[i].ptr) : w >= 0 /\ InTaken(w)'
<1> DEFINE p == obj[i].ptr
           l == LoadLayout(p)
<1>1. p \in Nat /\ Described(i) /\ l \in Layouts /\ obj[i] \in Objects
  BY ObjectType DEF ApiInv, ObjectsSafe, Described
<1>2. p - HeaderWords \in LoadRange(p) /\ \A k \in 1..l.size : p + k - 1 \in LoadRange(p)
  BY <1>1, RangeFacts
<1>3. LoadLayout(obj[i].ptr)' = l
  BY <1>2 DEF LoadLayout
<1>4. LoadRange(obj[i].ptr)' = LoadRange(obj[i].ptr)
  BY <1>3 DEF LoadRange, Offset
<1>5. \A k \in 1..obj[i].kept : mem'[p + k - 1] = mem[p + k - 1]
  <2>1. obj[i].kept \in Nat /\ l.size \in Nat /\ obj[i].kept <= l.size
    BY <1>1 DEF Described, Objects, Layouts
  <2> QED BY <1>2, <2>1
<1>6. Described(i)'
  BY <1>1, <1>3, <1>5 DEF Described
<1>7. \A w \in LoadRange(obj[i].ptr) : w >= 0 /\ InTaken(w)'
  BY DEF ApiInv, ObjectsSafe, InTaken
<1> QED BY <1>4, <1>6, <1>7

\* The invariant after a step that leaves one object i, if any, with words of
\* its own, and the others alone.
LEMMA OthersKept ==
  ASSUME ApiInv, ApiTypes', RoomsApart', NEW i \in Ids,
         \A j \in Ids \ {i} : obj'[j] = obj[j],
         taken \subseteq taken',
         \A j \in Live \ {i} : \A w \in LoadRange(obj[j].ptr) : mem'[w] = mem[w],
         \A j \in Live \ {i}, t \in Mutators : LoadRange(obj[j].ptr) \cap Room(t)' = {},
         obj'[i] # None =>
           /\ Described(i)'
           /\ \A w \in LoadRange(obj[i].ptr)' : w >= 0 /\ InTaken(w)'
           /\ \A j \in Live \ {i} : LoadRange(obj[j].ptr) \cap LoadRange(obj[i].ptr)' = {}
           /\ \A t \in Mutators : LoadRange(obj[i].ptr)' \cap Room(t)' = {}
  PROVE  ApiInv'
<1>1. ASSUME NEW j \in Live', j # i
      PROVE  /\ j \in Live
             /\ LoadRange(obj[j].ptr)' = LoadRange(obj[j].ptr)
             /\ Described(j)'
             /\ \A w \in LoadRange(obj[j].ptr) : w >= 0 /\ InTaken(w)'
  <2>1. j \in Live /\ obj'[j] = obj[j]
    BY <1>1 DEF Live
  <2> QED BY <1>1, <2>1, ObjectKept
<1>2. i \in Live' => obj'[i] # None
  BY DEF Live
<1>3. ObjectsSafe'
  BY <1>1, <1>2 DEF ObjectsSafe
<1>4. ASSUME NEW j \in Live', NEW k \in Live', j # k
      PROVE  LoadRange(obj[j].ptr)' \cap LoadRange(obj[k].ptr)' = {}
  <2>1. CASE j # i /\ k # i
    BY <1>1, <1>4, <2>1 DEF ApiInv, Separate
  <2>2. CASE j = i
    BY <1>1, <1>2, <1>4, <2>2
  <2>3. CASE k = i
    BY <1>1, <1>2, <1>4, <2>3
  <2> QED BY <2>1, <2>2, <2>3
<1>5. ASSUME NEW j \in Live'
      PROVE  /\ LoadRange(obj[j].ptr)' \subseteq Words
             /\ \A t \in Mutators : LoadRange(obj[j].ptr)' \cap Room(t)' = {}
  <2>1. \A w \in LoadRange(obj[j].ptr)' : w >= 0 /\ InTaken(w)'
    BY <1>3 DEF ObjectsSafe
  <2>2. LoadRange(obj[j].ptr)' \subseteq Int
    BY <1>3, <2>1 DEF LoadRange
  <2>3. \A w \in Nat : InTaken(w)' => w \in Words
    BY ChunkInSpace DEF ApiTypes, InTaken
  <2>4. LoadRange(obj[j].ptr)' \subseteq Words
    BY <2>1, <2>2, <2>3
  <2>5. \A t \in Mutators : LoadRange(obj[j].ptr)' \cap Room(t)' = {}
    BY <1>1, <1>2
  <2> QED BY <2>4, <2>5
<1>6. Separate'
  BY <1>4, <1>5 DEF Separate, Room
<1> QED BY <1>3, <1>6 DEF ApiInv
----------------------------------------------------------------------------
\* What an allocation changes.

\* A header and the data behind it, in words of the area only.
LEMMA CarveWrites ==
  ASSUME ApiInv, NEW t \in Mutators, NEW l \in Requested, NEW ar \in Sources(t, l), Fits(ar, l),
         NEW data, NEW m \in 0..l.size, DOMAIN data = 1..m, Carve(t, ar, l, data)
  PROVE  LET p == DataStart(ar, l) IN
         /\ p \in Nat /\ p % l.align = 0
         /\ ar.top <= p - l.align /\ p + l.size <= ar.limit
         /\ area' = [area EXCEPT ![t] = [top |-> p + l.size, limit |-> ar.limit]]
         /\ LoadLayout(p)' = l
         /\ \A k \in 1..m : mem'[p + k - 1] = data[k]
         /\ \A w \in Words : w \notin (p - l.align)..(p + l.size - 1) => mem'[w] = mem[w]
         /\ mem' = [w \in Words |-> mem'[w]]
<1> DEFINE p == DataStart(ar, l)
<1>1. /\ ar \in [top : Nat, limit : Nat] /\ ar.top <= ar.limit
      /\ \A w \in ar.top..(ar.limit - 1) : w \in Words
  BY SourceRoom
<1>2. /\ l \in Layouts /\ l.align \in Nat \ {0} /\ l.size \in Nat
      /\ l.align < FieldLimit /\ l.size < FieldLimit
  BY PowersNat, ChunkWordsNat DEF Requested, Layouts
<1>3. /\ p \in Nat /\ p % l.align = 0
      /\ ar.top <= p - l.align /\ End(ar, l) = p + l.size
  BY <1>1, <1>2, Placement
<1>4. p + l.size <= ar.limit
  BY <1>3 DEF Fits
<1>5. \A w \in (p - l.align)..(p + l.size - 1) : w \in Words
  <2> HIDE DEF p
  <2>1. ar.top \in Nat /\ ar.limit \in Nat
    BY <1>1
  <2>2. p - l.align \in Int /\ p + l.size - 1 \in Int /\ ar.limit - 1 \in Int
    BY <1>2, <1>3, <2>1
  <2>3. ar.top <= p - l.align /\ p + l.size - 1 <= ar.limit - 1
    BY <1>2, <1>3, <1>4, <2>1
  <2>4. (p - l.align)..(p + l.size - 1) \subseteq ar.top..(ar.limit - 1)
    BY <2>1, <2>2, <2>3, Subrange
  <2> QED BY <1>1, <2>4
<1> HIDE DEF p
<1>6. mem' = [w \in Words |->
           IF w = p - 1 THEN Header(l)
           ELSE IF w - p + 1 \in 1..m THEN data[w - p + 1] ELSE mem[w]]
  BY DEF Carve, p, HeaderWords
<1>7. mem'[p - 1] = Header(l)
  <2>1. p - 1 \in (p - l.align)..(p + l.size - 1)
    BY <1>2, <1>3
  <2>2. p - 1 \in Words
    BY <1>5, <2>1
  <2> QED BY <1>6, <2>2
<1>8. LoadLayout(p)' = l
  <2>1. Header(l) = <<l.size, l.align>>
    <3>1. ASSUME NEW n \in Nat, n < FieldLimit PROVE n % FieldLimit = n
      <4>1. FieldLimit \in Nat \ {0}
        BY ChunkWordsNat
      <4> QED BY <3>1, <4>1
    <3> QED BY <1>2, <3>1 DEF Header
  <2>2. l = [size |-> l.size, align |-> l.align]
    BY <1>2 DEF Layouts
  <2>3. LoadLayout(p)' = [size |-> mem'[p - 1][1], align |-> mem'[p - 1][2]]
    BY DEF LoadLayout, HeaderWords, p, DataStart, AlignUp, Offset
  <2> QED BY <1>7, <2>1, <2>2, <2>3
<1>9. ASSUME NEW k \in 1..m PROVE mem'[p + k - 1] = data[k]
  <2> DEFINE w == p + k - 1
  <2>1. w \in (p - l.align)..(p + l.size - 1) /\ w # p - 1 /\ w - p + 1 = k
    BY <1>2, <1>3
  <2> HIDE DEF w
  <2> QED BY <1>5, <1>6, <2>1 DEF w
<1>10. ASSUME NEW w \in Words, w \notin (p - l.align)..(p + l.size - 1) PROVE mem'[w] = mem[w]
  <2>1. w \in Int
    BY DEF Words
  <2>2. w # p - 1 /\ w - p + 1 \notin 1..m
    BY <1>2, <1>3, <1>10, <2>1
  <2> QED BY <1>6, <2>2
<1>11. area' = [area EXCEPT ![t] = [top |-> p + l.size, limit |-> ar.limit]]
  BY <1>3 DEF Carve
<1>12. mem' = [w \in Words |-> mem'[w]]
  BY <1>6
<1> QED BY <1>3, <1>4, <1>8, <1>9, <1>10, <1>11, <1>12 DEF p

\* What clients read of an object.
Contents(i) == IF obj[i] = None THEN <<Junk>>
               ELSE [k \in 1..obj[i].kept |-> mem[obj[i].ptr + k - 1]]

\* data fills an object of n words, known of them the client's, in a layout.
Fills(data, n, known, l) ==
  /\ n \in 0..l.size /\ known \in 0..n
  /\ \E m \in known..l.size : DOMAIN data = 1..m
  /\ \A k \in 1..known : data[k] # Junk

\* The step of an allocation that is served from area ar.
Places(t, l, ar, i, data, n, known) ==
  /\ Fits(ar, l) /\ Fills(data, n, known, l)
  /\ Carve(t, ar, l, data)
  /\ obj' = [obj EXCEPT ![i] = Object(DataStart(ar, l), n, l.align, known)]

\* An object placed in an area is apart from the other objects and from what
\* is left of the area.
LEMMA CarveInv ==
  ASSUME ApiInv, NEW t \in Mutators, NEW l \in Requested, NEW ar \in Sources(t, l),
         NEW i \in Ids, NEW data, NEW n, NEW known, Places(t, l, ar, i, data, n, known)
  PROVE  /\ ApiInv'
         /\ \A j \in Live \ {i} : \A w \in LoadRange(obj[j].ptr) : mem'[w] = mem[w]
         /\ i \in Live' /\ Contents(i)' = [k \in 1..known |-> data[k]]
<1> USE DEF Places
<1>0. /\ n \in 0..l.size /\ known \in 0..n
      /\ \A k \in 1..known : data[k] # Junk
  BY DEF Fills
<1> PICK m \in known..l.size : DOMAIN data = 1..m
  BY DEF Fills
<1> DEFINE p == DataStart(ar, l)
           R == (p - l.align)..(p + l.size - 1)
<1>1. /\ ar \in [top : Nat, limit : Nat] /\ ar.top <= ar.limit
      /\ \A w \in ar.top..(ar.limit - 1) :
           /\ w \in Words
           /\ \A u \in Mutators \ {t} : w \notin Room(u)
           /\ \A j \in Live : w \notin LoadRange(obj[j].ptr)
  BY SourceRoom
<1>2. /\ l \in Layouts /\ l.align \in Nat \ {0} /\ l.size \in Nat /\ l.align \in Used
      /\ m \in 0..l.size /\ n \in Nat /\ n <= l.size /\ known \in Nat /\ known <= n /\ known <= m
  <2>1. l \in Layouts /\ l.align \in Nat \ {0} /\ l.size \in Nat /\ l.align \in Used
    BY PowersNat DEF Requested, Layouts
  <2> QED BY <1>0, <2>1
<1>3. /\ p \in Nat /\ p % l.align = 0
      /\ ar.top <= p - l.align /\ p + l.size <= ar.limit
      /\ area' = [area EXCEPT ![t] = [top |-> p + l.size, limit |-> ar.limit]]
      /\ LoadLayout(p)' = l
      /\ \A k \in 1..m : mem'[p + k - 1] = data[k]
      /\ \A w \in Words : w \notin R => mem'[w] = mem[w]
      /\ mem' = [w \in Words |-> mem'[w]]
  BY <1>2, CarveWrites
<1>4. obj' = [obj EXCEPT ![i] = [ptr |-> p, size |-> n, align |-> l.align, kept |-> known]]
  BY DEF Object
<1>5. taken' = taken \cup ChunksOf(ar) /\ crashed' = crashed
  BY DEF Carve
<1> HIDE DEF p
<1>6. /\ obj'[i] = [ptr |-> p, size |-> n, align |-> l.align, kept |-> known]
      /\ \A j \in Ids \ {i} : obj'[j] = obj[j]
      /\ obj' \in [Ids -> Objects \cup {None}]
  <2>1. n \in Nat /\ known \in Nat
    BY <1>2
  <2>2. [ptr |-> p, size |-> n, align |-> l.align, kept |-> known] \in Objects
    BY <1>2, <1>3, <2>1 DEF Objects
  <2> QED BY <1>4, <2>2 DEF ApiInv, ApiTypes
<1>7. R \subseteq ar.top..(ar.limit - 1)
  <2>1. ar.top \in Nat /\ ar.limit \in Nat
    BY <1>1
  <2>0. p \in Nat /\ l.align \in Nat /\ l.size \in Nat /\ ar.top <= p - l.align /\ p + l.size <= ar.limit
    BY <1>2, <1>3
  <2>2. p - l.align \in Int /\ p + l.size - 1 \in Int /\ ar.limit - 1 \in Int
    BY <2>0, <2>1
  <2>3. ar.top <= p - l.align /\ p + l.size - 1 <= ar.limit - 1
    BY <2>0, <2>1
  <2> QED BY <2>1, <2>2, <2>3, Subrange
<1>8. /\ area' \in [Mutators -> [top : Nat, limit : Nat]]
      /\ area'[t] = [top |-> p + l.size, limit |-> ar.limit]
      /\ \A u \in Mutators \ {t} : area'[u] = area[u]
  <2>1. [top |-> p + l.size, limit |-> ar.limit] \in [top : Nat, limit : Nat]
    BY <1>1, <1>2, <1>3
  <2> QED BY <1>3, <2>1 DEF ApiInv, ApiTypes
<1>9. ASSUME NEW w \in ar.top..(ar.limit - 1) PROVE w >= 0 /\ w \div ChunkWords \in ChunksOf(ar)
  BY <1>1 DEF ChunksOf
<1>10. ChunksOf(ar) \subseteq 0..(2^LogChunks - 1)
  <2>1. ASSUME NEW w \in Words PROVE w \div ChunkWords \in 0..(2^LogChunks - 1)
    <3> DEFINE q == w \div ChunkWords
               c == 2^LogChunks
    <3>1. w \in Nat /\ w < c * ChunkWords /\ c \in Nat
      BY ChunkWordsNat DEF Words
    <3>2. q \in Nat /\ q * ChunkWords <= w
      BY <3>1, ChunkWordsNat, Quotient
    <3> HIDE DEF q, c
    <3>3. q * ChunkWords < c * ChunkWords
      BY <3>1, <3>2, ChunkWordsNat
    <3>4. q < c
      BY <3>1, <3>2, <3>3, ChunkWordsNat
    <3>5. q \in 0..(c - 1)
      BY <3>1, <3>2, <3>4
    <3> QED BY <3>5 DEF q, c
  <2> QED BY <1>1, <2>1 DEF ChunksOf
<1>11. ApiTypes'
  <2>1. \A u \in Mutators : area'[u].top <= area'[u].limit
    BY <1>3, <1>8 DEF ApiInv, ApiTypes
  <2>2. taken' \subseteq 0..(2^LogChunks - 1)
    BY <1>5, <1>10 DEF ApiInv, ApiTypes
  <2> QED BY <1>3, <1>5, <1>6, <1>8, <2>1, <2>2 DEF ApiInv, ApiTypes
<1>12. Room(t)' \subseteq ar.top..(ar.limit - 1) /\ Room(t)' \cap R = {}
  <2>1. Room(t)' = (p + l.size)..(ar.limit - 1)
    BY <1>8 DEF Room
  <2>2. p + l.size \in Nat /\ ar.top <= p + l.size /\ ar.limit \in Nat /\ ar.top \in Nat
    BY <1>1, <1>2, <1>3
  <2> HIDE DEF R
  <2>3. \A w \in R : w < p + l.size
    BY <1>2, <1>3 DEF R
  <2> QED BY <2>1, <2>2, <2>3
<1>13. \A u \in Mutators \ {t} : Room(u)' = Room(u)
  BY <1>8 DEF Room
<1>14. RoomsApart'
  <2>1. ASSUME NEW u \in Mutators, NEW w \in Room(u)' PROVE InTaken(w)'
    <3>1. CASE u = t
      BY <1>5, <1>9, <1>12, <2>1, <3>1 DEF InTaken
    <3>2. CASE u # t
      BY <1>5, <1>13, <2>1, <3>2 DEF InTaken, ApiInv, RoomsApart
    <3> QED BY <3>1, <3>2
  <2>2. ASSUME NEW u \in Mutators, NEW v \in Mutators, u # v PROVE Room(u)' \cap Room(v)' = {}
    BY <1>1, <1>12, <1>13, <2>2 DEF ApiInv, RoomsApart
  <2> QED BY <2>1, <2>2 DEF RoomsApart
<1>15. ASSUME NEW j \in Live \ {i} PROVE \A w \in LoadRange(obj[j].ptr) : mem'[w] = mem[w]
  <2>1. LoadRange(obj[j].ptr) \subseteq Words
    BY DEF ApiInv, Separate
  <2>2. \A w \in LoadRange(obj[j].ptr) : w \notin R
    BY <1>1, <1>7
  <2> QED BY <1>3, <2>1, <2>2
<1>16. ASSUME NEW j \in Live \ {i}, NEW u \in Mutators PROVE LoadRange(obj[j].ptr) \cap Room(u)' = {}
  <2>1. CASE u = t
    BY <1>1, <1>12, <2>1
  <2>2. CASE u # t
    BY <1>13, <2>2 DEF ApiInv, Separate, Room
  <2> QED BY <2>1, <2>2
<1>17. obj'[i].ptr = p /\ LoadLayout(obj[i].ptr)' = l
  <2>1. obj'[i].ptr = p
    BY <1>6
  <2>2. LoadLayout(p)' = [size |-> mem'[p - HeaderWords][1], align |-> mem'[p - HeaderWords][2]]
    BY DEF LoadLayout, HeaderWords, p, DataStart, AlignUp, Offset
  <2>3. LoadLayout(obj[i].ptr)' = [size |-> mem'[p - HeaderWords][1], align |-> mem'[p - HeaderWords][2]]
    BY <2>1 DEF LoadLayout, HeaderWords
  <2> QED BY <1>3, <2>1, <2>2, <2>3
<1>18. LoadRange(obj[i].ptr)' = R
  BY <1>2, <1>17, OffsetIsAlign DEF LoadRange, Offset, HeaderWords, AlignUp
<1>19. Described(i)'
  <2>1. \A k \in 1..known : mem'[p + k - 1] # Junk
    BY <1>0, <1>2, <1>3
  <2>2. /\ l.align <= l.align /\ n <= l.size /\ known <= n
        /\ obj'[i].size = n /\ obj'[i].align = l.align /\ obj'[i].kept = known
    BY <1>2, <1>6
  <2> QED BY <1>2, <1>3, <1>17, <2>1, <2>2 DEF Described
<1>20. ASSUME NEW w \in R PROVE w >= 0 /\ InTaken(w)'
  BY <1>5, <1>7, <1>9 DEF InTaken
<1>21. \A j \in Live \ {i} : LoadRange(obj[j].ptr) \cap R = {}
  BY <1>1, <1>7
<1>22. \A u \in Mutators : R \cap Room(u)' = {}
  BY <1>1, <1>7, <1>12, <1>13
<1>23. taken \subseteq taken'
  BY <1>5
<1> HIDE DEF R
<1>24. ApiInv'
  BY <1>6, <1>11, <1>14, <1>15, <1>16, <1>18, <1>19, <1>20, <1>21, <1>22, <1>23, OthersKept
<1>25. i \in Live'
  BY <1>3, <1>6 DEF Live, None
<1>26. Contents(i)' = [k \in 1..known |-> data[k]]
  <2>1. obj'[i] # None /\ obj'[i].ptr = p /\ obj'[i].kept = known
    BY <1>6, <1>25 DEF Live
  <2>2. \A k \in 1..known : mem'[p + k - 1] = data[k]
    BY <1>2, <1>3
  <2> QED BY <2>1, <2>2 DEF Contents
<1> QED BY <1>15, <1>24, <1>25, <1>26
----------------------------------------------------------------------------
\* What clients read.

\* The words a client knows lie in its object, and none is left unwritten.
LEMMA KnownWords ==
  ASSUME ApiInv, NEW i \in Live
  PROVE  /\ obj[i].kept \in Nat /\ obj[i].kept <= obj[i].size
         /\ obj[i].size <= LoadLayout(obj[i].ptr).size /\ obj[i].size \in Nat
         /\ LoadLayout(obj[i].ptr).size \in Nat
         /\ \A k \in 1..obj[i].kept :
              /\ obj[i].ptr + k - 1 \in LoadRange(obj[i].ptr)
              /\ mem[obj[i].ptr + k - 1] # Junk
<1>1. /\ obj[i] \in Objects /\ obj[i].ptr \in Nat /\ Described(i)
      /\ LoadLayout(obj[i].ptr) \in Layouts
  BY ObjectType DEF ApiInv, ObjectsSafe, Described
<1>2. obj[i].kept <= obj[i].size /\ obj[i].size <= LoadLayout(obj[i].ptr).size
  BY <1>1 DEF Described
<1>3. obj[i].kept \in Nat /\ obj[i].size \in Nat /\ LoadLayout(obj[i].ptr).size \in Nat
  BY <1>1 DEF Objects, Layouts
<1>4. \A k \in 1..obj[i].kept : k \in 1..LoadLayout(obj[i].ptr).size
  BY <1>2, <1>3
<1>5. \A k \in 1..obj[i].kept : obj[i].ptr + k - 1 \in LoadRange(obj[i].ptr)
  BY <1>1, <1>4, RangeFacts
<1> QED BY <1>1, <1>2, <1>3, <1>5 DEF Described

\* Of a live object something else than nothing is known.
LEMMA ContentsNone ==
  ASSUME ApiInv, NEW i \in Ids
  PROVE  Contents(i) = <<Junk>> <=> i \notin Live
<1>1. ASSUME i \in Live PROVE Contents(i) # <<Junk>>
  <2>1. Contents(i) = [k \in 1..obj[i].kept |-> mem[obj[i].ptr + k - 1]]
    BY <1>1 DEF Contents, Live
  <2>2. /\ obj[i].kept \in Nat
        /\ \A k \in 1..obj[i].kept : mem[obj[i].ptr + k - 1] # Junk
    BY <1>1, KnownWords
  <2>3. SUFFICES ASSUME Contents(i) = <<Junk>> PROVE FALSE
    OBVIOUS
  <2>4. DOMAIN Contents(i) = 1..obj[i].kept
    BY <2>1
  <2>5. DOMAIN <<Junk>> = 1..1 /\ <<Junk>>[1] = Junk
    OBVIOUS
  <2>6. 1 \in 1..obj[i].kept
    BY <2>3, <2>4, <2>5
  <2>7. Contents(i)[1] # Junk
    BY <2>1, <2>2, <2>6
  <2> QED BY <2>3, <2>5, <2>7
<1> QED BY <1>1 DEF Contents, Live

\* Who reads words that were not written reads the same.
LEMMA ContentsKept ==
  ASSUME ApiInv, NEW i \in Ids, obj'[i] = obj[i],
         i \in Live => \A w \in LoadRange(obj[i].ptr) : mem'[w] = mem[w]
  PROVE  Contents(i)' = Contents(i)
<1>1. CASE i \notin Live
  BY <1>1 DEF Contents, Live
<1>2. CASE i \in Live
  <2>1. \A k \in 1..obj[i].kept : mem'[obj[i].ptr + k - 1] = mem[obj[i].ptr + k - 1]
    BY <1>2, KnownWords
  <2> QED BY <1>2, <2>1 DEF Contents, Live
<1> QED BY <1>1, <1>2

----------------------------------------------------------------------------
\* The calls.

\* A step that changes nothing but what stopped the process.
LEMMA CrashInv ==
  ASSUME ApiInv, UNCHANGED <<area, taken, mem, obj>>,
         crashed' \in {"no", "assert", "null write"}
  PROVE  ApiInv' /\ \A j \in Ids : Contents(j)' = Contents(j)
<1>1. ApiTypes' /\ RoomsApart'
  BY DEF ApiInv, ApiTypes, RoomsApart, Room, InTaken
<1>2. ObjectsSafe' /\ Separate'
  <2>1. \A i \in Ids : /\ LoadLayout(obj[i].ptr)' = LoadLayout(obj[i].ptr)
                       /\ LoadRange(obj[i].ptr)' = LoadRange(obj[i].ptr)
    BY DEF LoadLayout, LoadRange, Offset
  <2>2. Live' = Live /\ \A i \in Ids : Described(i)' <=> Described(i)
    BY <2>1 DEF Live, Described
  <2>3. ObjectsSafe'
    BY <2>1, <2>2 DEF ApiInv, ObjectsSafe, Live, InTaken
  <2>4. Separate'
    BY <2>1, <2>2 DEF ApiInv, Separate, Live
  <2> QED BY <2>3, <2>4
<1>3. \A j \in Ids : Contents(j)' = Contents(j)
  BY DEF Contents
<1> QED BY <1>1, <1>2, <1>3 DEF ApiInv

\* The plan's alloc, for whatever it writes.
LEMMA AllocInv ==
  ASSUME ApiInv, NEW t \in Mutators, NEW l \in Requested, NEW i \in Ids,
         NEW data, NEW n, NEW known, Fills(data, n, known, l),
         Alloc(t, n, l, i, data, known)
  PROVE  /\ ApiInv'
         /\ \A j \in Ids \ {i} : Contents(j)' = Contents(j)
         /\ \/ i \in Live' /\ Contents(i)' = [k \in 1..known |-> data[k]]
            \/ \A j \in Ids : Contents(j)' = Contents(j)
<1>1. PICK ar \in Sources(t, l) :
        IF Fits(ar, l)
        THEN /\ Carve(t, ar, l, data)
             /\ obj' = [obj EXCEPT ![i] = Object(DataStart(ar, l), n, l.align, known)]
        ELSE RetryFails /\ UNCHANGED obj
  BY DEF Alloc
<1>2. CASE ~Fits(ar, l)
  <2>1. ApiInv' /\ \A j \in Ids : Contents(j)' = Contents(j)
    BY <1>1, <1>2, CrashInv DEF RetryFails
  <2> QED BY <2>1
<1>3. CASE Fits(ar, l)
  <2>1. Carve(t, ar, l, data) /\ obj' = [obj EXCEPT ![i] = Object(DataStart(ar, l), n, l.align, known)]
    BY <1>1, <1>3
  <2>2. /\ ApiInv' /\ \A j \in Live \ {i} : \A w \in LoadRange(obj[j].ptr) : mem'[w] = mem[w]
        /\ i \in Live' /\ Contents(i)' = [k \in 1..known |-> data[k]]
    <3>1. Places(t, l, ar, i, data, n, known)
      BY <1>3, <2>1 DEF Places
    <3> QED BY <3>1, CarveInv
  <2>3. \A j \in Ids \ {i} : obj'[j] = obj[j]
    BY <2>1 DEF ApiInv, ApiTypes
  <2>4. \A j \in Ids \ {i} : Contents(j)' = Contents(j)
    BY <2>2, <2>3, ContentsKept
  <2> QED BY <2>2, <2>4
<1> QED BY <1>2, <1>3

\* free forgets one object and nothing else.
LEMMA FreeInv ==
  ASSUME ApiInv, NEW i \in Ids, Free(i)
  PROVE  /\ ApiInv'
         /\ \A j \in Ids \ {i} : Contents(j)' = Contents(j)
         /\ i \in Live /\ i \notin Live'
<1>1. /\ i \in Live /\ obj' = [obj EXCEPT ![i] = None]
      /\ area' = area /\ taken' = taken /\ mem' = mem /\ crashed' = crashed
  BY DEF Free, bumpVars
<1>2. obj'[i] = None /\ \A j \in Ids \ {i} : obj'[j] = obj[j]
  BY <1>1 DEF ApiInv, ApiTypes
<1>3. ApiTypes' /\ RoomsApart'
  BY <1>1 DEF ApiInv, ApiTypes, RoomsApart, Room, InTaken
<1>4. \A j \in Live \ {i}, t \in Mutators : LoadRange(obj[j].ptr) \cap Room(t)' = {}
  BY <1>1 DEF ApiInv, Separate, Room
<1>5. ApiInv'
  BY <1>1, <1>2, <1>3, <1>4, OthersKept
<1>6. \A j \in Ids \ {i} : Contents(j)' = Contents(j)
  BY <1>1, <1>2, ContentsKept
<1> QED BY <1>1, <1>2, <1>5, <1>6 DEF Live
\* What a step may do to the contents: nothing, or what ObjectStore lets a
\* call about one object do.
StoreStep ==
  \/ \A j \in Ids : Contents(j)' = Contents(j)
  \/ \E i \in Ids :
       /\ \A j \in Ids \ {i} : Contents(j)' = Contents(j)
       /\ \/ i \notin Live
          \/ i \in Live /\ i \notin Live'
          \/ /\ i \in Live /\ i \in Live'
             /\ Store!Agree(Contents(i), Contents(i)')
          \/ /\ i \in Live /\ i \in Live'
             /\ \A k \in DOMAIN Contents(i)' : Contents(i)'[k] = Blank

\* What a client writes into a new object.
LEMMA MarksFill ==
  ASSUME NEW l \in Requested, NEW n \in Nat, n <= l.size, NEW i \in Ids
  PROVE  Fills([k \in 1..n |-> Mark(i)], n, n, l)
<1>1. l.size \in Nat
  BY ChunkWordsNat DEF Requested, Layouts
<1>2. Mark(i) # Junk
  BY DEF Mark, Junk
<1>3. n \in n..l.size /\ n \in 0..l.size /\ n \in 0..n
  BY <1>1
<1>4. DOMAIN [k \in 1..n |-> Mark(i)] = 1..n
  OBVIOUS
<1>5. \A k \in 1..n : [j \in 1..n |-> Mark(i)][k] # Junk
  BY <1>2
<1> QED BY <1>3, <1>4, <1>5 DEF Fills

\* So do zeroes, as many as calloc and alloc_zeroed write.
LEMMA ZeroesFill ==
  ASSUME NEW l \in Requested, NEW n \in Nat, NEW z \in Nat, n <= z, z <= l.size
  PROVE  Fills(Zeroes(z), n, n, l)
<1>1. l.size \in Nat
  BY ChunkWordsNat DEF Requested, Layouts
<1>2. Blank # Junk
  BY DEF Blank, Mark, Junk
<1>3. z \in n..l.size /\ n \in 0..l.size /\ n \in 0..n
  BY <1>1
<1>4. DOMAIN Zeroes(z) = 1..z /\ \A k \in 1..z : Zeroes(z)[k] = Blank
  BY DEF Zeroes
<1>5. \A k \in 1..n : k \in 1..z
  BY <1>1
<1> QED BY <1>2, <1>3, <1>4, <1>5 DEF Fills

\* A new object, marked by its client.
LEMMA MakeInv ==
  ASSUME ApiInv, NEW t \in Mutators, NEW l \in Requested, NEW n \in Nat, n <= l.size, Make(t, n, l)
  PROVE  ApiInv' /\ StoreStep
<1>1. PICK i \in Ids \ Live : Alloc(t, n, l, i, [k \in 1..n |-> Mark(i)], n)
  BY DEF Make, New
<1>2. Fills([k \in 1..n |-> Mark(i)], n, n, l)
  BY MarksFill
<1>3. ApiInv' /\ \A j \in Ids \ {i} : Contents(j)' = Contents(j)
  BY <1>1, <1>2, AllocInv
<1> QED BY <1>3 DEF StoreStep

\* A new object of zeroes.
LEMMA MakeZeroedInv ==
  ASSUME ApiInv, NEW t \in Mutators, NEW l \in Requested, NEW n \in Nat, NEW z \in Nat,
         n <= z, z <= l.size, MakeZeroed(t, n, l, z)
  PROVE  ApiInv' /\ StoreStep
<1>1. PICK i \in Ids \ Live : Alloc(t, n, l, i, Zeroes(z), n)
  BY DEF MakeZeroed, New
<1>2. Fills(Zeroes(z), n, n, l)
  BY ZeroesFill
<1>3. ApiInv' /\ \A j \in Ids \ {i} : Contents(j)' = Contents(j)
  BY <1>1, <1>2, AllocInv
<1> QED BY <1>3 DEF StoreStep

\* The step of a call that leaves an object where it is, for its layout
\* suffices, with the same words or with other ones.
Refits(i, l, n, known) ==
  /\ Suffices(LoadLayout(obj[i].ptr), l)
  /\ n \in 0..l.size /\ known \in 0..n
  /\ obj' = [obj EXCEPT ![i] = Object(obj[i].ptr, n, l.align, known)]
  /\ UNCHANGED <<area, taken, crashed>>
  /\ mem' = [w \in Words |-> mem'[w]]
  /\ \A w \in Words : mem'[w] # mem[w] => w - obj[i].ptr \in 0..(l.size - 1)
  /\ \A k \in 1..known : mem'[obj[i].ptr + k - 1] # Junk

\* An object that stays where it is stays apart from all others.
LEMMA InPlaceInv ==
  ASSUME ApiInv, NEW i \in Live, NEW l \in Requested, NEW n, NEW known, Refits(i, l, n, known)
  PROVE  /\ ApiInv' /\ i \in Live'
         /\ \A j \in Ids \ {i} : Contents(j)' = Contents(j)
         /\ Contents(i)' = [k \in 1..known |-> mem'[obj[i].ptr + k - 1]]
<1> USE DEF Refits
<1> DEFINE p == obj[i].ptr
           old == LoadLayout(p)
<1>1. /\ obj[i] \in Objects /\ p \in Nat /\ i \in Ids /\ Described(i) /\ old \in Layouts
      /\ p % old.align = 0
  BY ObjectType DEF ApiInv, ObjectsSafe, Described
<1>2. /\ LoadRange(p) = (p - old.align)..(p + old.size - 1)
      /\ p - HeaderWords \in LoadRange(p)
      /\ old.align \in Nat \ {0} /\ old.size \in Nat
  BY <1>1, RangeFacts
<1>3. /\ l.size \in Nat /\ l.align \in Nat \ {0} /\ l.align \in Powers /\ l.align \in Used
      /\ old.size >= l.size /\ old.align >= l.align /\ old.align \in Powers
      /\ n \in Nat /\ n <= l.size /\ known \in Nat /\ known <= n
  <2>1. l.size \in Nat /\ l.align \in Nat \ {0} /\ l.align \in Powers /\ l.align \in Used
    BY PowersNat DEF Requested, Layouts
  <2>2. old.size >= l.size /\ old.align >= l.align /\ old.align \in Powers
    BY <1>1 DEF Suffices, Layouts
  <2> QED BY <2>1, <2>2
<1>4. /\ obj'[i] = [ptr |-> p, size |-> n, align |-> l.align, kept |-> known]
      /\ \A j \in Ids \ {i} : obj'[j] = obj[j]
      /\ obj' \in [Ids -> Objects \cup {None}]
  <2>1. [ptr |-> p, size |-> n, align |-> l.align, kept |-> known] \in Objects
    BY <1>1, <1>3 DEF Objects
  <2> QED BY <1>1, <2>1 DEF ApiInv, ApiTypes, Object
<1>5. obj'[i].ptr = p /\ obj'[i] # None
  BY <1>1, <1>4 DEF None
<1>6. ASSUME NEW w \in Words, w - p \notin 0..(l.size - 1) PROVE mem'[w] = mem[w]
  BY <1>6
<1>7. LoadRange(p) \subseteq Words
  BY DEF ApiInv, Separate
<1>8. mem'[p - HeaderWords] = mem[p - HeaderWords]
  <2>1. p - HeaderWords \in Words /\ (p - HeaderWords) - p \notin 0..(l.size - 1)
    BY <1>1, <1>2, <1>7 DEF HeaderWords
  <2> QED BY <1>6, <2>1
<1>9. LoadLayout(obj[i].ptr)' = old /\ LoadRange(obj[i].ptr)' = LoadRange(p)
  BY <1>5, <1>8 DEF LoadLayout, LoadRange, Offset
<1>10. Described(i)'
  <2>1. p % l.align = 0
    BY <1>1, <1>3, AlignedLess
  <2>2. /\ obj'[i].size = n /\ obj'[i].align = l.align /\ obj'[i].kept = known
        /\ n <= old.size /\ l.align <= old.align
    BY <1>2, <1>3, <1>4
  <2> QED BY <1>1, <1>3, <1>5, <1>9, <2>2 DEF Described
<1>11. ASSUME NEW j \in Live \ {i} PROVE \A w \in LoadRange(obj[j].ptr) : mem'[w] = mem[w]
  <2>1. LoadRange(obj[j].ptr) \subseteq Words /\ LoadRange(obj[j].ptr) \cap LoadRange(p) = {}
    BY DEF ApiInv, Separate
  <2>2. ASSUME NEW w \in LoadRange(obj[j].ptr) PROVE w - p \notin 0..(l.size - 1)
    <3>1. w \in Int /\ w \notin (p - old.align)..(p + old.size - 1)
      BY <1>2, <2>1 DEF Words
    <3>2. p \in Nat /\ old.align \in Nat /\ old.size \in Nat /\ l.size \in Nat /\ l.size <= old.size
      BY <1>1, <1>2, <1>3
    <3> HIDE DEF p, old
    <3> QED BY <3>1, <3>2
  <2> QED BY <1>6, <2>1, <2>2
<1>12. ApiTypes' /\ RoomsApart'
  BY <1>4 DEF ApiInv, ApiTypes, RoomsApart, Room, InTaken
<1>13. \A j \in Live, t \in Mutators : LoadRange(obj[j].ptr) \cap Room(t)' = {}
  BY DEF ApiInv, Separate, Room
<1>14. \A w \in LoadRange(p) : w >= 0 /\ InTaken(w)'
  BY DEF ApiInv, ObjectsSafe, InTaken
<1>15. \A j \in Live \ {i} : LoadRange(obj[j].ptr) \cap LoadRange(p) = {}
  BY DEF ApiInv, Separate
<1> HIDE DEF p, old
<1>16. ApiInv'
  BY <1>1, <1>4, <1>9, <1>10, <1>11, <1>12, <1>13, <1>14, <1>15, OthersKept DEF p
<1>17. \A j \in Ids \ {i} : Contents(j)' = Contents(j)
  BY <1>4, <1>11, ContentsKept
<1>18. Contents(i)' = [k \in 1..known |-> mem'[p + k - 1]]
  BY <1>4, <1>5 DEF Contents
<1> QED BY <1>1, <1>5, <1>16, <1>17, <1>18 DEF Live, p
----------------------------------------------------------------------------
\* Resizing.

\* What is known of a resized object was known before, and is kept.
LEMMA StillKnownFacts ==
  ASSUME ApiInv, NEW i \in Live, NEW n \in Nat
  PROVE  /\ StillKnown(i, n) \in 0..n /\ StillKnown(i, n) <= obj[i].kept
         /\ obj[i].kept <= LoadLayout(obj[i].ptr).size
<1>1. obj[i].kept \in Nat /\ obj[i].kept <= LoadLayout(obj[i].ptr).size
  BY KnownWords
<1>2. StillKnown(i, n) = IF obj[i].kept <= n THEN obj[i].kept ELSE n
  BY <1>1, MinOfTwo DEF StillKnown
<1> QED BY <1>1, <1>2

\* What realloc copies covers what the client still knows.
LEMMA CopyFills ==
  ASSUME ApiInv, NEW i \in Live, NEW l \in Requested, NEW n \in Nat, n <= l.size
  PROVE  /\ Fills(Copy(i, l), n, StillKnown(i, n), l)
         /\ \A k \in 1..StillKnown(i, n) : Copy(i, l)[k] = mem[obj[i].ptr + k - 1]
<1> DEFINE old == LoadLayout(obj[i].ptr)
           m == CopyLength(old, l)
           known == StillKnown(i, n)
<1>1. known \in 0..n /\ known <= obj[i].kept /\ obj[i].kept <= old.size
  BY StillKnownFacts
<1>2. l.size \in Nat /\ old.size \in Nat /\ obj[i].kept \in Nat
  BY KnownWords DEF Requested, Layouts
<1>3. m = IF old.size <= l.size THEN old.size ELSE l.size
  BY <1>2, MinOfTwo DEF CopyLength
<1>4. Copy(i, l) = [k \in 1..m |-> mem[obj[i].ptr + k - 1]]
  BY DEF Copy
<1>5. \A k \in 1..obj[i].kept : mem[obj[i].ptr + k - 1] # Junk
  BY KnownWords
<1> HIDE DEF m, known
<1>6. m \in Nat /\ m <= l.size /\ known <= m /\ known \in Nat
  BY <1>1, <1>2, <1>3
<1>7. \A k \in 1..known : k \in 1..m /\ k \in 1..obj[i].kept
  BY <1>1, <1>2, <1>6
<1>8. \A k \in 1..known : Copy(i, l)[k] = mem[obj[i].ptr + k - 1]
  BY <1>4, <1>7
<1>9. \A k \in 1..known : Copy(i, l)[k] # Junk
  BY <1>5, <1>7, <1>8
<1>10. DOMAIN Copy(i, l) = 1..m /\ m \in known..l.size /\ n \in 0..l.size
  BY <1>2, <1>4, <1>6
<1>11. known \in 0..n
  BY <1>1
<1> QED BY <1>8, <1>9, <1>10, <1>11 DEF Fills, known

\* A sequence that agrees with what could be read before.
LEMMA ReadsAgree ==
  ASSUME ApiInv, NEW i \in Live, NEW known \in Nat, known <= obj[i].kept, NEW word,
         Contents(i)' = [k \in 1..known |-> word[k]],
         \A k \in 1..known : word[k] = mem[obj[i].ptr + k - 1]
  PROVE  Store!Agree(Contents(i), Contents(i)')
<1>1. Contents(i) = [k \in 1..obj[i].kept |-> mem[obj[i].ptr + k - 1]]
  BY DEF Contents, Live
<1>2. \A k \in 1..known : Contents(i)'[k] = word[k]
  OBVIOUS
<1>3. DOMAIN Contents(i)' = 1..known /\ obj[i].kept \in Nat
  BY KnownWords
<1> HIDE DEF Contents
<1>4. ASSUME NEW k \in DOMAIN Contents(i) \cap DOMAIN Contents(i)'
      PROVE  Contents(i)[k] = Contents(i)'[k]
  <2>1. k \in 1..known /\ k \in 1..obj[i].kept
    BY <1>1, <1>3
  <2> QED BY <1>1, <1>2, <2>1
<1> QED BY <1>4 DEF Store!Agree

\* realloc, in place or not, keeps of the contents what fits.
LEMMA ReallocInv ==
  ASSUME ApiInv, NEW t \in Mutators, NEW i \in Live, NEW l \in Requested, NEW n \in Nat, n <= l.size,
         MutatorRealloc(t, i, n, l)
  PROVE  ApiInv' /\ StoreStep
<1> DEFINE known == StillKnown(i, n)
           word == [k \in 1..known |-> mem[obj[i].ptr + k - 1]]
<1>1. /\ known \in 0..n /\ known \in Nat /\ known <= obj[i].kept
      /\ i \in Ids /\ obj[i].kept \in Nat /\ l.size \in Nat
  BY StillKnownFacts, ObjectType, KnownWords DEF Requested, Layouts
<1>2. \A k \in 1..known : word[k] = mem[obj[i].ptr + k - 1]
  OBVIOUS
<1> HIDE DEF word
<1>5. Contents(i)' = [k \in 1..known |-> word[k]] => Store!Agree(Contents(i), Contents(i)')
  <2> HIDE DEF known
  <2> QED BY <1>1, <1>2, ReadsAgree
<1>3. CASE ReallocInPlace(i, n, l)
  <2>1. /\ Suffices(LoadLayout(obj[i].ptr), l)
        /\ obj' = [obj EXCEPT ![i] = Object(obj[i].ptr, n, l.align, known)]
        /\ area' = area /\ taken' = taken /\ mem' = mem /\ crashed' = crashed
    BY <1>3 DEF ReallocInPlace, bumpVars
  <2>2. \A k \in 1..obj[i].kept : mem[obj[i].ptr + k - 1] # Junk
    BY KnownWords
  <2> HIDE DEF known
  <2>3. \A k \in 1..known : mem'[obj[i].ptr + k - 1] # Junk
    BY <1>1, <2>1, <2>2
  <2>4. mem' = [w \in Words |-> mem'[w]]
    BY <2>1 DEF ApiInv, ApiTypes
  <2>5. n \in 0..l.size
    BY <1>1
  <2>6. /\ ApiInv' /\ i \in Live'
        /\ \A j \in Ids \ {i} : Contents(j)' = Contents(j)
        /\ Contents(i)' = [k \in 1..known |-> mem'[obj[i].ptr + k - 1]]
    <3>1. Refits(i, l, n, known)
      BY <1>1, <2>1, <2>3, <2>4, <2>5 DEF Refits
    <3> QED BY <3>1, InPlaceInv
  <2>7. Contents(i)' = [k \in 1..known |-> word[k]]
    BY <1>2, <2>1, <2>6
  <2>8. Store!Agree(Contents(i), Contents(i)')
    BY <1>5, <2>7
  <2> QED BY <1>1, <2>6, <2>8 DEF StoreStep
<1>4. CASE ReallocMoves(t, i, n, l)
  <2>1. Alloc(t, n, l, i, Copy(i, l), known)
    BY <1>4 DEF ReallocMoves
  <2>2. /\ Fills(Copy(i, l), n, known, l)
        /\ \A k \in 1..known : Copy(i, l)[k] = mem[obj[i].ptr + k - 1]
    BY CopyFills
  <2> HIDE DEF known
  <2>3. /\ ApiInv'
        /\ \A j \in Ids \ {i} : Contents(j)' = Contents(j)
        /\ \/ i \in Live' /\ Contents(i)' = [k \in 1..known |-> Copy(i, l)[k]]
           \/ \A j \in Ids : Contents(j)' = Contents(j)
    BY <1>1, <2>1, <2>2, AllocInv
  <2>4. CASE i \in Live' /\ Contents(i)' = [k \in 1..known |-> Copy(i, l)[k]]
    <3>1. Contents(i)' = [k \in 1..known |-> word[k]]
      BY <1>2, <2>2, <2>4
    <3>2. Store!Agree(Contents(i), Contents(i)')
      BY <1>5, <3>1
    <3> QED BY <1>1, <2>3, <2>4, <3>2 DEF StoreStep
  <2> QED BY <2>3, <2>4 DEF StoreStep
<1> QED BY <1>3, <1>4 DEF MutatorRealloc

\* realloc_zeroed leaves zeroes.
LEMMA GrowZeroedInv ==
  ASSUME ApiInv, NEW t \in Mutators, NEW i \in Live, NEW n \in Sizes,
         LET l == FixLayout(n, obj[i].align)
         IN  IF Suffices(LoadLayout(obj[i].ptr), l)
             THEN /\ mem' = [w \in Words |-> IF w - obj[i].ptr \in 0..(l.size - 1) THEN Blank ELSE mem[w]]
                  /\ obj' = [obj EXCEPT ![i] = Object(@.ptr, n, l.align, n)]
                  /\ UNCHANGED <<area, taken, crashed>>
             ELSE New(t, n, l, i, Zeroes(l.size))
  PROVE  ApiInv' /\ StoreStep
<1> DEFINE l == FixLayout(n, obj[i].align)
           p == obj[i].ptr
<1>1. /\ obj[i] \in Objects /\ p \in Nat /\ i \in Ids /\ obj[i].align \in Used /\ LoadLayout(p) \in Layouts
  BY ObjectType DEF ApiInv, ObjectsSafe, Described
<1>2. Max({obj[i].align, MinAlign}) \in Used
  <2>1. obj[i].align >= MinAlign /\ obj[i].align \in Nat
    BY <1>1, UsedType DEF Used
  <2> QED BY <1>1, <2>1, ChunkWordsNat, MaxOfTwo
<1>3. l \in Requested /\ n <= l.size /\ n \in Nat
  BY <1>2, FixRequested, ApiAssumption
<1>4. l.size \in Nat /\ Blank # Junk
  BY <1>3 DEF Requested, Layouts, Blank, Mark, Junk
<1>5. CASE Suffices(LoadLayout(p), l)
  <2>1. /\ mem' = [w \in Words |-> IF w - p \in 0..(l.size - 1) THEN Blank ELSE mem[w]]
        /\ obj' = [obj EXCEPT ![i] = Object(obj[i].ptr, n, l.align, n)]
        /\ area' = area /\ taken' = taken /\ crashed' = crashed
    BY <1>5
  <2> HIDE DEF l
  <2>2. mem' = [w \in Words |-> mem'[w]]
    BY <2>1
  <2>3. \A w \in Words : mem'[w] # mem[w] => w - p \in 0..(l.size - 1)
    BY <2>1
  <2>4. \A k \in 1..l.size : p + k - 1 \in Words
    <3>1. LoadRange(p) \subseteq Words /\ \A k \in 1..LoadLayout(p).size : p + k - 1 \in LoadRange(p)
      BY <1>1, RangeFacts DEF ApiInv, Separate
    <3>2. LoadLayout(p).size >= l.size /\ LoadLayout(p).size \in Nat
      BY <1>1, <1>5 DEF Suffices, Layouts
    <3>3. \A k \in 1..l.size : k \in 1..LoadLayout(p).size
      BY <1>4, <3>2
    <3> QED BY <3>1, <3>3
  <2>5. \A k \in 1..n : mem'[p + k - 1] = Blank
    <3>1. ASSUME NEW k \in 1..n
          PROVE  p + k - 1 \in Words /\ (p + k - 1) - p \in 0..(l.size - 1)
      <4>1. k \in 1..l.size
        BY <1>3, <1>4
      <4> QED BY <1>1, <1>4, <2>4, <4>1
    <3> QED BY <2>1, <3>1
  <2>6. n \in 0..l.size /\ n \in 0..n /\ \A k \in 1..n : mem'[p + k - 1] # Junk
    BY <1>3, <1>4, <2>5
  <2>7. /\ ApiInv' /\ i \in Live'
        /\ \A j \in Ids \ {i} : Contents(j)' = Contents(j)
        /\ Contents(i)' = [k \in 1..n |-> mem'[p + k - 1]]
    <3>1. Refits(i, l, n, n)
      BY <1>5, <2>1, <2>2, <2>3, <2>6 DEF Refits
    <3> QED BY <1>3, <3>1, InPlaceInv
  <2>8. \A k \in DOMAIN Contents(i)' : Contents(i)'[k] = Blank
    BY <2>5, <2>7
  <2> QED BY <1>1, <2>7, <2>8 DEF StoreStep
<1>6. CASE ~Suffices(LoadLayout(p), l)
  <2>1. Alloc(t, n, l, i, Zeroes(l.size), n)
    BY <1>6 DEF New
  <2> HIDE DEF l
  <2>2. Fills(Zeroes(l.size), n, n, l)
    BY <1>3, <1>4, ZeroesFill
  <2>3. /\ ApiInv'
        /\ \A j \in Ids \ {i} : Contents(j)' = Contents(j)
        /\ \/ i \in Live' /\ Contents(i)' = [k \in 1..n |-> Zeroes(l.size)[k]]
           \/ \A j \in Ids : Contents(j)' = Contents(j)
    BY <1>1, <1>3, <2>1, <2>2, AllocInv
  <2>4. CASE i \in Live' /\ Contents(i)' = [k \in 1..n |-> Zeroes(l.size)[k]]
    <3>1. \A k \in 1..n : Zeroes(l.size)[k] = Blank
      <4>1. \A k \in 1..n : k \in 1..l.size
        BY <1>3, <1>4
      <4> QED BY <4>1 DEF Zeroes
    <3>2. \A k \in DOMAIN Contents(i)' : Contents(i)'[k] = Blank
      BY <2>4, <3>1
    <3> QED BY <1>1, <2>3, <2>4, <3>2 DEF StoreStep
  <2> QED BY <2>3, <2>4 DEF StoreStep
<1> QED BY <1>5, <1>6
----------------------------------------------------------------------------
\* The actions.

\* free and dealloc.
LEMMA FreeStep == ASSUME ApiInv, NEW i \in Ids, Free(i) PROVE ApiInv' /\ StoreStep
<1>1. /\ ApiInv' /\ i \in Live /\ i \notin Live'
      /\ \A j \in Ids \ {i} : Contents(j)' = Contents(j)
  BY FreeInv
<1> QED BY <1>1 DEF StoreStep

\* malloc, posix_memalign and the like, calloc.
LEMMA MallocStep ==
  ASSUME ApiInv, NEW t \in Mutators, Malloc(t) \/ Memalign(t) \/ Calloc(t) \/ CallocRefused(t)
  PROVE  ApiInv' /\ StoreStep
<1>1. CASE Malloc(t)
  <2>1. PICK n \in Sizes : Make(t, n, MallocLayout(n, MinAlign))
    BY <1>1 DEF Malloc
  <2>2. n \in Nat /\ MallocLayout(n, MinAlign) \in Requested /\ n <= MallocLayout(n, MinAlign).size
    BY ApiAssumption, UsedAligns, MallocRequested
  <2> QED BY <2>1, <2>2, MakeInv
<1>2. CASE Memalign(t)
  <2>1. PICK r \in MemalignRequests : Make(t, r[1], MallocLayout(r[1], Max({r[2], MinAlign})))
    BY <1>2 DEF Memalign
  <2> DEFINE n == r[1]
             b == Max({r[2], MinAlign})
  <2>2. n \in Sizes /\ b \in Used
    BY UsedAligns DEF MemalignRequests, IsPowerOfTwo
  <2> HIDE DEF b
  <2>3. n \in Nat /\ MallocLayout(n, b) \in Requested /\ n <= MallocLayout(n, b).size
    BY <2>2, ApiAssumption, MallocRequested
  <2> QED BY <2>1, <2>3, MakeInv DEF b
<1>3. CASE Calloc(t)
  <2>1. PICK n \in Sizes : MakeZeroed(t, n, MallocLayout(n, MinAlign), n)
    BY <1>3 DEF Calloc
  <2>2. /\ n \in Nat /\ n <= n
        /\ MallocLayout(n, MinAlign) \in Requested /\ n <= MallocLayout(n, MinAlign).size
    BY ApiAssumption, UsedAligns, MallocRequested
  <2> QED BY <2>1, <2>2, MakeZeroedInv
<1>4. CASE CallocRefused(t)
  <2>1. ApiInv' /\ \A j \in Ids : Contents(j)' = Contents(j)
    BY <1>4, CrashInv DEF CallocRefused
  <2> QED BY <2>1 DEF StoreStep
<1> QED BY <1>1, <1>2, <1>3, <1>4

\* alloc and alloc_zeroed of the Rust interface.
LEMMA RustStep ==
  ASSUME ApiInv, NEW t \in Mutators, RustAlloc(t) \/ RustAllocZeroed(t)
  PROVE  ApiInv' /\ StoreStep
<1>1. ASSUME NEW n \in Sizes, NEW a \in RustAlignments
      PROVE  n \in Nat /\ FixLayout(n, a) \in Requested /\ n <= FixLayout(n, a).size
  <2>1. Max({a, MinAlign}) \in Used
    BY UsedAligns DEF RustAlignments
  <2> QED BY <2>1, ApiAssumption, FixRequested
<1>2. CASE RustAlloc(t)
  <2>1. PICK n \in Sizes, a \in RustAlignments : Make(t, n, FixLayout(n, a))
    BY <1>2 DEF RustAlloc
  <2> QED BY <1>1, <2>1, MakeInv
<1>3. CASE RustAllocZeroed(t)
  <2>1. PICK n \in Sizes, a \in RustAlignments :
          MakeZeroed(t, n, FixLayout(n, a), FixLayout(n, a).size)
    BY <1>3 DEF RustAllocZeroed
  <2>2. FixLayout(n, a).size \in Nat /\ FixLayout(n, a).size <= FixLayout(n, a).size
    BY <1>1 DEF Requested, Layouts
  <2> QED BY <1>1, <2>1, <2>2, MakeZeroedInv
<1> QED BY <1>2, <1>3

\* realloc, grow and shrink.
LEMMA ResizeStep ==
  ASSUME ApiInv, NEW t \in Mutators, NEW i \in Ids, Realloc(t, i) \/ RustRealloc(t, i) \/ GrowZeroed(t, i)
  PROVE  ApiInv' /\ StoreStep
<1>1. CASE Free(i)
  BY <1>1, FreeStep
<1>2. CASE Realloc(t, i) /\ ~Free(i)
  <2>1. /\ i \in Live
        /\ \E n \in Sizes : MutatorRealloc(t, i, n, Layout(AlignUp(n, MinAlign), MinAlign))
    BY <1>2 DEF Realloc
  <2>2. PICK n \in Sizes : MutatorRealloc(t, i, n, Layout(AlignUp(n, MinAlign), MinAlign))
    BY <2>1
  <2> DEFINE l == Layout(AlignUp(n, MinAlign), MinAlign)
  <2>3. l \in Requested /\ n <= l.size /\ n \in Nat
    BY ReallocRequested, ApiAssumption
  <2> HIDE DEF l
  <2>4. MutatorRealloc(t, i, n, l)
    BY <2>2 DEF l
  <2> QED BY <2>1, <2>3, <2>4, ReallocInv
<1>3. CASE RustRealloc(t, i)
  <2>1. PICK n \in Sizes, a \in RustAlignments \cup {obj[i].align} : MutatorRealloc(t, i, n, FixLayout(n, a))
    BY <1>3 DEF RustRealloc
  <2>2. i \in Live /\ n \in Nat
    BY <1>3, ApiAssumption DEF RustRealloc
  <2>3. Max({a, MinAlign}) \in Used
    <3>1. CASE a \in RustAlignments
      BY <3>1, UsedAligns DEF RustAlignments
    <3>2. CASE a = obj[i].align
      <4>1. a \in Used /\ a >= MinAlign /\ a \in Nat
        BY <2>2, <3>2, UsedType DEF ApiInv, ObjectsSafe, Described, Used
      <4> QED BY <4>1, ChunkWordsNat, MaxOfTwo
    <3> QED BY <3>1, <3>2
  <2>4. FixLayout(n, a) \in Requested /\ n <= FixLayout(n, a).size
    BY <2>3, FixRequested
  <2> QED BY <2>1, <2>2, <2>4, ReallocInv
<1>4. CASE GrowZeroed(t, i)
  <2>1. i \in Live
    BY <1>4 DEF GrowZeroed
  <2> QED BY <1>4, <2>1, GrowZeroedInv DEF GrowZeroed
<1> QED BY <1>1, <1>2, <1>3, <1>4

\* Nothing is acquired and nothing live at first.
LEMMA ApiInitInv == ApiInit => ApiInv
<1> SUFFICES ASSUME ApiInit PROVE ApiInv
  OBVIOUS
<1>1. \A i \in Ids : obj[i] = None
  BY DEF ApiInit
<1>2. Live = {}
  BY <1>1 DEF Live
<1>3. ApiTypes
  BY DEF ApiInit, BumpInit, ApiTypes
<1>4. \A t \in Mutators : Room(t) = {}
  BY DEF ApiInit, BumpInit, Room
<1> QED BY <1>2, <1>3, <1>4 DEF ApiInv, RoomsApart, ObjectsSafe, Separate

\* Every call keeps the invariant and does to the contents what it may.
LEMMA ApiNextInv == ASSUME ApiInv, [ApiNext]_apiVars PROVE ApiInv' /\ StoreStep
<1>1. CASE UNCHANGED apiVars
  <2>1. UNCHANGED <<area, taken, mem, obj>> /\ crashed' \in {"no", "assert", "null write"}
    BY <1>1 DEF apiVars, ApiInv, ApiTypes
  <2>2. ApiInv' /\ \A j \in Ids : Contents(j)' = Contents(j)
    BY <2>1, CrashInv
  <2> QED BY <2>2 DEF StoreStep
<1>2. CASE \E i \in Ids : Free(i)
  BY <1>2, FreeStep
<1>3. ASSUME NEW t \in Mutators, Malloc(t) \/ Memalign(t) \/ Calloc(t) \/ CallocRefused(t)
      PROVE  ApiInv' /\ StoreStep
  BY <1>3, MallocStep
<1>4. ASSUME NEW t \in Mutators, RustAlloc(t) \/ RustAllocZeroed(t)
      PROVE  ApiInv' /\ StoreStep
  BY <1>4, RustStep
<1>5. ASSUME NEW t \in Mutators, NEW i \in Ids, Realloc(t, i) \/ RustRealloc(t, i) \/ GrowZeroed(t, i)
      PROVE  ApiInv' /\ StoreStep
  BY <1>5, ResizeStep
<1> QED BY <1>1, <1>2, <1>3, <1>4, <1>5 DEF ApiNext

\* The invariant holds throughout.
LEMMA ApiSafety == ApiSpec => []ApiInv
<1>1. ApiInv /\ [ApiNext]_apiVars => ApiInv'
  BY ApiNextInv
<1> QED BY <1>1, ApiInitInv, PTL DEF ApiSpec

----------------------------------------------------------------------------
\* What follows.

\* What load_layout finds covers the object, and objects, their headers and
\* areas are apart, after any calls of both interfaces by any thread on any
\* object (allocation_area.rs, mutator.rs).
THEOREM ObjectsStayApart == ApiSpec => []ObjectsApart
<1>1. ASSUME ApiInv PROVE ObjectsApart
  <2>1. ApiTypeOK
    <3>1. ASSUME NEW t \in Mutators PROVE area[t].top \in 0..area[t].limit
      <4>1. area[t].top \in Nat /\ area[t].limit \in Nat /\ area[t].top <= area[t].limit
        BY <1>1 DEF ApiInv, ApiTypes
      <4> QED BY <4>1
    <3>2. \A t \in Mutators : \A c \in ChunksOf(area[t]) : c \in taken
      BY <1>1 DEF ApiInv, RoomsApart, Room, InTaken, ChunksOf
    <3>3. taken \subseteq 0..(2^LogChunks - 1) /\ DOMAIN mem = Words
          /\ crashed \in {"no", "assert", "null write"}
      BY <1>1 DEF ApiInv, ApiTypes
    <3> QED BY <3>1, <3>2, <3>3 DEF ApiTypeOK
  <2>2. LayoutKnown
    <3>1. ASSUME NEW i \in Live
          PROVE  LET l == LoadLayout(obj[i].ptr)
                 IN  /\ l.size >= obj[i].size /\ l.align >= obj[i].align
                     /\ obj[i].ptr % obj[i].align = 0
      <4> DEFINE l == LoadLayout(obj[i].ptr)
      <4>1. /\ Described(i) /\ obj[i] \in Objects /\ obj[i].ptr \in Nat
        BY <1>1, ObjectType DEF ApiInv, ObjectsSafe
      <4>2. /\ l \in Layouts /\ obj[i].ptr % l.align = 0
            /\ obj[i].size <= l.size /\ obj[i].align <= l.align /\ obj[i].align \in Used
        BY <4>1 DEF Described
      <4>3. l.align \in Powers /\ obj[i].align \in Powers /\ l.align \in Nat /\ l.size \in Nat
        BY <4>2, PowersNat, UsedType DEF Layouts
      <4>4. obj[i].ptr % obj[i].align = 0
        BY <4>1, <4>2, <4>3, AlignedLess
      <4>5. obj[i].size \in Nat /\ obj[i].align \in Nat
        BY <4>1 DEF Objects
      <4> QED BY <4>2, <4>3, <4>4, <4>5
    <3> QED BY <3>1 DEF LayoutKnown
  <2> QED BY <1>1, <2>1, <2>2 DEF ObjectsApart, ApiInv
<1> QED BY <1>1, ApiSafety, PTL
\* Clients know nothing of names they hold no object of, and only of those.
NoneKnown == \A i \in Ids : Contents(i) = <<Junk>> <=> i \notin Live

\* Read through the pointers, the memory is the store clients are promised:
\* nothing but a call about an object changes what they know of it, and what
\* fits is kept (malloc_api.rs, rust_alloc.rs, Mutator::realloc).
THEOREM MallocImplementsStore == ApiSpec => ImplementsStore
<1> DEFINE view == [i \in Ids |-> IF obj[i] = None THEN <<Junk>>
                                  ELSE [k \in 1..obj[i].kept |-> mem[obj[i].ptr + k - 1]]]
<1>1. ApiInv => NoneKnown
  BY ContentsNone DEF NoneKnown
<1>2. ApiInit => Store!Init
  <2> SUFFICES ASSUME ApiInit PROVE view = [i \in Ids |-> <<Junk>>]
    BY DEF Store!Init
  <2> QED BY DEF ApiInit
<1>3. ApiInv /\ [ApiNext]_apiVars => ApiInv' /\ StoreStep
  BY ApiNextInv
<1>4. NoneKnown /\ NoneKnown' /\ StoreStep => [Store!Next]_view
  <2> SUFFICES ASSUME NoneKnown, NoneKnown', StoreStep PROVE Store!Next \/ view' = view
    OBVIOUS
  <2>1. \A j \in Ids : view[j] = Contents(j) /\ view'[j] = Contents(j)'
    BY DEF Contents
  <2>2. CASE \A j \in Ids : Contents(j)' = Contents(j)
    BY <2>2 DEF Contents
  <2>3. ASSUME NEW i \in Ids,
               \A j \in Ids \ {i} : Contents(j)' = Contents(j),
               \/ i \notin Live
               \/ i \in Live /\ i \notin Live'
               \/ /\ i \in Live /\ i \in Live'
                  /\ Store!Agree(Contents(i), Contents(i)')
               \/ /\ i \in Live /\ i \in Live'
                  /\ \A k \in DOMAIN Contents(i)' : Contents(i)'[k] = Blank
        PROVE  Store!Next
    <3>1. \A j \in Ids \ {i} : view'[j] = view[j]
      <4> HIDE DEF view
      <4> QED BY <2>1, <2>3
    <3>2. (view[i] = <<Junk>> <=> i \notin Live) /\ (view'[i] = <<Junk>> <=> i \notin Live')
      BY <2>1 DEF NoneKnown
    <3>3. Store!Create(i) \/ Store!Free(i) \/ Store!Resize(i) \/ Store!Clear(i)
      <4>1. CASE i \notin Live
        BY <3>2, <4>1 DEF Store!Create
      <4>2. CASE i \in Live /\ i \notin Live'
        BY <3>2, <4>2 DEF Store!Free
      <4>3. CASE i \in Live /\ i \in Live' /\ Store!Agree(Contents(i), Contents(i)')
        <5>1. Store!Agree(view[i], view'[i])
          BY <2>1, <4>3 DEF Store!Agree
        <5> QED BY <3>2, <4>3, <5>1 DEF Store!Resize
      <4>4. CASE /\ i \in Live /\ i \in Live'
                 /\ \A k \in DOMAIN Contents(i)' : Contents(i)'[k] = Blank
        <5>1. \A k \in DOMAIN view'[i] : view'[i][k] = Blank
          BY <2>1, <4>4
        <5> QED BY <3>2, <4>4, <5>1 DEF Store!Clear
      <4> QED BY <2>3, <4>1, <4>2, <4>3, <4>4
    <3> QED BY <3>1, <3>3 DEF Store!Next
  <2> QED BY <2>2, <2>3 DEF StoreStep
<1> HIDE DEF view
<1> QED BY <1>1, <1>2, <1>3, <1>4, ApiSafety, PTL DEF ApiSpec, ImplementsStore, Store!Spec, view
----------------------------------------------------------------------------
\* The area alloc_slow gets has room.

\* No zero-sized layout is aligned above two chunks: the area for it would be
\* two chunks long, and its header alone takes as much as its alignment.
ZeroSizedFit == 0 \in Sizes => \A a \in RustAlignments \cup {MinAlign} : a <= 2 * ChunkWords

\* A request the page resource serves does not fail the assertion.
LEMMA AllocFits ==
  ASSUME NEW t \in Mutators, NEW l \in Requested, l.size # 0 \/ l.align <= 2 * ChunkWords,
         NEW n, NEW i, NEW data, NEW known, Alloc(t, n, l, i, data, known)
  PROVE  crashed' = crashed
<1>1. PICK ar \in Sources(t, l) :
        IF Fits(ar, l)
        THEN /\ Carve(t, ar, l, data)
             /\ obj' = [obj EXCEPT ![i] = Object(DataStart(ar, l), n, l.align, known)]
        ELSE RetryFails /\ UNCHANGED obj
  BY DEF Alloc
<1>2. Fits(ar, l)
  BY RefillRoom DEF Sources
<1> QED BY <1>1, <1>2 DEF Carve

\* Layouts of the C interface are never empty.
LEMMA MallocFits == ASSUME NEW n \in Sizes, NEW a \in Used PROVE MallocLayout(n, a).size # 0
<1>1. n \in Nat /\ MinAlign \in Nat \ {0} /\ Max({n, MinAlign}) = IF n >= MinAlign THEN n ELSE MinAlign
  BY ApiAssumption, ChunkWordsNat, MaxOfTwo
<1> DEFINE m == Max({n, MinAlign})
<1>2. m \in Nat \ {0} /\ a \in Nat \ {0}
  BY <1>1, UsedType
<1> HIDE DEF m
<1>3. m <= AlignUp(m, a) /\ AlignUp(m, a) \in Nat
  BY <1>2, AlignedUp
<1> QED BY <1>2, <1>3 DEF MallocLayout, Layout, m

\* Those of the Rust interface are not aligned too much when they are empty.
LEMMA FixFits ==
  ASSUME ZeroSizedFit, NEW n \in Sizes, NEW a \in RustAlignments
  PROVE  FixLayout(n, a).size # 0 \/ FixLayout(n, a).align <= 2 * ChunkWords
<1> DEFINE b == Max({a, MinAlign})
<1>1. n \in Nat /\ a \in Nat /\ b \in Used /\ b = IF a >= MinAlign THEN a ELSE MinAlign
  BY ApiAssumption, ChunkWordsNat, MaxOfTwo, UsedAligns, PowersNat DEF RustAlignments
<1>2. n = 0 => b <= 2 * ChunkWords
  BY <1>1 DEF ZeroSizedFit
<1> HIDE DEF b
<1>3. n <= AlignUp(n, b) /\ AlignUp(n, b) \in Nat
  BY <1>1, UsedType, AlignedUp
<1> QED BY <1>1, <1>2, <1>3 DEF FixLayout, Layout, b

\* An object resized to nothing keeps its place and its alignment.
LEMMA OwnFits ==
  ASSUME ApiInv, NEW i \in Live, NEW n \in Sizes
  PROVE  LET l == FixLayout(n, obj[i].align)
         IN  l \in Requested /\ (l.size = 0 => Suffices(LoadLayout(obj[i].ptr), l))
<1> DEFINE b == obj[i].align
<1>1. /\ LoadLayout(obj[i].ptr) \in Layouts /\ b \in Used
      /\ b <= LoadLayout(obj[i].ptr).align
  BY DEF ApiInv, ObjectsSafe, Described
<1>2. b \in Nat \ {0} /\ b >= MinAlign /\ b = Max({b, MinAlign})
  BY <1>1, UsedType, ChunkWordsNat, MaxOfTwo DEF Used
<1>3. FixLayout(n, b) \in Requested /\ FixLayout(n, b).align = b
  BY <1>1, <1>2, FixRequested DEF FixLayout, Layout
<1>4. LoadLayout(obj[i].ptr).size >= 0 /\ LoadLayout(obj[i].ptr).align >= b
  BY <1>1, <1>2, PowersNat DEF Layouts
<1> QED BY <1>3, <1>4 DEF Suffices

\* Nor does one that may be served in place.
LEMMA MutatorReallocFits ==
  ASSUME NEW t \in Mutators, NEW i \in Live, NEW n, NEW l \in Requested,
         \/ l.size # 0 \/ l.align <= 2 * ChunkWords
         \/ Suffices(LoadLayout(obj[i].ptr), l),
         MutatorRealloc(t, i, n, l)
  PROVE  crashed' = crashed
<1>1. CASE ReallocInPlace(i, n, l)
  BY <1>1 DEF ReallocInPlace, bumpVars
<1>2. CASE ReallocMoves(t, i, n, l)
  BY <1>2, AllocFits DEF ReallocMoves
<1> QED BY <1>1, <1>2 DEF MutatorRealloc

\* No call fails the assertion.
LEMMA StepFits ==
  ASSUME ZeroSizedFit, ApiInv, RetryFits, [ApiNext]_apiVars
  PROVE  RetryFits'
<1>1. ASSUME NEW t \in Mutators, Malloc(t) \/ Memalign(t) \/ Calloc(t) PROVE crashed' = crashed
  <2>1. ASSUME NEW n \in Sizes, NEW a \in Used, NEW i, NEW data, Alloc(t, n, MallocLayout(n, a), i, data, n)
        PROVE  crashed' = crashed
    BY <2>1, MallocRequested, MallocFits, AllocFits
  <2>2. MinAlign \in Used /\ \A r \in MemalignRequests : r[1] \in Sizes /\ Max({r[2], MinAlign}) \in Used
    BY UsedAligns DEF MemalignRequests, IsPowerOfTwo
  <2>3. PICK n \in Sizes, a \in Used : \E i \in Ids : \E data : Alloc(t, n, MallocLayout(n, a), i, data, n)
    <3>1. CASE Malloc(t)
      BY <2>2, <3>1 DEF Malloc, Make, New
    <3>2. CASE Memalign(t)
      BY <2>2, <3>2 DEF Memalign, Make, New
    <3>3. CASE Calloc(t)
      BY <2>2, <3>3 DEF Calloc, MakeZeroed, New
    <3> QED BY <1>1, <3>1, <3>2, <3>3
  <2> QED BY <2>1, <2>3
<1>2. ASSUME NEW t \in Mutators, RustAlloc(t) \/ RustAllocZeroed(t) PROVE crashed' = crashed
  <2>1. PICK n \in Sizes, a \in RustAlignments : \E i \in Ids : \E data : Alloc(t, n, FixLayout(n, a), i, data, n)
    <3>1. CASE RustAlloc(t)
      BY <3>1 DEF RustAlloc, Make, New
    <3>2. CASE RustAllocZeroed(t)
      BY <3>2 DEF RustAllocZeroed, MakeZeroed, New
    <3> QED BY <1>2, <3>1, <3>2
  <2>2. FixLayout(n, a) \in Requested
    BY UsedAligns, FixRequested DEF RustAlignments
  <2> QED BY <2>1, <2>2, FixFits, AllocFits
<1>3. ASSUME NEW t \in Mutators, NEW i \in Ids, Realloc(t, i) \/ RustRealloc(t, i) \/ GrowZeroed(t, i)
      PROVE  crashed' = crashed
  <2>1. CASE Free(i)
    BY <2>1 DEF Free, bumpVars
  <2>2. CASE Realloc(t, i) /\ ~Free(i)
    <3>1. i \in Live /\ \E n \in Sizes \ {0} : MutatorRealloc(t, i, n, Layout(AlignUp(n, MinAlign), MinAlign))
      BY <2>2 DEF Realloc
    <3>2. PICK n \in Sizes \ {0} : MutatorRealloc(t, i, n, Layout(AlignUp(n, MinAlign), MinAlign))
      BY <3>1
    <3> DEFINE l == Layout(AlignUp(n, MinAlign), MinAlign)
    <3>3. n \in Nat \ {0} /\ l \in Requested /\ n <= l.size
      BY ReallocRequested, ApiAssumption
    <3> HIDE DEF l
    <3>4. l.size # 0
      BY <3>3
    <3>5. MutatorRealloc(t, i, n, l)
      BY <3>2 DEF l
    <3> QED BY <3>1, <3>3, <3>4, <3>5, MutatorReallocFits
  <2>3. CASE RustRealloc(t, i)
    <3>1. i \in Live
      BY <2>3 DEF RustRealloc
    <3>2. PICK n \in Sizes, a \in RustAlignments \cup {obj[i].align} : MutatorRealloc(t, i, n, FixLayout(n, a))
      BY <2>3 DEF RustRealloc
    <3>3. CASE a \in RustAlignments
      <4>1. FixLayout(n, a) \in Requested
        BY <3>3, UsedAligns, FixRequested DEF RustAlignments
      <4> QED BY <3>1, <3>2, <3>3, <4>1, FixFits, MutatorReallocFits
    <3>4. CASE a = obj[i].align
      BY <3>1, <3>2, <3>4, OwnFits, MutatorReallocFits
    <3> QED BY <3>3, <3>4
  <2>4. CASE GrowZeroed(t, i)
    <3>1. i \in Live
      BY <2>4 DEF GrowZeroed
    <3>2. PICK n \in Sizes :
            LET l == FixLayout(n, obj[i].align)
            IN  IF Suffices(LoadLayout(obj[i].ptr), l)
                THEN UNCHANGED <<area, taken, crashed>>
                ELSE Alloc(t, n, l, i, Zeroes(l.size), n)
      BY <2>4 DEF GrowZeroed, New
    <3> DEFINE l == FixLayout(n, obj[i].align)
    <3>3. l \in Requested /\ (l.size = 0 => Suffices(LoadLayout(obj[i].ptr), l))
      BY <3>1, OwnFits
    <3>4. CASE Suffices(LoadLayout(obj[i].ptr), l)
      BY <3>2, <3>4
    <3>5. CASE ~Suffices(LoadLayout(obj[i].ptr), l)
      <4>1. Alloc(t, n, l, i, Zeroes(l.size), n) /\ l.size # 0
        BY <3>2, <3>3, <3>5
      <4> QED BY <3>3, <4>1, AllocFits
    <3> QED BY <3>4, <3>5
  <2> QED BY <1>3, <2>1, <2>2, <2>3, <2>4
<1>4. ASSUME NEW t \in Mutators, CallocRefused(t) PROVE crashed' = "null write"
  BY <1>4 DEF CallocRefused
<1>5. ASSUME NEW i \in Ids, Free(i) PROVE crashed' = crashed
  BY <1>5 DEF Free, bumpVars
<1>6. CASE UNCHANGED apiVars
  BY <1>6 DEF apiVars, RetryFits
<1>7. CASE ApiNext
  <2>1. crashed' = crashed \/ crashed' = "null write"
    BY <1>1, <1>2, <1>3, <1>4, <1>5, <1>7 DEF ApiNext
  <2> QED BY <2>1 DEF RetryFits
<1> QED BY <1>6, <1>7

\* assert!(!self.retry) (immortal_space.rs:49) holds in every thread, for all
\* sizes and alignments but zero-sized layouts aligned above two chunks.
THEOREM RetryAlwaysFits == ASSUME ZeroSizedFit PROVE ApiSpec => []RetryFits
<1>1. ApiInit => RetryFits
  BY DEF ApiInit, BumpInit, RetryFits
<1>2. ApiInv /\ RetryFits /\ [ApiNext]_apiVars => RetryFits'
  BY StepFits
<1> QED BY <1>1, <1>2, ApiSafety, PTL DEF ApiSpec
=============================================================================
