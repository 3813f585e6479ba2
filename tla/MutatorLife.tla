---------------------------- MODULE MutatorLife ----------------------------
(***************************************************************************)
(* The life of the thread-local mutators: the code that the `plan` and     *)
(* `mutator` macros generate (mallockit/macros/src/lib.rs), the pthread    *)
(* key (mutator.rs), the constructor of the process (hooks.rs) and         *)
(* Lazy<_, Local> (lazy.rs). A mutator is made when a thread first calls   *)
(* the allocator, needs PLAN for it (module Lazy, all of whose variables   *)
(* are those of PLAN here), and is dropped by the destructor of a pthread  *)
(* key when the thread exits. Destructors of other keys run in the same    *)
(* rounds and may call the allocator again.                                *)
(***************************************************************************)
EXTENDS Lazy, Sequences

CONSTANTS
  Main,        \* the thread that runs the constructors of the process
  Early,       \* threads started by constructors of other libraries
  Iterations   \* PTHREAD_DESTRUCTOR_ITERATIONS

ASSUME LifeAssumption ==
  /\ Main \in Threads /\ Early \subseteq Threads
  /\ Iterations \in Nat \ {0}

VARIABLES
  key,       \* TLS_KEY has been created
  order,     \* the order in which a round visits the two keys
  life,      \* what each thread does
  lazy,      \* MUTATOR of each thread: its state
  fn,        \*   its initialiser is there
  value,     \*   its value
  specific,  \* each thread's values of the keys that are not null
  early,     \* the thread's mutator was made before the key was
  visit      \* exit: the round, and the key it is at

tls == <<lazy, fn, value, early>>
own == <<key, order, life, specific, visit>>
lifeVars == <<vars, tls, own>>
plan == vars

LifeInit ==
  /\ Init
  /\ key = FALSE
  /\ order \in {<<"ours", "other">>, <<"other", "ours">>}
  /\ life = [t \in Threads |-> IF t = Main THEN "running" ELSE "unborn"]
  /\ lazy = [t \in Threads |-> "uninitialized"]
  /\ fn = [t \in Threads |-> TRUE]
  /\ value = [t \in Threads |-> "none"]
  /\ specific = [t \in Threads |-> {}]
  /\ early = [t \in Threads |-> FALSE]
  /\ visit = [t \in Threads |-> [round |-> 0, at |-> 1]]

----------------------------------------------------------------------------
\* The process and its threads

Become(t, from, to) == life[t] = from /\ life' = [life EXCEPT ![t] = to]

\* ctor: current() has made the first mutator, process_start makes the key.
ProcessStart ==
  /\ life[Main] = "running"
  /\ lazy[Main] = "initialized"
  /\ ~key
  /\ key' = TRUE
  /\ UNCHANGED <<plan, tls, order, life, specific, visit>>

\* Started by a thread p, whose doings it knows. Threads with values for another
\* library's key are the ones of interest.
Start(t) ==
  /\ t \in Early \/ key
  /\ Become(t, "unborn", "running")
  /\ specific' = [specific EXCEPT ![t] = {"other"}]
  /\ \E p \in Threads : life[p] \in {"running", "other"} /\ Meet(p, t)
  /\ UNCHANGED <<tls, key, order, visit>>

----------------------------------------------------------------------------
\* TLS::current: the call of the allocator derefs MUTATOR.

\* Mutant: registered with the thread's first mutator only.
InitPthreadSpecific_Once(t) ==
  specific' = [specific EXCEPT ![t] = IF key /\ visit[t].round = 0 THEN @ \cup {"ours"} ELSE @]

\* Without a key pthread_setspecific is refused, and its result ignored.
InitPthreadSpecific(t) ==
  specific' = [specific EXCEPT ![t] = IF key THEN @ \cup {"ours"} ELSE @]

\* force_slow_thread_local and `init`, up to the plan Mutator::new asks for
Use(t) ==
  /\ life[t] \in {"running", "other"}
  /\ lazy[t] # "initialized"
  /\ lazy' = [lazy EXCEPT ![t] = "initializing"]
  /\ fn' = [fn EXCEPT ![t] = FALSE]
  /\ InitPthreadSpecific(t)
  /\ early' = [early EXCEPT ![t] = ~key]
  /\ life' = [life EXCEPT ![t] = IF ~fn[t] THEN "panicked"
                                 ELSE IF @ = "running" THEN "creating" ELSE "recreating"]
  /\ Deref(t)
  /\ UNCHANGED <<key, order, value, visit>>

\* Mutator::new returns; the value is written and the state stored.
Made(t) ==
  /\ pc[t] = "idle"
  /\ \/ Become(t, "creating", "running")
     \/ Become(t, "recreating", "other")
  /\ value' = [value EXCEPT ![t] = "live"]
  /\ lazy' = [lazy EXCEPT ![t] = "initialized"]
  /\ UNCHANGED <<plan, fn, early, key, order, specific, visit>>

----------------------------------------------------------------------------
\* Thread exit: rounds of destructors, one key after the other. A key whose
\* value is not null has it set to null and its destructor called.

Exit(t) ==
  /\ t = Main => key
  /\ Become(t, "running", "exiting")
  /\ visit' = [visit EXCEPT ![t] = [round |-> 1, at |-> 1]]
  /\ UNCHANGED <<plan, tls, key, order, specific>>

At(t) == order[visit[t].at]

Call(t) ==
  /\ visit[t].at <= 2
  /\ At(t) \in specific[t]
  /\ Become(t, "exiting", At(t))
  /\ specific' = [specific EXCEPT ![t] = @ \ {At(t)}]
  /\ UNCHANGED <<plan, tls, key, order, visit>>

Skip(t) ==
  /\ life[t] = "exiting"
  /\ visit[t].at <= 2 /\ At(t) \notin specific[t]
  /\ visit' = [visit EXCEPT ![t].at = @ + 1]
  /\ UNCHANGED <<plan, tls, key, order, life, specific>>

AnotherRound(t) == specific[t] # {} /\ visit[t].round < Iterations

RoundDone(t) ==
  /\ visit[t].at = 3
  /\ IF AnotherRound(t)
     THEN /\ visit' = [visit EXCEPT ![t] = [round |-> @.round + 1, at |-> 1]]
          /\ life[t] = "exiting" /\ UNCHANGED life
     ELSE Become(t, "exiting", "gone") /\ UNCHANGED visit
  /\ UNCHANGED <<plan, tls, key, order, specific>>

\* The destructor of the other key returns; it may have set its value again.
OtherDone(t) ==
  /\ Become(t, "other", "exiting")
  /\ \E S \in {{}, {"other"}} : specific' = [specific EXCEPT ![t] = @ \cup S]
  /\ visit' = [visit EXCEPT ![t].at = @ + 1]
  /\ UNCHANGED <<plan, tls, key, order>>

\* Mutant: the old value is forgotten, not dropped.
DropValue_Skip(t) ==
  /\ Become(t, "ours", "reset")
  /\ UNCHANGED <<plan, tls, key, order, specific, visit>>

\* mallockit_pthread_destructor -> Lazy::reset: drop_in_place, if there is a value
DropValue(t) ==
  /\ Become(t, "ours", "reset")
  /\ value' = [value EXCEPT ![t] = IF lazy[t] = "initialized" THEN "dropped" ELSE @]
  /\ UNCHANGED <<plan, lazy, fn, early, key, order, specific, visit>>

\* Mutant: the initialiser is not put back.
ResetState_NoInit(t) == lazy' = [lazy EXCEPT ![t] = "uninitialized"] /\ UNCHANGED fn

\* Mutant: the state stays INITIALIZED.
ResetState_Keep(t) == fn' = [fn EXCEPT ![t] = TRUE] /\ UNCHANGED lazy

ResetState(t) ==
  /\ lazy' = [lazy EXCEPT ![t] = "uninitialized"]
  /\ fn' = [fn EXCEPT ![t] = TRUE]

Reset(t) ==
  /\ Become(t, "reset", "exiting")
  /\ ResetState(t)
  /\ value' = [value EXCEPT ![t] = "none"]
  /\ visit' = [visit EXCEPT ![t].at = @ + 1]
  /\ UNCHANGED <<plan, early, key, order, specific>>

----------------------------------------------------------------------------
\* What a thread does once it is called on: forcing PLAN, or exiting.
LifeStep(t) ==
  \/ Step(t) /\ UNCHANGED <<tls, own>>
  \/ Made(t) \/ Call(t) \/ Skip(t) \/ RoundDone(t) \/ OtherDone(t)
  \/ DropValue(t) \/ Reset(t)

LifeNext ==
  \/ ProcessStart
  \/ \E t \in Threads : Start(t) \/ Use(t) \/ Exit(t) \/ LifeStep(t)

LifeSpec == LifeInit /\ [][LifeNext]_lifeVars

\* Threads that force PLAN or exit are scheduled; a destructor returns.
FairLifeSpec == LifeSpec /\ \A t \in Threads : WF_lifeVars(LifeStep(t))

----------------------------------------------------------------------------
\* Types of the variables; no thread finds its initialiser gone and panics.
LifeTypeOK ==
  /\ key \in BOOLEAN
  /\ life \in [Threads -> {"unborn", "running", "creating", "recreating", "exiting",
                           "other", "ours", "reset", "gone"}]
  /\ lazy \in [Threads -> {"uninitialized", "initializing", "initialized"}]
  /\ value \in [Threads -> {"none", "live", "dropped"}]
  /\ specific \in [Threads -> SUBSET {"ours", "other"}]
  /\ visit \in [Threads -> [round : 0..Iterations, at : 1..3]]

\* No call of the allocator gets a mutator that was dropped or never made,
\* whichever destructor of whichever round calls (TLS::current, Lazy::reset);
\* and a mutator was made from an initialised plan, but by a thread that has
\* taken the fast path to PLAN without ever having met who initialised it.
UsesLive ==
  \A t \in Threads : life[t] \in {"running", "other"} /\ lazy[t] = "initialized" =>
    value[t] = "live" /\ (got[t] = "value" \/ t \notin synced)

\* A thread that is gone gave everything back: its last mutator was dropped,
\* unless it was made before the key, or in the last round of destructors.
NothingHeld ==
  \A t \in Threads : life[t] = "gone" /\ value[t] # "none" =>
    early[t] \/ visit[t].round = Iterations

\* What every call and every destructor finds, and what an exit leaves: the
\* plan and the mutators are initialised when used and given back in the end.
MutatorsSound == TypeOK /\ LifeTypeOK /\ UsesLive /\ NothingHeld

\* A mutator's memory is not overwritten, and no second one made, before it
\* has been dropped (Lazy::reset drops before it resets).
DroppedFirst ==
  [][\A t \in Threads : value[t] = "live" /\ value'[t] # "live" => value'[t] = "dropped"]_lifeVars

\* A thread that exits is gone at last, however often destructors make the
\* mutator again and register its destructor by doing so.
ExitCompletes == \A t \in Threads : life[t] = "exiting" ~> life[t] = "gone"
=============================================================================
