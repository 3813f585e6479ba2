-------------------------------- MODULE Lazy --------------------------------
(***************************************************************************)
(* A value shared by all threads and initialised by the first that needs   *)
(* it: Lazy<T, Shared> (mallockit/src/util/lazy.rs), which PLAN and HEAP   *)
(* are. Several threads force it at the same time; one runs the            *)
(* initialiser, the others spin.                                           *)
(*                                                                         *)
(* The fast path loads the state Relaxed and then reads the value. Nothing *)
(* orders the two: a thread that was not synchronised with the             *)
(* initialising one may load an old state, and read the memory as it was   *)
(* before the write (on aarch64; x86 keeps loads in order).                *)
(***************************************************************************)
EXTENDS Integers, FiniteSets

CONSTANT Threads

VARIABLES
  state,      \* Lazy::state
  init,       \* Lazy::init holds the initialiser
  written,    \* Lazy::value has been written
  synced,     \* the threads the write of the value happens before
  pc,
  got         \* what the thread's last dereference read

vars == <<state, init, written, synced, pc, got>>

Init ==
  /\ state = "uninitialized"
  /\ init = TRUE
  /\ written = FALSE
  /\ synced = {}
  /\ pc = [t \in Threads |-> "idle"]
  /\ got = [t \in Threads |-> "nothing"]

Goto(t, from, to) ==
  /\ pc[t] = from
  /\ pc' = [pc EXCEPT ![t] = to]

----------------------------------------------------------------------------
\* Deref::deref -> Lazy::force

Deref(t) ==
  /\ Goto(t, "idle", "force")
  /\ UNCHANGED <<state, init, written, synced, got>>

ForceFast(t) ==
  /\ Goto(t, "force", "fast")
  /\ state = "initialized"
  /\ UNCHANGED <<state, init, written, synced, got>>

\* The Relaxed load may return an old state to a thread that does not know
\* better and has not loaded the new one before.
ForceSlow(t) ==
  /\ Goto(t, "force", "slow")
  /\ state = "initialized" => t \notin synced /\ got[t] = "nothing"
  /\ UNCHANGED <<state, init, written, synced, got>>

----------------------------------------------------------------------------
\* force_slow: fetch_update loads the state and goes on by what it saw. Its
\* SeqCst operations synchronise with the SeqCst store of INITIALIZED.
Synchronise(t) ==
  synced' = IF state = "initialized" THEN synced \cup {t} ELSE synced

\* Mutant: the slow path calls itself when the value is there.
AfterUpdate_Recurse(s) ==
  CASE s = "uninitialized" -> "claim"
    [] s = "initializing"  -> "spin"
    [] s = "initialized"   -> "slow"

AfterUpdate(s) ==
  CASE s = "uninitialized" -> "claim"
    [] s = "initializing"  -> "spin"
    [] s = "initialized"   -> "force"

\* Mutant: a value that is being initialised is taken for initialised.
Slow_NoSpin(t) ==
  /\ Goto(t, "slow", IF state = "uninitialized" THEN "claim" ELSE "read")
  /\ Synchronise(t)
  /\ UNCHANGED <<state, init, written, got>>

Slow(t) ==
  /\ Goto(t, "slow", AfterUpdate(state))
  /\ Synchronise(t)
  /\ UNCHANGED <<state, init, written, got>>

\* Mutant: the state is stored, not compared and exchanged.
Claim_Store(t) ==
  /\ Goto(t, "claim", "take")
  /\ state' = "initializing"
  /\ UNCHANGED <<init, written, synced, got>>

\* The compare_exchange of fetch_update; it returns the state when it fails.
Claim(t) ==
  /\ Goto(t, "claim", IF state = "uninitialized" THEN "take" ELSE AfterUpdate(state))
  /\ state' = IF state = "uninitialized" THEN "initializing" ELSE state
  /\ Synchronise(t)
  /\ UNCHANGED <<init, written, got>>

\* Err(INITIALIZING): only the initialising thread ends this loop.
Spin(t) ==
  /\ Goto(t, "spin", "read")
  /\ state = "initialized"
  /\ Synchronise(t)
  /\ UNCHANGED <<state, init, written, got>>

----------------------------------------------------------------------------
\* force_initialize

\* self.init.replace(None).unwrap(): it panics when the initialiser is gone.
TakeInit(t) ==
  /\ Goto(t, "take", IF init THEN "write" ELSE "panicked")
  /\ init' = FALSE
  /\ UNCHANGED <<state, written, synced, got>>

\* The initialiser returns and the value is written.
WriteValue(t) ==
  /\ Goto(t, "write", "publish")
  /\ written' = TRUE
  /\ synced' = {t}
  /\ UNCHANGED <<state, init, got>>

Publish(t) ==
  /\ Goto(t, "publish", "read")
  /\ state' = "initialized"
  /\ UNCHANGED <<init, written, synced, got>>

----------------------------------------------------------------------------
\* as_initialized, after the fast or the slow path
Read(t) ==
  /\ \E path \in {"fast", "read"} : Goto(t, path, "idle")
  /\ \E v \in {"value", "garbage"} :
       /\ v = "value" => written
       /\ v = "garbage" => ~written \/ t \notin synced
       /\ got' = [got EXCEPT ![t] = v]
  /\ UNCHANGED <<state, init, written, synced>>

Step(t) ==
  \/ ForceFast(t) \/ ForceSlow(t) \/ Slow(t) \/ Claim(t) \/ Spin(t)
  \/ TakeInit(t) \/ WriteValue(t) \/ Publish(t) \/ Read(t)

\* What t does from now on happens after what s has done: s has started it.
Meet(s, t) ==
  /\ synced' = IF s \in synced THEN synced \cup {t} ELSE synced
  /\ UNCHANGED <<state, init, written, pc, got>>

Next == \E t \in Threads : Deref(t) \/ Step(t) \/ \E s \in Threads : Meet(s, t)

Spec == Init /\ [][Next]_vars

\* A thread that is forcing the value is scheduled; the initialiser returns.
FairSpec == Spec /\ \A t \in Threads : WF_vars(Step(t))

----------------------------------------------------------------------------
Initializing == {"take", "write", "publish"}

\* Types of the variables; no thread finds the initialiser gone and panics.
TypeOK ==
  /\ state \in {"uninitialized", "initializing", "initialized"}
  /\ init \in BOOLEAN /\ written \in BOOLEAN
  /\ synced \subseteq Threads
  /\ pc \in [Threads -> Initializing \cup {"idle", "force", "slow", "claim", "spin", "fast", "read"}]
  /\ got \in [Threads -> {"nothing", "value", "garbage"}]

\* The initialiser runs once: by one thread at a time, and never again after
\* the value was published (force_slow, force_initialize).
InitOnce ==
  /\ \A t, u \in Threads : pc[t] \in Initializing /\ pc[u] \in Initializing => t = u
  /\ state = "initialized" => \A t \in Threads : pc[t] \notin Initializing

\* Whoever leaves the slow path reads after the write of the value, and so
\* reads the value; who takes the fast path does so after the write in time.
\* No thread reads while another initialises, however late it loaded the state.
ReadsInitialized ==
  \A t \in Threads :
    /\ pc[t] = "read" => t \in synced /\ written
    /\ pc[t] = "fast" => written

\* What deref returns is the value (what as_initialized, lazy.rs:112, assumes).
\* Not so where loads are reordered: the fast path lets them.
NoGarbage == \A t \in Threads : got[t] # "garbage"

\* Every thread that needs the value gets it (the spinning ones too).
EveryoneReads == \A t \in Threads : pc[t] = "force" ~> pc[t] = "idle"
=============================================================================
