------------------------------ MODULE Ownership ------------------------------
(***************************************************************************)
(* The processes of the indexer and the session lock that lets one of them *)
(* write (store/postgres/ownership.go, tx.go, cmd/indexer/main.go).        *)
(*                                                                         *)
(* A process opens one session, takes the advisory lock in it and writes   *)
(* the ledger through that session only.  Its aggregation worker writes    *)
(* through the connection pool.  A watchdog probes the session.  The       *)
(* server may end a session at any time, without the client noticing, and  *)
(* a commit may be applied although its sender never hears of it.          *)
(*                                                                         *)
(* An error is the set of the sentinel errors it wraps.                    *)
(***************************************************************************)
EXTENDS Integers, Sequences, FiniteSets

CONSTANTS
  Procs,       \* processes of the indexer for one deployment
  MaxSessions, \* bound on the sessions ever opened
  MaxCommits,  \* bound on the commits to the ledger
  MaxBlock     \* bound on the blocks of the ledger

ASSUME OwnershipAssumption ==
  MaxSessions \in Nat /\ MaxCommits \in Nat /\ MaxBlock \in Nat

NoSession == 0
Sessions == 1..MaxSessions

VARIABLES
  lock,      \* session that holds the advisory lock, or NoSession
  alive,     \* sessions open at the server
  opened,    \* number of sessions opened so far
  request,   \* request[s]: the COMMIT that session s has received, or its answer
  commits,   \* commits of the ledger, in order
  proc       \* proc[p]: the state of process p

vars == <<lock, alive, opened, request, commits, proc>>

-----------------------------------------------------------------------------
(* Errors.                                                                 *)

Lost     == "ErrOwnershipLost"
Unknown  == "ErrUnknownTransactionOutcome"
Canceled == "context.Canceled"
Other    == "other"

Errors == SUBSET {Lost, Unknown, Canceled, Other}

\* Mutant: a cancellation is taken for a clean stop before anything else is looked at.
ExitCodeCanceledFirst(err) == IF err = {} \/ Canceled \in err THEN 0 ELSE 1

\* Exit code of a process whose run returned err; {} is a nil error.
ExitCode(err) ==
  IF err = {} \/ (Canceled \in err /\ {Unknown, Lost} \cap err = {}) THEN 0 ELSE 1

\* run reports the watchdog or the worker before the engine.  Of the two it takes either, when
\* both have failed; each of them makes the exit code 1.
RunError(e) ==
  IF e.watch # {} THEN e.watch ELSE IF e.worker # {} THEN e.worker ELSE e.engine

-----------------------------------------------------------------------------
(* The ledger: the blocks it holds after the first n commits.              *)

Rows(n) == IF n = 0 THEN {} ELSE commits[n].rows
Current == Rows(Len(commits))
Height(rows) == Cardinality(rows)

NoWrite == [kind |-> "none", block |-> 0, read |-> 0]
Applied == [NoWrite EXCEPT !.kind = "applied"]
Pending(w) == w.kind \in {"chunk", "recovery"}

\* Blocks after write w on top of rows: a chunk adds a block, a recovery
\* removes the blocks above the common ancestor.
Written(rows, w) ==
  IF w.kind = "chunk" THEN rows \cup {w.block} ELSE {b \in rows : b <= w.block}

-----------------------------------------------------------------------------
(* Processes.                                                              *)

NoErrors == [watch |-> {}, worker |-> {}, engine |-> {}]

Down == [pc |-> "down", conn |-> NoSession, dead |-> {}, read |-> 0, write |-> NoWrite,
         stopped |-> FALSE, watching |-> FALSE, working |-> FALSE, listening |-> FALSE,
         errs |-> NoErrors, unknown |-> FALSE, code |-> 0]

Started(s) == [Down EXCEPT !.pc = "step", !.conn = s, !.watching = TRUE,
                           !.working = TRUE, !.listening = TRUE]

Init ==
  /\ lock = NoSession
  /\ alive = {}
  /\ opened = 0
  /\ request = [s \in Sessions |-> NoWrite]
  /\ commits = <<>>
  /\ proc = [p \in Procs |-> Down]

Session(p) == proc[p].conn
HasSession(p) == Session(p) \in alive

\* Mutant: the answer of pg_try_advisory_lock is not looked at.
AcquireRegardless(p) ==
  LET s == opened + 1 IN
  /\ proc[p].pc = "down"
  /\ opened < MaxSessions
  /\ opened' = s
  /\ lock' = IF lock = NoSession THEN s ELSE lock
  /\ alive' = alive \cup {s}
  /\ proc' = [proc EXCEPT ![p] = Started(s)]
  /\ UNCHANGED <<request, commits>>

\* Start-up: open a session and try the lock.  A busy lock ends the process.
AcquireOwnership(p) ==
  LET s == opened + 1 IN
  /\ proc[p].pc = "down"
  /\ opened < MaxSessions
  /\ IF lock = NoSession
     THEN /\ opened' = s
          /\ lock' = s
          /\ alive' = alive \cup {s}
          /\ proc' = [proc EXCEPT ![p] = Started(s)]
     ELSE /\ proc' = [proc EXCEPT ![p] = [Down EXCEPT !.code = ExitCode({Other})]]
          /\ UNCHANGED <<lock, alive, opened>>
  /\ UNCHANGED <<request, commits>>

-----------------------------------------------------------------------------
(* The engine.  It owns the session's mutex while it writes and commits.   *)

\* State of p after Step returned err; Run returns it.  gone is o.dead.
Failed(p, err, gone) ==
  [proc[p] EXCEPT !.pc = "returned", !.errs.engine = err, !.dead = gone,
                  !.read = 0, !.write = NoWrite, !.unknown = @ \/ Unknown \in err]

\* Errors of a call that did not succeed, to the database or to the provider.
CallErrors(p) == {{Other}} \cup (IF proc[p].stopped THEN {{Canceled}} ELSE {})

\* Errors of a COMMIT that was not acknowledged: the session is gone, the context was
\* cancelled, or the deadline of the transaction has passed.
CommitErrors(p) == {{Unknown} \cup err : err \in CallErrors(p)}

\* o.dead after a transaction that failed with err: set by an unknown outcome, and by a
\* closed connection (certainly when the session is gone; perhaps when the context or
\* the deadline interrupted a statement).
DeadAfter(p, err) ==
  IF Unknown \in err \/ ~HasSession(p) THEN {{Lost} \cup err}
  ELSE {proc[p].dead, {Lost} \cup err}

\* First transaction of Step: read the state of the ledger.
Observe(p) ==
  /\ proc[p].pc = "step"
  /\ IF proc[p].dead # {}
     THEN proc' = [proc EXCEPT ![p] = Failed(p, proc[p].dead, proc[p].dead)]
     ELSE \/ /\ HasSession(p)
             /\ proc' = [proc EXCEPT ![p].pc = "observed", ![p].read = Len(commits)]
          \/ \E err \in CallErrors(p) \cup CommitErrors(p) :
               \E gone \in DeadAfter(p, err) :
                 proc' = [proc EXCEPT ![p] = Failed(p, err, gone)]
  /\ UNCHANGED <<lock, alive, opened, request, commits>>

\* Calls to the provider, between the two transactions: they may fail, be cancelled, or
\* find nothing new.
Inspect(p) ==
  /\ proc[p].pc = "observed"
  /\ \/ \E err \in CallErrors(p) :
          proc' = [proc EXCEPT ![p] = Failed(p, err, proc[p].dead)]
     \/ proc' = [proc EXCEPT ![p].pc = "wait", ![p].read = 0]
  /\ UNCHANGED <<lock, alive, opened, request, commits>>

\* Writes that Step can derive from what it read: the next block, or a rewind.
Writes(p) ==
  LET height == Height(Rows(proc[p].read)) IN
  {[kind |-> "chunk", block |-> height + 1, read |-> proc[p].read]}
    \cup {[kind |-> "recovery", block |-> b, read |-> proc[p].read] : b \in 0..(height - 1)}

\* Second transaction of Step, up to its COMMIT.
Write(p) ==
  /\ proc[p].pc = "observed"
  /\ IF proc[p].dead # {}
     THEN proc' = [proc EXCEPT ![p] = Failed(p, proc[p].dead, proc[p].dead)]
     ELSE \/ /\ HasSession(p)
             /\ Len(commits) < MaxCommits
             /\ \E w \in {w \in Writes(p) : w.block <= MaxBlock} :
                  proc' = [proc EXCEPT ![p].pc = "writing", ![p].write = w]
          \/ \E err \in CallErrors(p) : \E gone \in DeadAfter(p, err) :
               proc' = [proc EXCEPT ![p] = Failed(p, err, gone)]
  /\ UNCHANGED <<lock, alive, opened, request, commits>>

\* The callback runs and the COMMIT leaves.  A block that is already there makes the
\* callback fail (ErrCanonicalMismatch).
SendCommit(p) ==
  LET w == proc[p].write IN
  /\ proc[p].pc = "writing"
  /\ \/ /\ HasSession(p)
        /\ ~(w.kind = "chunk" /\ w.block \in Current)
        /\ request' = [request EXCEPT ![Session(p)] = w]
        /\ proc' = [proc EXCEPT ![p].pc = "committing"]
     \/ \E err \in CallErrors(p) : \E gone \in DeadAfter(p, err) :
            /\ proc' = [proc EXCEPT ![p] = Failed(p, err, gone)]
            /\ UNCHANGED request
  /\ UNCHANGED <<lock, alive, opened, commits>>

\* The server applies a COMMIT that session s has received.
Apply(s) ==
  /\ s \in alive
  /\ Pending(request[s])
  /\ commits' = Append(commits, [by |-> s, read |-> request[s].read,
                                 rows |-> Written(Current, request[s])])
  /\ request' = [request EXCEPT ![s] = Applied]
  /\ UNCHANGED <<lock, alive, opened, proc>>

\* The acknowledgement of an applied COMMIT arrives.
Acknowledged(p) ==
  /\ proc[p].pc = "committing"
  /\ request[Session(p)] = Applied
  /\ request' = [request EXCEPT ![Session(p)] = NoWrite]
  /\ proc' = [proc EXCEPT ![p].pc = "step", ![p].read = 0, ![p].write = NoWrite]
  /\ UNCHANGED <<lock, alive, opened, commits>>

\* It does not arrive, whether the server has applied the request, will, or never does.
Unacknowledged(p) ==
  /\ proc[p].pc = "committing"
  /\ \E err \in CommitErrors(p) :
       proc' = [proc EXCEPT ![p] = Failed(p, err, {Lost} \cup err)]
  /\ UNCHANGED <<lock, alive, opened, request, commits>>

\* Run waits for the next poll.
Wait(p) ==
  /\ proc[p].pc = "wait"
  /\ \/ proc' = [proc EXCEPT ![p].pc = "step"]
     \/ /\ proc[p].stopped
        /\ proc' = [proc EXCEPT ![p] = Failed(p, {Canceled}, proc[p].dead)]
  /\ UNCHANGED <<lock, alive, opened, request, commits>>

Engine(p) ==
  \/ Observe(p) \/ Inspect(p) \/ Write(p) \/ SendCommit(p)
  \/ Acknowledged(p) \/ Unacknowledged(p) \/ Wait(p)

-----------------------------------------------------------------------------
(* The other goroutines of a process and its end.                          *)

Running(p) == proc[p].pc # "down"
HoldsMutex(p) == proc[p].pc \in {"writing", "committing"}

\* A tick of Watch.  A ping can fail on a session that is alive (its timeout).
\* Any error but a cancellation is reported and stops the process.
Watch(p) ==
  LET me == proc[p]
      probed == IF me.dead # {} THEN {me.dead}
                ELSE {{Lost, Other}} \cup (IF me.stopped THEN {{Lost, Canceled}, {}} ELSE {}) IN
  /\ Running(p) /\ me.watching /\ ~HoldsMutex(p)
  /\ \E gone \in probed :
       proc' = [proc EXCEPT ![p] =
         IF gone = {} \/ Canceled \in gone
         THEN [me EXCEPT !.watching = FALSE, !.dead = gone]
         ELSE [me EXCEPT !.watching = FALSE, !.dead = gone, !.stopped = TRUE,
                         !.errs.watch = gone]]
  /\ UNCHANGED <<lock, alive, opened, request, commits>>

\* A statement of the worker fails: the pool is closed, the context is cancelled, or the
\* database refuses.  Any error but a cancellation is reported and stops the process.  What the
\* worker writes goes through the pool, past the ownership lock: it is in Aggregation, and the
\* commits here are the engine's alone.
DrainFails(p) ==
  LET me == proc[p] IN
  /\ Running(p) /\ me.working
  /\ \/ /\ me.stopped
        /\ proc' = [proc EXCEPT ![p].working = FALSE]
     \/ proc' = [proc EXCEPT ![p].working = FALSE, ![p].stopped = TRUE,
                             ![p].errs.worker = {Other}]
  /\ UNCHANGED <<lock, alive, opened, request, commits>>

\* The listener for market_dirty gives its connection back to the pool when the context
\* is cancelled.
StopListening(p) ==
  /\ Running(p) /\ proc[p].listening
  /\ proc[p].stopped
  /\ proc' = [proc EXCEPT ![p].listening = FALSE]
  /\ UNCHANGED <<lock, alive, opened, request, commits>>

\* SIGTERM or an interrupt.
Signal(p) ==
  /\ Running(p) /\ ~proc[p].stopped
  /\ proc' = [proc EXCEPT ![p].stopped = TRUE]
  /\ UNCHANGED <<lock, alive, opened, request, commits>>

\* Mutant: Close does not record that the session is gone.
CloseSilently(p) ==
  /\ proc[p].pc = "returned"
  /\ proc' = [proc EXCEPT ![p].pc = "closing", ![p].errs = NoErrors,
                          ![p].code = ExitCode(RunError(proc[p].errs))]
  /\ UNCHANGED <<lock, alive, opened, request, commits>>

\* run has its result; the deferred Close gives up the session before the pool is closed.
Close(p) ==
  /\ proc[p].pc = "returned"
  /\ proc' = [proc EXCEPT ![p].pc = "closing", ![p].dead = {Lost}, ![p].errs = NoErrors,
                          ![p].code = ExitCode(RunError(proc[p].errs))]
  /\ UNCHANGED <<lock, alive, opened, request, commits>>

\* pool.Close returns once every connection is back, then the process ends.
Exit(p) ==
  /\ proc[p].pc = "closing"
  /\ ~proc[p].listening
  /\ proc' = [proc EXCEPT ![p] = [Down EXCEPT !.code = proc[p].code]]
  /\ UNCHANGED <<lock, alive, opened, request, commits>>

\* The process is killed; its session lives on at the server until that notices.
Crash(p) ==
  /\ Running(p)
  /\ proc' = [proc EXCEPT ![p] = Down]
  /\ UNCHANGED <<lock, alive, opened, request, commits>>

\* The server ends a session: its transaction is aborted and its lock released.
EndSession(s) ==
  /\ s \in alive
  /\ alive' = alive \ {s}
  /\ lock' = IF lock = s THEN NoSession ELSE lock
  /\ request' = [request EXCEPT ![s] = IF Pending(@) THEN NoWrite ELSE @]
  /\ UNCHANGED <<opened, commits, proc>>

-----------------------------------------------------------------------------
Next ==
  \/ \E p \in Procs :
       \/ AcquireOwnership(p) \/ Engine(p) \/ Watch(p) \/ DrainFails(p)
       \/ StopListening(p) \/ Signal(p) \/ Close(p) \/ Exit(p) \/ Crash(p)
  \/ \E s \in Sessions : Apply(s) \/ EndSession(s)

Spec == Init /\ [][Next]_vars

-----------------------------------------------------------------------------
(* Properties.                                                             *)

\* Every commit was derived from the ledger that the commit before it left, and the
\* blocks in the ledger run from the first one without a hole, whatever sessions were
\* lost, processes killed and acknowledgements missed in between.
CommitsChain ==
  \A n \in DOMAIN commits :
    /\ commits[n].read = n - 1
    /\ commits[n].rows = 1..Height(commits[n].rows)

\* The processes together behave like one writer at a time (SingleWriter): only the
\* session with the lock commits, and a COMMIT that was sent before the lock was lost is
\* never applied after it.
OneWriter == INSTANCE SingleWriter WITH writer <- lock

Fenced == OneWriter!Spec

\* A process that does not know whether one of its commits was applied never reports a
\* clean exit, whichever of its goroutines speaks first and even if it was being stopped.
ExitHonest ==
  \A p \in Procs : proc[p].pc = "closing" /\ proc[p].unknown => proc[p].code # 0

\* Shutdown does not wait for itself: pool.Close waits for the listener's connection, which
\* is given back when the context is cancelled, which run defers until after pool.Close.
\* Whenever it waits, the context is cancelled already, or the watchdog is still there to
\* find the closed session and cancel it.
CloseReturns ==
  \A p \in Procs : proc[p].pc = "closing" /\ proc[p].listening =>
    proc[p].stopped \/ (proc[p].watching /\ proc[p].dead # {})

\* A shutdown comes to an end and says truly how the process fared.
EndsHonestly ==
  /\ ExitHonest
  /\ CloseReturns
=============================================================================
