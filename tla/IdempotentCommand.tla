-------------------------- MODULE IdempotentCommand --------------------------
(***************************************************************************)
(* The decorator @idempotent around the API's commands: a row of           *)
(* ApiCommand reserves a key, the handler runs outside that transaction,   *)
(* and its response is stored for replay (src/apps/core/commands.py).      *)
(*                                                                         *)
(* Requests run in parallel; a client reuses a key when it retries, with   *)
(* the same payload or by mistake with another.  A key stands here for the *)
(* pair of scope and key, which is what the unique constraint is on.       *)
(***************************************************************************)
EXTENDS Naturals, Sequences

CONSTANTS Requests,  \* HTTP requests, each made once
          Keys,      \* Idempotency-Key headers, with their scope
          Payloads,  \* request bodies, and so their fingerprints
          None,      \* no key, payload, status or response
          MaxCrashes \* bound on processes that die

ASSUME NoneAssumption == None \notin Keys \cup Payloads \cup {"ok", "error", "processing", "complete"}
ASSUME CrashAssumption == MaxCrashes \in Nat

VARIABLES command,   \* ApiCommand rows
          request,   \* where each request is in the decorator
          runs,      \* history: the payloads each key's handler has run with
          crashes    \* processes that died, at most MaxCrashes

vars == <<command, request, runs, crashes>>

\* A response of the handler: success, or an error it knows how to report.
Bodies == {"ok", "error"}
\* What a request may be told: a response, a refusal, or a server error.
Answers == Bodies \cup {"pending", "different_payload", "server_error", "lost"}

Command == [status : {None, "processing", "complete"}, fingerprint : Payloads \cup {None},
            response : Bodies \cup {None}]
Request == [step : {"unsent", "arrived", "reserved", "handled", "answered"},
            key : Keys \cup {None}, payload : Payloads \cup {None},
            response : Answers \cup {None}]

Unsent == [step |-> "unsent", key |-> None, payload |-> None, response |-> None]
NoCommand == [status |-> None, fingerprint |-> None, response |-> None]

Init == /\ command = [k \in Keys |-> NoCommand]
        /\ request = [r \in Requests |-> Unsent]
        /\ runs = [k \in Keys |-> <<>>]
        /\ crashes = 0

\* The client makes a request: a new command, or a retry of one.
Arrive(r) ==
  /\ request[r].step = "unsent"
  /\ \E k \in Keys, p \in Payloads :
       request' = [request EXCEPT ![r] = [step |-> "arrived", key |-> k, payload |-> p,
                                          response |-> None]]
  /\ UNCHANGED <<command, runs, crashes>>

Reply(r, answer) ==
  request' = [request EXCEPT ![r] = [@ EXCEPT !.step = "answered", !.response = answer]]

\* Mutant: the payload is not compared.
VerdictByKey(c, p) == IF c.status # "complete" THEN "pending" ELSE c.response

\* What a row that is already there makes of a request with payload p.
Verdict(c, p) == IF c.fingerprint # p THEN "different_payload"
                 ELSE IF c.status # "complete" THEN "pending"
                 ELSE c.response

\* Mutants: a command that is not complete is taken over; a request waits for it.
ReserveIncomplete(r) ==
  LET k == request[r].key
      p == request[r].payload IN
  /\ request[r].step = "arrived"
  /\ IF command[k].status # "complete"
     THEN /\ command' = [command EXCEPT ![k] = [status |-> "processing", fingerprint |-> p,
                                                response |-> None]]
          /\ request' = [request EXCEPT ![r].step = "reserved"]
     ELSE Reply(r, Verdict(command[k], p)) /\ UNCHANGED command
  /\ UNCHANGED <<runs, crashes>>
ReserveOrWait(r) ==
  LET k == request[r].key
      p == request[r].payload IN
  /\ request[r].step = "arrived" /\ command[k].status # "processing"
  /\ IF command[k] = NoCommand
     THEN /\ command' = [command EXCEPT ![k] = [status |-> "processing", fingerprint |-> p,
                                                response |-> None]]
          /\ request' = [request EXCEPT ![r].step = "reserved"]
     ELSE Reply(r, Verdict(command[k], p)) /\ UNCHANGED command
  /\ UNCHANGED <<runs, crashes>>

\* One transaction: create the row, or answer from the one that is there.
Reserve(r) ==
  LET k == request[r].key
      p == request[r].payload IN
  /\ request[r].step = "arrived"
  /\ IF command[k] = NoCommand
     THEN /\ command' = [command EXCEPT ![k] = [status |-> "processing", fingerprint |-> p,
                                                response |-> None]]
          /\ request' = [request EXCEPT ![r].step = "reserved"]
     ELSE /\ Reply(r, Verdict(command[k], p))
          /\ UNCHANGED command
  /\ UNCHANGED <<runs, crashes>>

\* The handler runs.  A known error is a response like any other, whatever it left
\* behind; an exception nothing handles leaves the decorator with the row as it is.
Handle(r) ==
  /\ request[r].step = "reserved"
  /\ runs' = [runs EXCEPT ![request[r].key] = Append(@, request[r].payload)]
  /\ \/ \E b \in Bodies :
          request' = [request EXCEPT ![r] = [@ EXCEPT !.step = "handled", !.response = b]]
     \/ Reply(r, "server_error")
  /\ UNCHANGED <<command, crashes>>

\* Mutant: an error is not kept but frees the key.
CompleteSuccessOnly(r) ==
  LET k == request[r].key IN
  /\ request[r].step = "handled"
  /\ command' = [command EXCEPT ![k] =
       IF request[r].response = "ok" THEN [@ EXCEPT !.status = "complete", !.response = "ok"]
       ELSE NoCommand]
  /\ Reply(r, request[r].response)
  /\ UNCHANGED <<runs, crashes>>

\* The response is stored, then sent.
Complete(r) ==
  LET k == request[r].key IN
  /\ request[r].step = "handled"
  /\ command' = [command EXCEPT ![k] = [@ EXCEPT !.status = "complete",
                                                 !.response = request[r].response]]
  /\ Reply(r, request[r].response)
  /\ UNCHANGED <<runs, crashes>>

\* Mutant: a reservation ends with the process that made it.
CrashReleasing(r) ==
  /\ request[r].step \in {"reserved", "handled"}
  /\ crashes < MaxCrashes
  /\ crashes' = crashes + 1
  /\ Reply(r, "lost")
  /\ command' = [command EXCEPT ![request[r].key] = NoCommand]
  /\ UNCHANGED runs

\* The process dies before or after the handler; the client is told nothing.
Crash(r) ==
  /\ request[r].step \in {"arrived", "reserved", "handled"}
  /\ crashes < MaxCrashes
  /\ crashes' = crashes + 1
  /\ Reply(r, "lost")
  /\ UNCHANGED <<command, runs>>

Step(r) == Reserve(r) \/ Handle(r) \/ Complete(r)

Next == \E r \in Requests : Arrive(r) \/ Step(r) \/ Crash(r)

Spec == Init /\ [][Next]_vars
LiveSpec == Spec /\ \A r \in Requests : WF_vars(Step(r))

-----------------------------------------------------------------------------
(* Properties.                                                             *)

\* Every variable has its type.
TypeOK == /\ command \in [Keys -> Command]
          /\ request \in [Requests -> Request]
          /\ runs \in [Keys -> Seq(Payloads)]
          /\ crashes \in 0 .. MaxCrashes

Holders(k) == {r \in Requests : request[r].key = k /\ request[r].step \in {"reserved", "handled"}}

\* "Durable duplicate suppression" (commands.py:1): the handler behind a key runs
\* at most once, however many requests carry the key and whenever processes die.
RunsAtMostOnce == \A k \in Keys : Len(runs[k]) <= 1

\* "Ambiguous requests stay reserved, never reexecuted": a command whose process
\* died or failed stays reserved for ever, and never runs again.
AmbiguousStaysReserved ==
  [][\A k \in Keys : command[k].status = "processing" /\ Holders(k) = {}
                       => /\ command'[k] = command[k]
                          /\ runs'[k] = runs[k]]_vars

\* Requests with one key that are told an outcome are told the same one, and it is
\* the outcome of their own payload.
RepliesAgree ==
  \A r, s \in Requests :
    /\ request[r].response \in Bodies /\ request[r].step = "answered"
    /\ request[s].response \in Bodies /\ request[s].step = "answered"
    /\ request[r].key = request[s].key
    => /\ request[r].response = request[s].response
       /\ request[r].payload = request[s].payload
       /\ runs[request[r].key] = <<request[r].payload>>

\* The decorator implements the promise of AtMostOnce.
Once == INSTANCE AtMostOnce
          WITH ran <- runs,
               settled <- [k \in Keys |-> command[k].response]
KeepsThePromise == Once!OnceSpec

\* Every request that arrives is answered: none waits for another.
EveryRequestEnds ==
  \A r \in Requests : request[r].step = "arrived" ~> request[r].step = "answered"
==============================================================================
