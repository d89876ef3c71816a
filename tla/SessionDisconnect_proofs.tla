----------------------- MODULE SessionDisconnect_proofs -----------------------
(***************************************************************************)
(* Proofs about IdempotentCommand, and about SessionDisconnect, which is   *)
(* composed with it: for any number of requests, keys, payloads, crashes,  *)
(* routers, addresses and sessions.                                        *)
(*                                                                         *)
(* The first part is about the decorator alone.  That a handler runs at    *)
(* most once is not inductive: it rests on a key being reserved by one     *)
(* request at a time, and on that request finding, when it runs the        *)
(* handler, that nobody else has.                                          *)
(*                                                                         *)
(* The second part is about the disconnect.  Its steps are steps of the    *)
(* decorator or leave it alone, so what was proved before holds here.  One *)
(* packet per key rests on the decorator's invariant: a key has one        *)
(* holder, and counts its packet and its event in the holder's place in    *)
(* the handler (TaskInv).  That the session is the tenant's own rests on   *)
(* what the handler has read still being so (ReadInv).                     *)
(***************************************************************************)
EXTENDS SessionDisconnect, FiniteSetTheorems, TLAPS

-----------------------------------------------------------------------------
(* The decorator.                                                          *)

\* A key's row tells how far its command has come.
CommandInv ==
  \A k \in Keys :
    \/ command[k] = NoCommand /\ runs[k] = <<>>
    \/ /\ command[k].fingerprint \in Payloads
       /\ command[k].status = "processing"
       /\ command[k].response = None
       /\ runs[k] \in {<<>>, <<command[k].fingerprint>>}
    \/ /\ command[k].fingerprint \in Payloads
       /\ command[k].status = "complete"
       /\ command[k].response \in Bodies
       /\ runs[k] = <<command[k].fingerprint>>

\* A request that has reserved its key finds the row as it left it.
KeyHeld(q) ==
  /\ q.key \in Keys
  /\ command[q.key].status = "processing"
  /\ command[q.key].fingerprint = q.payload
  /\ q.payload \in Payloads
  /\ q.step = "reserved" => runs[q.key] = <<>>
  /\ q.step = "handled" => runs[q.key] = <<q.payload>> /\ q.response \in Bodies

\* A request that was told an outcome was told the stored one.
Told(q) ==
  /\ q.key \in Keys
  /\ command[q.key].status = "complete"
  /\ command[q.key].fingerprint = q.payload
  /\ command[q.key].response = q.response

Held(q) == q.step \in {"reserved", "handled"}

RequestInv ==
  \A r \in Requests :
    /\ request[r].step # "unsent" => request[r].key \in Keys /\ request[r].payload \in Payloads
    /\ Held(request[r]) => KeyHeld(request[r])
    /\ request[r].step = "answered" /\ request[r].response \in Bodies => Told(request[r])

\* A key is reserved by one request at a time.
OneHolder == \A r, s \in Requests :
               Held(request[r]) /\ Held(request[s]) /\ request[r].key = request[s].key => r = s

IInv == TypeOK /\ CommandInv /\ RequestInv /\ OneHolder

\* Nothing is reserved, run or answered at first.
LEMMA InvInit == Init => IInv
<1> SUFFICES ASSUME Init PROVE IInv
  OBVIOUS
<1>1. TypeOK
  BY CrashAssumption
     DEF Init, TypeOK, Command, Request, NoCommand, Unsent
<1>2. CommandInv
  BY DEF Init, CommandInv
<1>3. RequestInv /\ OneHolder
  BY DEF Init, RequestInv, OneHolder, Held, Unsent
<1> QED
  BY <1>1, <1>2, <1>3 DEF IInv

\* The invariant of one request, before or after a step.
Tracked(r) ==
  /\ request[r].step # "unsent" => request[r].key \in Keys /\ request[r].payload \in Payloads
  /\ Held(request[r]) => KeyHeld(request[r])
  /\ request[r].step = "answered" /\ request[r].response \in Bodies => Told(request[r])

\* What holds of a request that has arrived, and of its key's row.
LEMMA Arrived ==
  ASSUME IInv, NEW r \in Requests, request[r].step # "unsent"
  PROVE  /\ request[r].key \in Keys
         /\ request[r].payload \in Payloads
         /\ Tracked(r)
BY DEF IInv, RequestInv, Tracked

\* A request is tracked in the next state if neither it nor its key's row moves.
LEMMA StaysTracked ==
  ASSUME IInv, NEW r \in Requests, request'[r] = request[r],
         Held(request[r]) \/ (request[r].step = "answered" /\ request[r].response \in Bodies)
           => /\ command'[request[r].key] = command[request[r].key]
              /\ runs'[request[r].key] = runs[request[r].key]
  PROVE  Tracked(r)'
<1>1. Tracked(r)
  BY DEF IInv, RequestInv, Tracked
<1>2. ASSUME Held(request[r]) PROVE KeyHeld(request[r])'
  <2>1. /\ command'[request[r].key] = command[request[r].key]
        /\ runs'[request[r].key] = runs[request[r].key]
    BY <1>2 DEF Held
  <2>2. KeyHeld(request[r])
    BY <1>1, <1>2 DEF Tracked
  <2> QED
    BY <2>1, <2>2 DEF KeyHeld
<1>3. ASSUME request[r].step = "answered", request[r].response \in Bodies
      PROVE  Told(request[r])'
  BY <1>1, <1>3 DEF Tracked, Told
<1> QED
  BY <1>1, <1>2, <1>3 DEF Tracked, Held, KeyHeld, Told

\* A request that becomes answered, without an outcome, is tracked.
LEMMA RefusedTracked ==
  ASSUME IInv, NEW r \in Requests, NEW a, a \notin Bodies,
         request[r].step # "unsent", Reply(r, a)
  PROVE  Tracked(r)'
<1>1. request'[r] = [request[r] EXCEPT !.step = "answered", !.response = a]
  BY DEF Reply, IInv, TypeOK
<1>2. request[r] \in Request
  BY DEF IInv, TypeOK
<1>3. /\ request'[r].step = "answered" /\ request'[r].response = a
      /\ request'[r].key = request[r].key /\ request'[r].payload = request[r].payload
  BY <1>1, <1>2 DEF Request
<1> QED
  BY <1>3, Arrived DEF Tracked, Held

\* A reply is typed, leaves the other requests alone and frees the key.
LEMMA ReplyTyped ==
  ASSUME IInv, NEW r \in Requests, NEW a \in Answers, Reply(r, a)
  PROVE  /\ request' \in [Requests -> Request]
         /\ \A s \in Requests \ {r} : request'[s] = request[s]
         /\ OneHolder'
<1>1. request[r] \in Request
  BY DEF IInv, TypeOK
<1>2. [request[r] EXCEPT !.step = "answered", !.response = a] \in Request
  BY <1>1 DEF Request
<1>3. /\ request' \in [Requests -> Request]
      /\ \A s \in Requests \ {r} : request'[s] = request[s]
      /\ request'[r] = [request[r] EXCEPT !.step = "answered", !.response = a]
  BY <1>2 DEF Reply, IInv, TypeOK
<1>4. ~Held(request'[r])
  BY <1>1, <1>3 DEF Request, Held
<1> QED
  BY <1>3, <1>4 DEF IInv, OneHolder

\* A client's new request reserves nothing.
LEMMA ArriveStep ==
  ASSUME IInv, NEW r \in Requests, Arrive(r)
  PROVE  IInv'
<1>1. PICK k \in Keys, p \in Payloads :
        request' = [request EXCEPT ![r] = [step |-> "arrived", key |-> k, payload |-> p,
                                           response |-> None]]
  BY DEF Arrive
<1>2. TypeOK'
  BY <1>1 DEF Arrive, IInv, TypeOK, Request
<1>3. CommandInv'
  BY DEF Arrive, IInv, CommandInv
<1>4. /\ request'[r] = [step |-> "arrived", key |-> k, payload |-> p, response |-> None]
      /\ \A s \in Requests \ {r} : request'[s] = request[s]
  BY <1>1 DEF IInv, TypeOK
<1>5. ASSUME NEW s \in Requests PROVE Tracked(s)'
  <2>1. CASE s = r
    BY <2>1, <1>4 DEF Tracked, Held
  <2>2. CASE s # r
    BY <2>2, <1>4, StaysTracked DEF Arrive
  <2> QED
    BY <2>1, <2>2
<1>6. OneHolder'
  BY <1>4 DEF IInv, OneHolder, Held
<1> QED
  BY <1>2, <1>3, <1>5, <1>6 DEF IInv, RequestInv, Tracked

\* The reservation: a request finds the key free, and then holds it alone, or is
\* answered from the row that is there.
LEMMA ReserveStep ==
  ASSUME IInv, NEW r \in Requests, Reserve(r)
  PROVE  IInv'
<1> DEFINE k == request[r].key
           p == request[r].payload
<1>1. k \in Keys /\ p \in Payloads /\ request[r] \in Request
  BY Arrived DEF Reserve, IInv, TypeOK
<1>2. CASE command[k] = NoCommand
  <2>1. /\ command' = [command EXCEPT ![k] = [status |-> "processing", fingerprint |-> p,
                                              response |-> None]]
        /\ request' = [request EXCEPT ![r].step = "reserved"]
        /\ UNCHANGED <<runs, crashes>>
    BY <1>2 DEF Reserve
  <2>2. TypeOK'
    BY <1>1, <2>1 DEF IInv, TypeOK, Request, Command
  <2>3. runs[k] = <<>>
    BY <1>1, <1>2, NoneAssumption DEF IInv, CommandInv, NoCommand
  <2>4. CommandInv'
    BY <1>1, <2>1, <2>3 DEF IInv, CommandInv, TypeOK
  <2>5. /\ request'[r].step = "reserved" /\ request'[r].key = k /\ request'[r].payload = p
        /\ \A s \in Requests \ {r} : request'[s] = request[s]
        /\ command'[k].status = "processing" /\ command'[k].fingerprint = p
        /\ \A j \in Keys \ {k} : command'[j] = command[j]
    BY <1>1, <2>1 DEF IInv, TypeOK, Request
  <2>6. ASSUME NEW s \in Requests \ {r},
               Held(request[s]) \/ (request[s].step = "answered" /\ request[s].response \in Bodies)
        PROVE  request[s].key # k
    <3>1. command[request[s].key].fingerprint = request[s].payload /\ request[s].payload \in Payloads
      BY <2>6 DEF IInv, RequestInv, Held, KeyHeld, Told
    <3>2. command[k].fingerprint = None
      BY <1>2 DEF NoCommand
    <3> QED
      BY <3>1, <3>2, NoneAssumption
  <2>7. ASSUME NEW s \in Requests PROVE Tracked(s)'
    <3>1. CASE s = r
      BY <3>1, <1>1, <2>1, <2>3, <2>5 DEF Tracked, Held, KeyHeld
    <3>2. CASE s # r
      <4>1. Held(request[s]) \/ (request[s].step = "answered" /\ request[s].response \in Bodies)
              => request[s].key \in Keys \ {k}
        BY <3>2, <2>6, Arrived DEF Held
      <4> QED
        BY <3>2, <4>1, <2>1, <2>5, StaysTracked
    <3> QED
      BY <3>1, <3>2
  <2>8. OneHolder'
    <3> SUFFICES ASSUME NEW s \in Requests, NEW t \in Requests,
                        Held(request'[s]), Held(request'[t]), request'[s].key = request'[t].key
                 PROVE  s = t
      BY DEF OneHolder, Held
    <3>1. CASE s # r /\ t # r
      BY <3>1, <2>5 DEF IInv, OneHolder
    <3>2. ASSUME s # r, t = r PROVE FALSE
      <4>1. Held(request[s]) /\ request[s].key = k
        BY <3>2, <2>5 DEF Held
      <4> QED
        BY <3>2, <4>1, <2>6 DEF Held
    <3>3. ASSUME s = r, t # r PROVE FALSE
      <4>1. Held(request[t]) /\ request[t].key = k
        BY <3>3, <2>5 DEF Held
      <4> QED
        BY <3>3, <4>1, <2>6 DEF Held
    <3> QED
      BY <3>1, <3>2, <3>3
  <2> QED
    BY <2>2, <2>4, <2>7, <2>8 DEF IInv, RequestInv, Tracked
<1>3. CASE command[k] # NoCommand
  <2> DEFINE a == Verdict(command[k], p)
  <2>1. Reply(r, a) /\ UNCHANGED <<command, runs, crashes>>
    BY <1>3 DEF Reserve
  <2>2. a \in Answers /\ (a \in Bodies => /\ command[k].status = "complete"
                                         /\ command[k].fingerprint = p
                                         /\ command[k].response = a)
    BY <1>1, <1>3 DEF Verdict, Answers, Bodies, IInv, CommandInv
  <2>3. TypeOK' /\ CommandInv' /\ OneHolder'
    BY <2>1, <2>2, ReplyTyped DEF IInv, TypeOK, CommandInv
  <2>4. /\ request'[r].step = "answered" /\ request'[r].response = a
        /\ request'[r].key = k /\ request'[r].payload = p
    BY <1>1, <2>1 DEF Reply, IInv, TypeOK, Request
  <2>5. ASSUME NEW s \in Requests PROVE Tracked(s)'
    <3>1. CASE s = r
      BY <3>1, <1>1, <2>1, <2>2, <2>4 DEF Tracked, Held, Told
    <3>2. CASE s # r
      BY <3>2, <2>1, <2>2, ReplyTyped, StaysTracked
    <3> QED
      BY <3>1, <3>2
  <2> QED
    BY <2>3, <2>5 DEF IInv, RequestInv, Tracked
<1> QED
  BY <1>2, <1>3

\* The handler: only the holder of the key runs it, and it has not run before.
LEMMA HandleStep ==
  ASSUME IInv, NEW r \in Requests, Handle(r)
  PROVE  IInv'
<1> DEFINE k == request[r].key
           p == request[r].payload
<1>1. /\ k \in Keys /\ p \in Payloads /\ request[r] \in Request
      /\ runs[k] = <<>> /\ command[k].status = "processing" /\ command[k].fingerprint = p
  BY Arrived DEF Handle, IInv, TypeOK, Tracked, Held, KeyHeld
<1>2. runs' = [runs EXCEPT ![k] = <<p>>] /\ UNCHANGED <<command, crashes>>
  <2>1. Append(runs[k], p) = <<p>>
    BY <1>1
  <2> QED
    BY <2>1 DEF Handle
<1>3. runs' \in [Keys -> Seq(Payloads)] /\ runs'[k] = <<p>>
      /\ \A j \in Keys \ {k} : runs'[j] = runs[j]
  BY <1>1, <1>2 DEF IInv, TypeOK
<1>4. CommandInv'
  <2>1. command[k] # NoCommand
    BY <1>1, NoneAssumption DEF NoCommand
  <2>2. command[k].status # "complete"
    BY <1>1
  <2> QED
    BY <1>1, <1>2, <1>3, <2>1, <2>2 DEF IInv, CommandInv
<1>5. ASSUME NEW s \in Requests \ {r},
             Held(request[s]) \/ (request[s].step = "answered" /\ request[s].response \in Bodies)
      PROVE  request[s].key # k
  <2>1. CASE Held(request[s])
    BY <2>1 DEF IInv, OneHolder, Handle, Held
  <2>2. CASE request[s].step = "answered" /\ request[s].response \in Bodies
    BY <2>2, <1>1 DEF IInv, RequestInv, Told
  <2> QED
    BY <1>5, <2>1, <2>2
<1>6. ASSUME NEW s \in Requests \ {r}, request'[s] = request[s] PROVE Tracked(s)'
  <2>1. Held(request[s]) \/ (request[s].step = "answered" /\ request[s].response \in Bodies)
          => request[s].key \in Keys \ {k}
    BY <1>5, Arrived DEF Held
  <2> QED
    BY <1>6, <2>1, <1>2, <1>3, StaysTracked
<1>7. CASE \E b \in Bodies :
             request' = [request EXCEPT ![r] = [@ EXCEPT !.step = "handled", !.response = b]]
  <2>1. PICK b \in Bodies :
          request' = [request EXCEPT ![r] = [@ EXCEPT !.step = "handled", !.response = b]]
    BY <1>7
  <2>2. /\ request'[r].step = "handled" /\ request'[r].key = k /\ request'[r].payload = p
        /\ request'[r].response = b
        /\ \A s \in Requests \ {r} : request'[s] = request[s]
    BY <1>1, <2>1 DEF IInv, TypeOK, Request
  <2>3. TypeOK'
    <3>1. [request[r] EXCEPT !.step = "handled", !.response = b] \in Request
      BY <1>1 DEF Request, Answers
    <3> QED
      BY <1>2, <1>3, <2>1, <3>1 DEF IInv, TypeOK
  <2>4. ASSUME NEW s \in Requests PROVE Tracked(s)'
    <3>1. CASE s = r
      BY <3>1, <1>1, <1>2, <1>3, <2>2 DEF Tracked, Held, KeyHeld
    <3>2. CASE s # r
      <4>1. request'[s] = request[s]
        BY <3>2, <2>2
      <4> QED
        BY <3>2, <4>1, <1>6
    <3> QED
      BY <3>1, <3>2
  <2>5. OneHolder'
    <3>1. \A s \in Requests : Held(request'[s]) => Held(request[s])
      BY <2>2 DEF Held, Handle
    <3>2. \A s \in Requests : request'[s].key = request[s].key
      BY <2>2
    <3> QED
      BY <3>1, <3>2 DEF IInv, OneHolder
  <2> QED
    BY <1>4, <2>3, <2>4, <2>5 DEF IInv, RequestInv, Tracked
<1>8. CASE Reply(r, "server_error")
  <2>1. "server_error" \in Answers /\ "server_error" \notin Bodies
    BY DEF Answers, Bodies
  <2>2. TypeOK' /\ OneHolder'
    BY <1>2, <1>3, <1>8, <2>1, ReplyTyped DEF IInv, TypeOK
  <2>3. ASSUME NEW s \in Requests PROVE Tracked(s)'
    <3>1. CASE s = r
      BY <3>1, <1>8, <2>1, RefusedTracked DEF Handle
    <3>2. CASE s # r
      <4>1. request'[s] = request[s]
        BY <3>2, <1>8, <2>1, ReplyTyped
      <4> QED
        BY <3>2, <4>1, <1>6
    <3> QED
      BY <3>1, <3>2
  <2> QED
    BY <1>4, <2>2, <2>3 DEF IInv, RequestInv, Tracked
<1> QED
  BY <1>7, <1>8 DEF Handle

\* The stored response: the holder makes the outcome final and lets go.
LEMMA CompleteStep ==
  ASSUME IInv, NEW r \in Requests, Complete(r)
  PROVE  IInv'
<1> DEFINE k == request[r].key
           p == request[r].payload
           b == request[r].response
<1>1. /\ k \in Keys /\ p \in Payloads /\ command[k] \in Command
      /\ command[k].status = "processing" /\ command[k].fingerprint = p
      /\ runs[k] = <<p>> /\ b \in Bodies
  BY Arrived DEF Complete, IInv, TypeOK, Tracked, Held, KeyHeld
<1>2. /\ command' = [command EXCEPT ![k] = [@ EXCEPT !.status = "complete", !.response = b]]
      /\ Reply(r, b) /\ UNCHANGED <<runs, crashes>>
  BY DEF Complete
<1>3. b \in Answers
  BY <1>1 DEF Answers
<1>4. /\ command'[k] \in Command /\ command'[k].status = "complete"
      /\ command'[k].fingerprint = p /\ command'[k].response = b
      /\ command' \in [Keys -> Command]
      /\ \A j \in Keys \ {k} : command'[j] = command[j]
  <2> DEFINE c == [command[k] EXCEPT !.status = "complete", !.response = b]
  <2>1. c \in Command /\ c.status = "complete" /\ c.fingerprint = p /\ c.response = b
    BY <1>1 DEF Command
  <2>2. /\ command'[k] = c /\ command' \in [Keys -> Command]
        /\ \A j \in Keys \ {k} : command'[j] = command[j]
    BY <1>1, <1>2, <2>1 DEF IInv, TypeOK
  <2> QED
    BY <2>1, <2>2
<1>5. TypeOK' /\ OneHolder'
  BY <1>2, <1>3, <1>4, ReplyTyped DEF IInv, TypeOK
<1>6. CommandInv'
  BY <1>1, <1>2, <1>4 DEF IInv, CommandInv
<1>7. ASSUME NEW s \in Requests PROVE Tracked(s)'
  <2>1. CASE s = r
    <3>1. /\ request'[r].step = "answered" /\ request'[r].response = b
          /\ request'[r].key = k /\ request'[r].payload = p
      BY <1>2 DEF Reply, IInv, TypeOK, Request
    <3> QED
      BY <2>1, <3>1, <1>1, <1>4 DEF Tracked, Held, Told
  <2>2. CASE s # r
    <3>1. request'[s] = request[s]
      BY <2>2, <1>2, <1>3, ReplyTyped
    <3>2. ASSUME Held(request[s]) PROVE request[s].key \in Keys \ {k}
      BY <2>2, <3>2, Arrived DEF IInv, OneHolder, Complete, Held
    <3>3. ASSUME request[s].step = "answered", request[s].response \in Bodies
          PROVE  request[s].key \in Keys \ {k}
      BY <3>3, <1>1 DEF IInv, RequestInv, Told
    <3> QED
      BY <3>1, <3>2, <3>3, <1>2, <1>4, StaysTracked
  <2> QED
    BY <2>1, <2>2
<1> QED
  BY <1>5, <1>6, <1>7 DEF IInv, RequestInv, Tracked

\* A dead process holds nothing any more, and leaves the row as it is.
LEMMA CrashStep ==
  ASSUME IInv, NEW r \in Requests, Crash(r)
  PROVE  IInv'
<1>1. Reply(r, "lost") /\ UNCHANGED <<command, runs>> /\ crashes' \in 0 .. MaxCrashes
  BY CrashAssumption DEF Crash, IInv, TypeOK
<1>2. "lost" \in Answers /\ "lost" \notin Bodies
  BY DEF Answers, Bodies
<1>3. TypeOK' /\ OneHolder' /\ CommandInv'
  BY <1>1, <1>2, ReplyTyped DEF IInv, TypeOK, CommandInv
<1>4. ASSUME NEW s \in Requests PROVE Tracked(s)'
  <2>1. CASE s = r
    BY <2>1, <1>1, <1>2, RefusedTracked DEF Crash
  <2>2. CASE s # r
    BY <2>2, <1>1, <1>2, ReplyTyped, StaysTracked
  <2> QED
    BY <2>1, <2>2
<1> QED
  BY <1>3, <1>4 DEF IInv, RequestInv, Tracked

\* Every step keeps the invariant.
LEMMA InvStep == IInv /\ [Next]_vars => IInv'
<1> SUFFICES ASSUME IInv, [Next]_vars PROVE IInv'
  OBVIOUS
<1>1. CASE \E r \in Requests : Arrive(r) \/ Step(r) \/ Crash(r)
  BY <1>1, ArriveStep, ReserveStep, HandleStep, CompleteStep, CrashStep DEF Step
<1>2. CASE UNCHANGED vars
  BY <1>2 DEF vars, IInv, TypeOK, CommandInv, RequestInv, OneHolder, KeyHeld, Told
<1> QED
  BY <1>1, <1>2 DEF Next

\* The inductive invariant holds in every reachable state.
THEOREM Invariance == Spec => []IInv
BY InvInit, InvStep, PTL DEF Spec

\* Every reachable state is well typed.
THEOREM TypeCorrect == Spec => []TypeOK
<1>1. IInv => TypeOK
  BY DEF IInv
<1> QED
  BY <1>1, Invariance, PTL

\* However requests with one key race, crash and are retried, its handler runs at
\* most once.
THEOREM RunsAtMostOnceAlways == Spec => []RunsAtMostOnce
<1>1. IInv => RunsAtMostOnce
  <2> SUFFICES ASSUME IInv, NEW k \in Keys PROVE Len(runs[k]) <= 1
    BY DEF RunsAtMostOnce
  <2>1. runs[k] = <<>> \/ \E p \in Payloads : runs[k] = <<p>>
    BY DEF IInv, CommandInv
  <2>2. CASE runs[k] = <<>>
    BY <2>2
  <2>3. ASSUME NEW p \in Payloads, runs[k] = <<p>> PROVE Len(runs[k]) <= 1
    <3>1. Len(<<p>>) = 1
      OBVIOUS
    <3> QED
      BY <2>3, <3>1
  <2> QED
    BY <2>1, <2>2, <2>3
<1> QED
  BY <1>1, Invariance, PTL

\* All clients that are told an outcome of one key are told the same.
THEOREM RepliesAgreeAlways == Spec => []RepliesAgree
<1>1. IInv => RepliesAgree
  BY NoneAssumption DEF IInv, RequestInv, CommandInv, Told, RepliesAgree, NoCommand, Bodies
<1> QED
  BY <1>1, Invariance, PTL

\* Every step of the decorator is a step of the promise or leaves it alone.
LEMMA OnceStep == IInv /\ [Next]_vars => [Once!OnceNext]_(Once!onceVars)
<1> SUFFICES ASSUME IInv, [Next]_vars PROVE [Once!OnceNext]_(Once!onceVars)
  OBVIOUS
<1> DEFINE settled == [k \in Keys |-> command[k].response]
<1>1. ASSUME command' = command, runs' = runs PROVE UNCHANGED Once!onceVars
  BY <1>1 DEF Once!onceVars
<1>2. ASSUME NEW r \in Requests, Reserve(r) PROVE UNCHANGED Once!onceVars
  <2>1. request[r].key \in Keys
    BY <1>2, Arrived DEF Reserve
  <2>2. ASSUME NEW k \in Keys PROVE command'[k].response = command[k].response
    <3>1. CASE command' = command
      BY <3>1
    <3>2. CASE /\ command[request[r].key] = NoCommand
               /\ command' = [command EXCEPT ![request[r].key] =
                               [status |-> "processing", fingerprint |-> request[r].payload,
                                response |-> None]]
      BY <3>2, <2>1 DEF NoCommand, IInv, TypeOK
    <3> QED
      BY <1>2, <3>1, <3>2 DEF Reserve
  <2>3. settled' = settled /\ runs' = runs
    BY <1>2, <2>2 DEF Reserve
  <2> QED
    BY <2>3 DEF Once!onceVars
<1>3. ASSUME NEW r \in Requests, Handle(r) PROVE Once!OnceNext
  <2> DEFINE k == request[r].key
             p == request[r].payload
  <2>1. /\ k \in Keys /\ p \in Payloads
        /\ runs[k] = <<>> /\ command[k].status = "processing" /\ command[k].fingerprint = p
    BY <1>3, Arrived DEF Handle, Tracked, Held, KeyHeld
  <2>2. command[k].response = None
    BY <2>1, NoneAssumption DEF IInv, CommandInv, NoCommand
  <2>3. Append(runs[k], p) = <<p>>
    BY <2>1
  <2>4. runs' = [runs EXCEPT ![k] = <<p>>] /\ settled' = settled
    BY <1>3, <2>3 DEF Handle
  <2>5. Once!Run(k)
    BY <2>1, <2>2, <2>4 DEF Once!Run
  <2> QED
    BY <2>1, <2>5 DEF Once!OnceNext
<1>4. ASSUME NEW r \in Requests, Complete(r) PROVE Once!OnceNext
  <2> DEFINE k == request[r].key
             b == request[r].response
  <2>1. /\ k \in Keys /\ b \in Bodies /\ command[k].status = "processing"
        /\ runs[k] = <<request[r].payload>> /\ command[k].fingerprint \in Payloads
    BY <1>4, Arrived DEF Complete, Tracked, Held, KeyHeld
  <2>2. command[k].response = None
    BY <2>1, NoneAssumption DEF IInv, CommandInv, NoCommand
  <2>3. \A j \in Keys : command'[j].response = IF j = k THEN b ELSE command[j].response
    BY <1>4, <2>1 DEF Complete, IInv, TypeOK, Command
  <2>4. settled' = [settled EXCEPT ![k] = b] /\ runs' = runs
    BY <1>4, <2>1, <2>3 DEF Complete
  <2>5. runs[k] # <<>>
    BY <2>1
  <2>6. settled[k] = None
    BY <2>1, <2>2
  <2> QED
    BY <2>1, <2>4, <2>5, <2>6 DEF Once!OnceNext, Once!Settle
<1>5. ASSUME NEW r \in Requests, Arrive(r) \/ Crash(r)
      PROVE  command' = command /\ runs' = runs
  BY <1>5 DEF Arrive, Crash
<1>6. UNCHANGED vars => command' = command /\ runs' = runs
  BY DEF vars
<1> QED
  BY <1>1, <1>2, <1>3, <1>4, <1>5, <1>6 DEF Next, Step

\* The decorator keeps the promise of AtMostOnce.
THEOREM Refinement == Spec => KeepsThePromise
<1>1. Init => Once!OnceInit
  BY DEF Init, Once!OnceInit, NoCommand
<1> QED
  BY <1>1, OnceStep, Invariance, PTL DEF Spec, KeepsThePromise, Once!OnceSpec

\* An ambiguous command stays reserved and is never run again: no request that
\* holds it is left, and only a holder moves its row.
THEOREM AmbiguousStaysReservedAlways == Spec => AmbiguousStaysReserved
<1>1. IInv /\ [Next]_vars
        => [\A k \in Keys : command[k].status = "processing" /\ Holders(k) = {}
                             => /\ command'[k] = command[k]
                                /\ runs'[k] = runs[k]]_vars
  <2> SUFFICES ASSUME IInv, [Next]_vars, NEW k \in Keys,
                      command[k].status = "processing", Holders(k) = {}
               PROVE  command'[k] = command[k] /\ runs'[k] = runs[k]
    OBVIOUS
  <2>1. command[k] # NoCommand
    BY NoneAssumption DEF NoCommand
  <2>2. ASSUME NEW r \in Requests, Reserve(r) PROVE command'[k] = command[k] /\ runs'[k] = runs[k]
    BY <2>1, <2>2 DEF Reserve, IInv, TypeOK
  <2>3. ASSUME NEW r \in Requests, Handle(r) \/ Complete(r)
        PROVE  command'[k] = command[k] /\ runs'[k] = runs[k]
    <3>1. request[r].key # k
      BY <2>3 DEF Holders, Handle, Complete
    <3> QED
      BY <2>3, <3>1 DEF Handle, Complete, IInv, TypeOK
  <2>4. ASSUME NEW r \in Requests, Arrive(r) \/ Crash(r) \/ UNCHANGED vars
        PROVE  command'[k] = command[k] /\ runs'[k] = runs[k]
    BY <2>4 DEF Arrive, Crash, vars
  <2>5. UNCHANGED vars => command'[k] = command[k] /\ runs'[k] = runs[k]
    BY DEF vars
  <2> QED
    BY <2>2, <2>3, <2>4, <2>5 DEF Next, Step
<1> QED
  BY <1>1, Invariance, PTL DEF Spec, AmbiguousStaysReserved

-----------------------------------------------------------------------------
(* The disconnect: its invariant.                                          *)

WorldOK ==
  /\ device \in [Devices -> DeviceRow]
  /\ session \in [Sessions -> SessionRow]
  /\ task \in [Requests -> Task]
  /\ deleted \subseteq Devices
  /\ sent \in [Keys -> Seq(Devices)]
  /\ events \in [Keys -> SUBSET Devices]

\* A session that has begun has a router and an address.
SessionInv == \A s \in Sessions :
  session[s] = NoSession \/ (session[s].device \in Devices /\ session[s].address # {})

\* A key's success: one packet, and its event while the router has a row.
OneEvent(k) == \E d \in Devices : sent[k] = <<d>> /\ events[k] = {d} \ deleted

\* What has been sent and logged under the key of a request in the decorator.
Counted(r) ==
  /\ request[r].step # "reserved" => task[r] = NoTask
  /\ task[r].step \in {"routed", "sent"} => task[r].router \in Devices
  /\ request[r].step = "reserved" =>
       /\ sent[request[r].key] = IF task[r].step = "sent" THEN <<task[r].router>> ELSE <<>>
       /\ events[request[r].key] = {}
  /\ request[r].step = "handled" =>
       /\ request[r].response = "ok" => OneEvent(request[r].key)
       /\ request[r].response = "error" => events[request[r].key] = {}

KeyCounted(k) ==
  /\ sent[k] = <<>> \/ \E d \in Devices : sent[k] = <<d>>
  /\ \A d \in events[k] : sent[k] = <<d>>
  /\ command[k] = NoCommand => sent[k] = <<>>
  /\ command[k].response = "ok" => OneEvent(k)
  /\ command[k].response = "error" => events[k] = {}

TaskInv == (\A r \in Requests : Counted(r)) /\ \A k \in Keys : KeyCounted(k)

\* What a handler has read, while nobody has changed the router table since.
Own(t, a) == \E d \in Devices : DeviceOf[d] = t /\ a \in device[d].addresses
Current(r) ==
  request[r].step = "reserved" /\ r \notin outdated =>
    /\ task[r].step = "own" => \A a \in task[r].addresses : Own(TenantOf(r), a)
    /\ task[r].step \in {"addressed", "found", "routed"} =>
         \A a \in task[r].addresses : Own(TenantOf(r), a) /\ Cardinality(Holding(a)) = 1
    /\ task[r].step \in {"found", "routed"} =>
         /\ session[SessionOf(r)] # NoSession
         /\ session[SessionOf(r)].address \subseteq task[r].addresses
ReadInv == \A r \in Requests : Current(r)

DInv == IInv /\ WorldOK /\ SessionInv /\ TaskInv /\ ReadInv

-----------------------------------------------------------------------------
(* Disconnects are commands of the decorator.                              *)

\* A step here is a step of the decorator, or leaves it alone.
LEMMA DecoratorStep == [DisconnectNext]_allvars => [Next]_vars
<1> SUFFICES ASSUME [DisconnectNext]_allvars PROVE [Next]_vars
  OBVIOUS
<1>1. ASSUME NEW r \in Requests, Arrive(r) \/ Reserve(r) \/ Handle(r) \/ Complete(r) \/ Crash(r)
      PROVE  Next
  BY <1>1 DEF Next, Step
<1>2. ASSUME NEW r \in Requests, Proceed(r) PROVE [Next]_vars
  <2>1. CASE ReadOwn(r) \/ DropAmbiguous(r) \/ FindSession(r) \/ FindRouter(r) \/ Send(r)
    BY <2>1 DEF ReadOwn, DropAmbiguous, FindSession, FindRouter, Send, Advance
  <2>2. ASSUME NEW answer, Return(r, answer) PROVE Handle(r)
    BY <2>2 DEF Return
  <2>3. Elsewhere(Reserve(r)) => Reserve(r)
    BY DEF Elsewhere
  <2>4. Elsewhere(Complete(r)) => Complete(r)
    BY DEF Elsewhere
  <2> QED
    BY <1>1, <1>2, <2>1, <2>2, <2>3, <2>4 DEF Proceed
<1>3. ASSUME NEW r \in Requests, Elsewhere(Arrive(r)) \/ Die(r) PROVE Next
  BY <1>1, <1>3 DEF Elsewhere, Die
<1>4. ASSUME NEW d \in Devices, NEW addresses, NEW active, Configure(d, addresses, active)
      PROVE  UNCHANGED vars
  BY <1>4 DEF Configure
<1>4a. ASSUME NEW d \in Devices, Delete(d) PROVE UNCHANGED vars
  BY <1>4a DEF Delete
<1>5. ASSUME NEW s \in Sessions, StopSession(s) \/ \E d \in Devices : StartSession(s, d)
      PROVE  UNCHANGED vars
  BY <1>5 DEF StopSession, StartSession
<1>6. CASE UNCHANGED allvars
  BY <1>6 DEF allvars
<1> QED
  BY <1>2, <1>3, <1>4, <1>4a, <1>5, <1>6 DEF DisconnectNext

\* Every disconnect is a run of the decorator: what is proved of IdempotentCommand,
\* that replies agree and ambiguous commands stay reserved, holds of disconnects.
THEOREM DisconnectIsIdempotent == DisconnectSpec => Spec
<1>1. DisconnectInit => Init
  BY DEF DisconnectInit
<1> QED
  BY <1>1, DecoratorStep, PTL DEF DisconnectSpec, Spec

\* The decorator's promises hold of disconnects.
THEOREM DisconnectRepliesAgree == DisconnectSpec => []RepliesAgree
BY DisconnectIsIdempotent, RepliesAgreeAlways, PTL

\* A disconnect whose process died is never tried again behind the same key.
THEOREM DisconnectStaysReserved == DisconnectSpec => AmbiguousStaysReserved
BY DisconnectIsIdempotent, AmbiguousStaysReservedAlways, PTL

\* Disconnects implement AtMostOnce.
THEOREM DisconnectRefinement == DisconnectSpec => KeepsThePromise
BY DisconnectIsIdempotent, Refinement, PTL

LEMMA DecoratorInv == IInv /\ [DisconnectNext]_allvars => IInv'
BY DecoratorStep, InvStep

LEMMA NullTask == NoTask \in Task /\ NoTask.step = "start"
BY DEF NoTask, Task

LEMMA DInvInit == DisconnectInit => DInv
<1> SUFFICES ASSUME DisconnectInit PROVE DInv
  OBVIOUS
<1>1. /\ Init /\ device = [d \in Devices |-> NoRow]
      /\ session = [s \in Sessions |-> NoSession] /\ task = [r \in Requests |-> NoTask]
      /\ deleted = {} /\ sent = [k \in Keys |-> <<>>] /\ events = [k \in Keys |-> {}]
  BY DEF DisconnectInit
<1>2. WorldOK
  BY <1>1, NullTask DEF WorldOK, DeviceRow, SessionRow, NoSession, NoRow
<1>3. SessionInv
  BY <1>1 DEF SessionInv
<1>4. /\ \A r \in Requests : request[r].step = "unsent"
      /\ \A k \in Keys : command[k].response = None
  BY <1>1 DEF Init, Unsent, NoCommand
<1>5. TaskInv
  BY <1>1, <1>4, NoneAssumption, NullTask DEF TaskInv, Counted, KeyCounted
<1>6. ReadInv
  BY <1>4 DEF ReadInv, Current
<1> QED
  BY <1>1, <1>2, <1>3, <1>5, <1>6, InvInit DEF DInv

-----------------------------------------------------------------------------
(* Steps of the decorator around the handler.                              *)

\* A key without a packet has no event.
LEMMA NoPacket ==
  ASSUME NEW k \in Keys, KeyCounted(k), sent[k] = <<>>
  PROVE  events[k] = {}
<1>1. \A d : <<d>> # <<>>
  OBVIOUS
<1> QED
  BY <1>1 DEF KeyCounted

\* A request that neither moves nor has its key counted on stays counted.
LEMMA StaysCounted ==
  ASSUME NEW r \in Requests, Counted(r), request'[r] = request[r], task'[r] = task[r],
         deleted' = deleted,
         Held(request[r]) => /\ sent'[request[r].key] = sent[request[r].key]
                             /\ events'[request[r].key] = events[request[r].key]
  PROVE  Counted(r)'
BY DEF Counted, Held, OneEvent

\* So does what it has read, while the tables it read stay.
LEMMA StaysCurrent ==
  ASSUME NEW r \in Requests, Current(r), request'[r] = request[r], task'[r] = task[r],
         UNCHANGED world, r \notin outdated' => r \notin outdated
  PROVE  Current(r)'
BY DEF Current, Own, Holding, TenantOf, SessionOf, world

LEMMA ElsewhereStep ==
  ASSUME DInv, IInv', NEW r \in Requests, Arrive(r) \/ Reserve(r) \/ Complete(r),
         UNCHANGED <<world, handler>>
  PROVE  DInv'
<1>1. WorldOK' /\ SessionInv'
  BY DEF DInv, world, handler, WorldOK, SessionInv
<1>2. /\ UNCHANGED <<task, sent, events, outdated, deleted>> /\ TypeOK
      /\ \A s \in Requests : Counted(s) /\ Current(s)
      /\ \A k \in Keys : KeyCounted(k)
  BY DEF DInv, IInv, TaskInv, ReadInv, handler, world
<1>3. \A s \in Requests \ {r} : request'[s] = request[s]
  BY <1>2 DEF Arrive, Reserve, Complete, Reply, TypeOK
<1>4. \A s \in Requests \ {r} : Counted(s)' /\ Current(s)'
  BY <1>2, <1>3, StaysCounted, StaysCurrent
<1>5. request[r] \in Request
  BY <1>2 DEF TypeOK
<1>6. request[r].step # "reserved" /\ task[r] = NoTask
  BY <1>2 DEF Arrive, Reserve, Complete, Counted
<1>7. CASE Arrive(r)
  <2>1. request'[r].step = "arrived" /\ command' = command
    BY <1>2, <1>7 DEF Arrive, TypeOK
  <2>2. Counted(r)' /\ Current(r)'
    BY <1>2, <1>6, <2>1 DEF Counted, Current
  <2>3. \A k \in Keys : KeyCounted(k)'
    BY <1>2, <2>1 DEF KeyCounted, OneEvent
  <2> QED
    BY <1>1, <1>4, <2>2, <2>3 DEF DInv, TaskInv, ReadInv
<1>8. CASE Reserve(r)
  <2>1. PICK k : k = request[r].key
    OBVIOUS
  <2>2. k \in Keys
    BY <1>8, <2>1, Arrived DEF DInv, Reserve
  <2>3. CASE command[k] = NoCommand
    <3>1. PICK row : row = [status |-> "processing", fingerprint |-> request[r].payload,
                            response |-> None]
      OBVIOUS
    <3>2. /\ request' = [request EXCEPT ![r].step = "reserved"]
          /\ command' = [command EXCEPT ![k] = row]
      BY <1>8, <2>1, <2>3, <3>1 DEF Reserve
    <3>3. /\ request'[r].step = "reserved" /\ request'[r].key = k
          /\ command'[k] = row /\ \A j \in Keys \ {k} : command'[j] = command[j]
      BY <1>2, <1>5, <2>1, <2>2, <3>2 DEF TypeOK, Request
    <3>4. sent[k] = <<>> /\ events[k] = {}
      BY <1>2, <2>2, <2>3, NoPacket DEF KeyCounted, OneEvent
    <3>5. Counted(r)' /\ Current(r)'
      BY <1>2, <1>6, <3>3, <3>4, NullTask DEF Counted, Current
    <3>6. KeyCounted(k)'
      BY <1>2, <2>2, <3>1, <3>3, <3>4, NoneAssumption DEF KeyCounted, NoCommand
    <3>7. \A j \in Keys \ {k} : KeyCounted(j)'
      BY <1>2, <3>3 DEF KeyCounted, OneEvent
    <3> QED
      BY <1>1, <1>4, <3>5, <3>6, <3>7 DEF DInv, TaskInv, ReadInv
  <2>4. CASE command[k] # NoCommand
    <3>0. Reply(r, Verdict(command[k], request[r].payload)) /\ UNCHANGED command
      BY <1>8, <2>1, <2>4 DEF Reserve
    <3>1. request'[r].step = "answered"
      BY <1>2, <1>5, <3>0 DEF Reply, TypeOK, Request
    <3>2. Counted(r)' /\ Current(r)'
      BY <1>2, <1>6, <3>1 DEF Counted, Current
    <3>3. \A j \in Keys : KeyCounted(j)'
      BY <1>2, <3>0 DEF KeyCounted, OneEvent
    <3> QED
      BY <1>1, <1>4, <3>2, <3>3 DEF DInv, TaskInv, ReadInv
  <2> QED
    BY <2>3, <2>4
<1>9. CASE Complete(r)
  <2>1. PICK k : k = request[r].key
    OBVIOUS
  <2>2. k \in Keys /\ request[r].step = "handled"
    BY <1>9, <2>1, Arrived DEF DInv, Complete
  <2>3. PICK row : row = [command[k] EXCEPT !.status = "complete", !.response = request[r].response]
    OBVIOUS
  <2>4. command' = [command EXCEPT ![k] = row] /\ Reply(r, request[r].response)
    BY <1>2, <1>9, <2>1, <2>2, <2>3 DEF Complete, TypeOK
  <2>5. row.status = "complete" /\ row.response = request[r].response
    BY <1>2, <2>2, <2>3 DEF TypeOK, Command
  <2>6. /\ command'[k] = row /\ \A j \in Keys \ {k} : command'[j] = command[j]
        /\ request'[r].step = "answered"
    BY <1>2, <1>5, <2>2, <2>4 DEF TypeOK, Reply, Request
  <2>7. Counted(r)' /\ Current(r)'
    BY <1>2, <1>6, <2>6 DEF Counted, Current
  <2>8. KeyCounted(k)'
    <3>1. KeyCounted(k) /\ Counted(r) /\ UNCHANGED <<sent, events, deleted>>
      BY <1>2, <2>2
    <3>2. command'[k] # NoCommand /\ command'[k].response = request[r].response
      BY <2>5, <2>6, NoneAssumption DEF NoCommand
    <3>3. /\ request[r].response = "ok" => OneEvent(k)
          /\ request[r].response = "error" => events[k] = {}
      BY <2>1, <2>2, <3>1 DEF Counted
    <3>4. request[r].response = "ok" => OneEvent(k)'
      BY <3>1, <3>3 DEF OneEvent
    <3> QED
      BY <3>1, <3>2, <3>3, <3>4 DEF KeyCounted
  <2>9. \A j \in Keys \ {k} : KeyCounted(j)'
    BY <1>2, <2>6 DEF KeyCounted, OneEvent
  <2> QED
    BY <1>1, <1>4, <2>7, <2>8, <2>9 DEF DInv, TaskInv, ReadInv
<1> QED
  BY <1>7, <1>8, <1>9

-----------------------------------------------------------------------------
(* The handler.                                                            *)

\* The handler's steps up to the packet only read: no row and no count changes.
LEMMA ReadStep ==
  ASSUME DInv, IInv', NEW r \in Requests, request[r].step = "reserved",
         NEW fields \in Task, Advance(r, fields),
         task[r].step # "sent", fields.step \notin {"start", "sent"},
         fields.step = "routed" => fields.router \in Devices,
         r \notin outdated =>
           /\ fields.step = "own" => \A a \in fields.addresses : Own(TenantOf(r), a)
           /\ fields.step \in {"addressed", "found", "routed"} =>
                \A a \in fields.addresses : Own(TenantOf(r), a) /\ Cardinality(Holding(a)) = 1
           /\ fields.step \in {"found", "routed"} =>
                /\ session[SessionOf(r)] # NoSession
                /\ session[SessionOf(r)].address \subseteq fields.addresses
  PROVE  DInv'
<1>1. /\ UNCHANGED <<vars, world, sent, events, outdated>> /\ task' = [task EXCEPT ![r] = fields]
      /\ UNCHANGED <<command, request, device, session, deleted>>
  BY DEF Advance, vars, world
<1>2. /\ task' \in [Requests -> Task] /\ task'[r] = fields
      /\ \A s \in Requests \ {r} : task'[s] = task[s]
  BY <1>1 DEF DInv, WorldOK
<1>3. WorldOK' /\ SessionInv'
  BY <1>1, <1>2 DEF DInv, WorldOK, SessionInv
<1>4. /\ \A s \in Requests : Counted(s) /\ Current(s)
      /\ \A k \in Keys : KeyCounted(k)
  BY DEF DInv, TaskInv, ReadInv
<1>5. \A s \in Requests \ {r} : Counted(s)' /\ Current(s)'
  BY <1>1, <1>2, <1>4, StaysCounted, StaysCurrent
<1>6. Counted(r)'
  BY <1>1, <1>2, <1>4 DEF Counted
<1>7. Current(r)'
  BY <1>1, <1>2 DEF Current, Own, Holding, TenantOf, SessionOf
<1>8. \A k \in Keys : KeyCounted(k)'
  BY <1>1, <1>4 DEF KeyCounted, OneEvent
<1> QED
  BY <1>3, <1>5, <1>6, <1>7, <1>8 DEF DInv, TaskInv, ReadInv

LEMMA ReadOwnStep ==
  ASSUME DInv, IInv', NEW r \in Requests, ReadOwn(r)
  PROVE  DInv'
<1> DEFINE found == UNION {device[d].addresses : d \in {e \in Devices : DeviceOf[e] = TenantOf(r)}}
           fields == [NoTask EXCEPT !.step = "own", !.addresses = found]
<1>1. request[r].step = "reserved" /\ task[r].step = "start" /\ Advance(r, fields)
  BY DEF ReadOwn, At
<1>2. \A d \in Devices : device[d].addresses \subseteq Addresses
  BY DEF DInv, WorldOK, DeviceRow
<1>3. found \subseteq Addresses /\ \A a \in found : Own(TenantOf(r), a)
  BY <1>2 DEF Own
<1> HIDE DEF found
<1>4. fields \in Task /\ fields.step = "own" /\ fields.addresses = found
  BY <1>3 DEF NoTask, Task
<1> HIDE DEF fields
<1> QED
  BY <1>1, <1>3, <1>4, ReadStep

LEMMA DropAmbiguousStep ==
  ASSUME DInv, IInv', NEW r \in Requests, DropAmbiguous(r)
  PROVE  DInv'
<1> DEFINE left == {a \in task[r].addresses : Matches(TenantOf(r), a) = 1}
           fields == [task[r] EXCEPT !.step = "addressed", !.addresses = left]
<1>1. task[r] \in Task /\ Current(r)
  BY DEF DInv, WorldOK, ReadInv
<1>2. request[r].step = "reserved" /\ task[r].step = "own" /\ Advance(r, fields)
  BY DEF DropAmbiguous, At
<1>3. left \subseteq task[r].addresses /\ \A a \in left : Cardinality(Holding(a)) = 1
  BY DEF Matches
<1> HIDE DEF left
<1>4. fields \in Task /\ fields.step = "addressed" /\ fields.addresses = left
  BY <1>1, <1>3 DEF Task
<1> HIDE DEF fields
<1>5. r \notin outdated => \A a \in left : Own(TenantOf(r), a)
  BY <1>1, <1>2, <1>3 DEF Current
<1> QED
  BY <1>2, <1>3, <1>4, <1>5, ReadStep

LEMMA FindSessionStep ==
  ASSUME DInv, IInv', NEW r \in Requests, FindSession(r)
  PROVE  DInv'
<1> DEFINE fields == [task[r] EXCEPT !.step = "found"]
<1>1. task[r] \in Task /\ Current(r)
  BY DEF DInv, WorldOK, ReadInv
<1>2. /\ request[r].step = "reserved" /\ task[r].step = "addressed" /\ Advance(r, fields)
      /\ session[SessionOf(r)].open /\ session[SessionOf(r)].address \subseteq task[r].addresses
  BY DEF FindSession, At, Visible
<1>3. session[SessionOf(r)] # NoSession
  BY <1>2 DEF NoSession
<1>4. fields \in Task /\ fields.step = "found" /\ fields.addresses = task[r].addresses
  BY <1>1 DEF Task
<1> HIDE DEF fields
<1>5. r \notin outdated =>
        \A a \in task[r].addresses : Own(TenantOf(r), a) /\ Cardinality(Holding(a)) = 1
  BY <1>1, <1>2 DEF Current
<1> QED
  BY <1>2, <1>3, <1>4, <1>5, ReadStep

LEMMA FindRouterStep ==
  ASSUME DInv, IInv', NEW r \in Requests, FindRouter(r)
  PROVE  DInv'
<1>0. PICK d \in Routers(r) : Advance(r, [task[r] EXCEPT !.step = "routed", !.router = d])
  BY DEF FindRouter
<1> DEFINE fields == [task[r] EXCEPT !.step = "routed", !.router = d]
<1>1. task[r] \in Task /\ Current(r) /\ d \in Devices
  BY DEF DInv, WorldOK, ReadInv, Routers
<1>2. request[r].step = "reserved" /\ task[r].step = "found" /\ Advance(r, fields)
  BY <1>0 DEF FindRouter, At
<1>3. fields \in Task /\ fields.step = "routed" /\ fields.router \in Devices /\ fields.addresses = task[r].addresses
  BY <1>1 DEF Task
<1> HIDE DEF fields
<1>4. r \notin outdated =>
        /\ \A a \in task[r].addresses : Own(TenantOf(r), a) /\ Cardinality(Holding(a)) = 1
        /\ session[SessionOf(r)] # NoSession
        /\ session[SessionOf(r)].address \subseteq task[r].addresses
  BY <1>1, <1>2 DEF Current
<1> QED
  BY <1>2, <1>3, <1>4, ReadStep

\* Nobody else is at work under the key of a request that holds it.
LEMMA OthersElsewhere ==
  ASSUME IInv, NEW r \in Requests, request[r].step = "reserved",
         NEW s \in Requests \ {r}, Held(request[s])
  PROVE  request[s].key \in Keys \ {request[r].key}
BY Arrived DEF IInv, OneHolder, Held

LEMMA SendStep ==
  ASSUME DInv, IInv', NEW r \in Requests, Send(r)
  PROVE  DInv'
<1>1. PICK k : k = request[r].key
  OBVIOUS
<1>2. /\ request[r].step = "reserved" /\ task[r].step = "routed"
      /\ sent' = [sent EXCEPT ![k] = Append(@, task[r].router)]
      /\ UNCHANGED <<command, request, device, session, deleted, events, outdated, world>>
  BY <1>1 DEF Send, At, vars, world
<1>3. /\ k \in Keys /\ IInv /\ sent[k] = <<>> /\ events[k] = {} /\ task[r] \in Task
      /\ task[r].router \in Devices
      /\ \A s \in Requests : Counted(s) /\ Current(s)
      /\ \A j \in Keys : KeyCounted(j)
  <2>1. k \in Keys
    BY <1>1, <1>2, Arrived DEF DInv
  <2> QED
    BY <1>1, <1>2, <2>1 DEF DInv, WorldOK, TaskInv, ReadInv, Counted
<1>4. PICK fields : /\ task' = [task EXCEPT ![r] = fields]
                    /\ fields \in Task /\ fields.step = "sent" /\ fields.router = task[r].router
  <2>1. PICK answered \in BOOLEAN :
          task' = [task EXCEPT ![r] = [@ EXCEPT !.step = "sent", !.answered = answered]]
    BY DEF Send
  <2> DEFINE row == [task[r] EXCEPT !.step = "sent", !.answered = answered]
  <2>2. task' = [task EXCEPT ![r] = row]
    BY <1>3, <2>1 DEF DInv, WorldOK
  <2>3. row \in Task /\ row.step = "sent" /\ row.router = task[r].router
    BY <1>3 DEF Task
  <2> HIDE DEF row
  <2> QED
    BY <2>2, <2>3
<1>5. /\ task' \in [Requests -> Task] /\ task'[r] = fields
      /\ \A s \in Requests \ {r} : task'[s] = task[s]
  BY <1>4 DEF DInv, WorldOK
<1>6. /\ sent' \in [Keys -> Seq(Devices)] /\ sent'[k] = <<task[r].router>>
      /\ \A j \in Keys \ {k} : sent'[j] = sent[j]
  <2>1. Append(sent[k], task[r].router) = <<task[r].router>>
    BY <1>3
  <2>2. sent' = [sent EXCEPT ![k] = <<task[r].router>>]
    BY <1>2, <2>1
  <2>3. <<task[r].router>> \in Seq(Devices)
    BY <1>3
  <2> QED
    BY <1>3, <2>2, <2>3 DEF DInv, WorldOK
<1>7. WorldOK' /\ SessionInv'
  BY <1>2, <1>5, <1>6 DEF DInv, WorldOK, SessionInv
<1>8. \A s \in Requests \ {r} : Held(request[s]) => request[s].key \in Keys \ {k}
  BY <1>1, <1>2, <1>3, OthersElsewhere
<1>9. \A s \in Requests \ {r} : Counted(s)' /\ Current(s)'
  BY <1>2, <1>3, <1>5, <1>6, <1>8, StaysCounted, StaysCurrent
<1>10. Counted(r)' /\ Current(r)'
  BY <1>1, <1>2, <1>3, <1>4, <1>5, <1>6 DEF Counted, Current
<1>11. \A j \in Keys : KeyCounted(j)'
  <2>1. KeyCounted(k)'
    <3>1. command[k] # NoCommand /\ command[k].response = None
      BY <1>1, <1>2, <1>3, NoneAssumption
         DEF IInv, CommandInv, RequestInv, Held, KeyHeld, NoCommand
    <3> QED
      BY <1>2, <1>3, <1>6, <3>1, NoneAssumption DEF KeyCounted, OneEvent
  <2>2. \A j \in Keys \ {k} : KeyCounted(j)'
    BY <1>2, <1>3, <1>6 DEF KeyCounted, OneEvent
  <2> QED
    BY <2>1, <2>2
<1> QED
  BY <1>7, <1>9, <1>10, <1>11 DEF DInv, TaskInv, ReadInv

\* A request that leaves the handler, and its history, behind.
LEMMA LeavesHandler ==
  ASSUME DInv, IInv', NEW r \in Requests, task' = [task EXCEPT ![r] = NoTask],
         \A s \in Requests \ {r} : request'[s] = request[s],
         request'[r].step # "reserved", UNCHANGED <<world, sent>>, outdated' = outdated \ {r},
         events' \in [Keys -> SUBSET Devices],
         \A s \in Requests \ {r} : Held(request[s]) =>
           events'[request[s].key] = events[request[s].key],
         request'[r].step = "handled" => Counted(r)',
         \A k \in Keys : KeyCounted(k)'
  PROVE  DInv'
<1>1. /\ task' \in [Requests -> Task] /\ task'[r] = NoTask
      /\ \A s \in Requests \ {r} : task'[s] = task[s]
      /\ deleted' = deleted
  BY NullTask DEF DInv, WorldOK, world
<1>2. WorldOK' /\ SessionInv'
  BY <1>1 DEF DInv, WorldOK, SessionInv, world
<1>3. \A s \in Requests : Counted(s) /\ Current(s)
  BY DEF DInv, TaskInv, ReadInv
<1>4. ASSUME NEW s \in Requests \ {r} PROVE Counted(s)' /\ Current(s)'
  <2>1. Held(request[s]) => events'[request[s].key] = events[request[s].key]
    OBVIOUS
  <2>2. Counted(s)'
    BY <1>1, <1>3, <2>1, StaysCounted
  <2>3. Current(s)'
    BY <1>1, <1>3, StaysCurrent
  <2> QED
    BY <2>2, <2>3
<1>5. Counted(r)' /\ Current(r)'
  BY <1>1, NullTask DEF Counted, Current
<1> QED
  BY <1>2, <1>4, <1>5 DEF DInv, TaskInv, ReadInv

\* The response and the event: "ok" has one, an error has none.
LEMMA ReturnStep ==
  ASSUME DInv, IInv', NEW r \in Requests, NEW answer, Return(r, answer)
  PROVE  DInv'
<1>1. PICK k : k = request[r].key
  OBVIOUS
<1>2. /\ request[r].step = "reserved" /\ Handle(r) /\ request'[r].response = answer
      /\ command' = command /\ sent' = sent /\ UNCHANGED <<world, sent>>
      /\ task' = [task EXCEPT ![r] = NoTask] /\ outdated' = outdated \ {r}
      /\ answer = "ok" => task[r].step = "sent" /\ task[r].router \notin deleted
      /\ deleted' = deleted
  BY DEF Return, Handle, Inserted, Answered, At, world
<1>3. /\ k \in Keys /\ IInv /\ TypeOK
      /\ events \in [Keys -> SUBSET Devices] /\ events[k] = {}
      /\ sent[k] = IF task[r].step = "sent" THEN <<task[r].router>> ELSE <<>>
      /\ task[r].step = "sent" => task[r].router \in Devices
      /\ \A j \in Keys : KeyCounted(j)
  <2>1. k \in Keys
    BY <1>1, <1>2, Arrived DEF DInv
  <2> QED
    BY <1>1, <1>2, <2>1 DEF DInv, IInv, WorldOK, TaskInv, Counted
<1>4. /\ events' \in [Keys -> SUBSET Devices]
      /\ events'[k] = IF answer = "ok" THEN {task[r].router} ELSE {}
      /\ \A j \in Keys \ {k} : events'[j] = events[j]
  <2>1. CASE answer = "ok"
    <3>1. events' = [events EXCEPT ![k] = @ \cup {task[r].router}]
      BY <1>1, <2>1 DEF Return, Log
    <3>2. events[k] \cup {task[r].router} = {task[r].router}
      BY <1>3
    <3> QED
      BY <1>2, <1>3, <2>1, <3>1, <3>2
  <2>2. CASE answer # "ok"
    <3>1. events' = events
      BY <2>2 DEF Return, Log
    <3> QED
      BY <1>3, <2>2, <3>1
  <2> QED
    BY <2>1, <2>2
<1>5. \A s \in Requests \ {r} : request'[s] = request[s]
  BY <1>2, <1>3 DEF Handle, Reply, TypeOK
<1>6. request'[r].step \in {"handled", "answered"} /\ request'[r].key = k
  <2>0. request[r] \in Request
    BY <1>3 DEF TypeOK
  <2>1. CASE Reply(r, "server_error")
    BY <1>1, <1>3, <2>0, <2>1 DEF Reply, TypeOK, Request
  <2>2. CASE \E b \in Bodies :
               request' = [request EXCEPT ![r] = [@ EXCEPT !.step = "handled", !.response = b]]
    BY <1>1, <1>3, <2>0, <2>2 DEF TypeOK, Request
  <2> QED
    BY <1>2, <2>1, <2>2 DEF Handle
<1>7. \A s \in Requests \ {r} : Held(request[s]) => request[s].key \in Keys \ {k}
  BY <1>1, <1>2, <1>3, OthersElsewhere
<1>8. \A s \in Requests \ {r} : Held(request[s]) =>
        events'[request[s].key] = events[request[s].key]
  BY <1>4, <1>7
<1>9. task'[r] = NoTask
  BY <1>2 DEF DInv, WorldOK
<1>9a. answer = "ok" => OneEvent(k)'
  BY <1>2, <1>3, <1>4 DEF OneEvent
<1>10. request'[r].step = "handled" => Counted(r)'
  BY <1>2, <1>4, <1>6, <1>9, <1>9a, NullTask DEF Counted
<1>11. \A j \in Keys : KeyCounted(j)'
  <2>1. KeyCounted(k)'
    <3>1. command[k] # NoCommand /\ command[k].response = None
      BY <1>1, <1>2, <1>3, NoneAssumption
         DEF IInv, CommandInv, RequestInv, Held, KeyHeld, NoCommand
    <3> QED
      BY <1>2, <1>3, <1>4, <3>1, NoneAssumption DEF KeyCounted, OneEvent
  <2>2. \A j \in Keys \ {k} : KeyCounted(j)'
    BY <1>2, <1>3, <1>4 DEF KeyCounted, OneEvent
  <2> QED
    BY <2>1, <2>2
<1>12. request'[r].step # "reserved"
  BY <1>6
<1> QED
  BY <1>2, <1>4, <1>5, <1>8, <1>10, <1>11, <1>12, LeavesHandler

LEMMA DieStep ==
  ASSUME DInv, IInv', NEW r \in Requests, Die(r)
  PROVE  DInv'
<1>1. /\ Reply(r, "lost") /\ command' = command /\ UNCHANGED <<world, sent, events, deleted>>
      /\ task' = [task EXCEPT ![r] = NoTask] /\ outdated' = outdated \ {r}
  BY DEF Die, Crash, world
<1>2. TypeOK /\ events \in [Keys -> SUBSET Devices] /\ \A j \in Keys : KeyCounted(j)
  BY DEF DInv, IInv, WorldOK, TaskInv
<1>3. request[r] \in Request
  BY <1>2 DEF TypeOK
<1>4. request'[r].step = "answered" /\ \A s \in Requests \ {r} : request'[s] = request[s]
  BY <1>1, <1>2, <1>3 DEF Reply, TypeOK, Request
<1>5. \A j \in Keys : KeyCounted(j)'
  BY <1>1, <1>2 DEF KeyCounted, OneEvent
<1> QED
  BY <1>1, <1>2, <1>4, <1>5, LeavesHandler

-----------------------------------------------------------------------------
(* Around the handler.                                                     *)

\* Whoever has read the router table is outdated now.
LEMMA ConfigureStep ==
  ASSUME DInv, IInv', NEW d \in Devices, NEW addresses \in SUBSET Addresses,
         NEW active \in BOOLEAN, Configure(d, addresses, active)
  PROVE  DInv'
<1>1. /\ UNCHANGED <<command, request, session, deleted, task, sent, events>>
      /\ device' = [device EXCEPT ![d] = [addresses |-> addresses, active |-> active]]
      /\ outdated' = outdated \cup {r \in Requests : request[r].step = "reserved"}
  BY DEF Configure, OutdateReaders, vars
<1>2. WorldOK' /\ SessionInv'
  BY <1>1 DEF DInv, WorldOK, SessionInv, DeviceRow
<1>3. TaskInv'
  BY <1>1 DEF DInv, TaskInv, Counted, KeyCounted, OneEvent
<1>4. ReadInv'
  BY <1>1 DEF ReadInv, Current
<1> QED
  BY <1>2, <1>3, <1>4 DEF DInv

\* A deleted router takes its event along; whoever has read it is outdated.
LEMMA DeleteStep ==
  ASSUME DInv, IInv', NEW d \in Devices, Delete(d)
  PROVE  DInv'
<1>1. /\ UNCHANGED <<command, request, session, task, sent>>
      /\ device' = [device EXCEPT ![d] = NoRow]
      /\ deleted' = deleted \cup {d}
      /\ outdated' = outdated \cup {r \in Requests : request[r].step = "reserved"}
  BY DEF Delete, OutdateReaders, vars
<1>2. \A k \in Keys : events'[k] = events[k] \ {d}
  BY DEF Delete
<1>3. WorldOK' /\ SessionInv'
  <2>1. device' \in [Devices -> DeviceRow]
    BY <1>1 DEF DInv, WorldOK, DeviceRow, NoRow
  <2>2. events' \in [Keys -> SUBSET Devices]
    BY <1>2 DEF DInv, WorldOK, Delete
  <2> QED
    BY <1>1, <2>1, <2>2 DEF DInv, WorldOK, SessionInv
<1>4. ASSUME NEW k \in Keys, OneEvent(k) PROVE OneEvent(k)'
  <2>1. PICK e \in Devices : sent[k] = <<e>> /\ events[k] = {e} \ deleted
    BY <1>4 DEF OneEvent
  <2>2. events'[k] = {e} \ deleted'
    BY <1>1, <1>2, <2>1
  <2> QED
    BY <1>1, <2>1, <2>2 DEF OneEvent
<1>5. ASSUME NEW r \in Requests PROVE Counted(r)'
  <2>1. Counted(r)
    BY DEF DInv, TaskInv
  <2>2. request[r].step # "unsent" => request[r].key \in Keys
    BY Arrived DEF DInv
  <2> QED
    BY <1>1, <1>2, <1>4, <2>1, <2>2 DEF Counted
<1>6. ASSUME NEW k \in Keys PROVE KeyCounted(k)'
  <2>1. KeyCounted(k)
    BY DEF DInv, TaskInv
  <2> QED
    BY <1>1, <1>2, <1>4, <2>1 DEF KeyCounted
<1>7. ReadInv'
  BY <1>1 DEF ReadInv, Current
<1> QED
  BY <1>3, <1>5, <1>6, <1>7 DEF DInv, TaskInv

\* A session that has begun keeps its router and its address.
LEMMA SessionStep ==
  ASSUME DInv, IInv', NEW s \in Sessions,
         StopSession(s) \/ \E d \in Devices : StartSession(s, d)
  PROVE  DInv'
<1>1. UNCHANGED <<command, request, device, deleted, task, sent, events, outdated>>
  BY DEF StopSession, StartSession, vars, handler
<1>2. session \in [Sessions -> SessionRow] /\ session[s] \in SessionRow
  BY DEF DInv, WorldOK
<1>3. /\ session' \in [Sessions -> SessionRow]
      /\ \A q \in Sessions \ {s} : session'[q] = session[q]
      /\ session'[s].device \in Devices /\ session'[s].address # {}
      /\ session[s] # NoSession => session'[s].address = session[s].address
  <2>1. CASE StopSession(s)
    <3> DEFINE row == [session[s] EXCEPT !.open = FALSE]
    <3>1. session' = [session EXCEPT ![s] = row] /\ session[s].open
      BY <1>2, <2>1 DEF StopSession
    <3>2. /\ row \in SessionRow /\ row.device = session[s].device
          /\ row.address = session[s].address
      BY <1>2 DEF SessionRow
    <3>3. session[s].device \in Devices /\ session[s].address # {}
      BY <3>1 DEF DInv, SessionInv, NoSession
    <3> HIDE DEF row
    <3> QED
      BY <1>2, <3>1, <3>2, <3>3
  <2>2. CASE \E d \in Devices : StartSession(s, d)
    <3>1. PICK d \in Devices : StartSession(s, d)
      BY <2>2
    <3>2. PICK a \in device[d].addresses :
            session' = [session EXCEPT ![s] = [device |-> d, address |-> {a}, open |-> TRUE]]
      BY <3>1 DEF StartSession
    <3>3. a \in Addresses /\ session[s] = NoSession
      BY <3>1 DEF DInv, WorldOK, DeviceRow, StartSession
    <3> DEFINE row == [device |-> d, address |-> {a}, open |-> TRUE]
    <3>4. row \in SessionRow /\ row.device = d /\ row.address = {a}
      BY <3>3 DEF SessionRow
    <3>5. session' = [session EXCEPT ![s] = row]
      BY <3>2
    <3> HIDE DEF row
    <3> QED
      BY <1>2, <3>3, <3>4, <3>5
  <2> QED
    BY <2>1, <2>2
<1>4. WorldOK' /\ SessionInv'
  BY <1>1, <1>3 DEF DInv, WorldOK, SessionInv
<1>5. TaskInv'
  BY <1>1 DEF DInv, TaskInv, Counted, KeyCounted, OneEvent
<1>6. ReadInv'
  <2> SUFFICES ASSUME NEW r \in Requests PROVE Current(r)'
    BY DEF ReadInv
  <2>1. Current(r)
    BY DEF DInv, ReadInv
  <2>2. request[r].step = "reserved" => SessionOf(r) \in Sessions
    BY Arrived, SubjectAssumption DEF DInv, SessionOf
  <2>3. session'[s] # NoSession
    BY <1>3 DEF NoSession
  <2>4. ASSUME request[r].step = "reserved", session[SessionOf(r)] # NoSession
        PROVE  /\ session'[SessionOf(r)] # NoSession
               /\ session'[SessionOf(r)].address = session[SessionOf(r)].address
    BY <1>3, <2>2, <2>3, <2>4
  <2> QED
    BY <1>1, <2>1, <2>4 DEF Current, Own, Holding, TenantOf, SessionOf
<1> QED
  BY <1>4, <1>5, <1>6 DEF DInv

LEMMA DInvNext == DInv /\ [DisconnectNext]_allvars => DInv'
<1> SUFFICES ASSUME DInv, [DisconnectNext]_allvars PROVE DInv'
  OBVIOUS
<1>1. IInv'
  BY DecoratorInv DEF DInv
<1>2. ASSUME NEW r \in Requests, Proceed(r) PROVE DInv'
  <2>1. CASE ReadOwn(r) \/ DropAmbiguous(r) \/ FindSession(r) \/ FindRouter(r)
    BY <1>1, <2>1, ReadOwnStep, DropAmbiguousStep, FindSessionStep, FindRouterStep
  <2>2. CASE Send(r)
    BY <1>1, <2>2, SendStep
  <2>3. ASSUME NEW answer, Return(r, answer) PROVE DInv'
    BY <1>1, <2>3, ReturnStep
  <2>4. CASE Elsewhere(Reserve(r)) \/ Elsewhere(Complete(r))
    BY <1>1, <2>4, ElsewhereStep DEF Elsewhere
  <2> QED
    BY <1>2, <2>1, <2>2, <2>3, <2>4 DEF Proceed
<1>3. ASSUME NEW r \in Requests, Elsewhere(Arrive(r)) PROVE DInv'
  BY <1>1, <1>3, ElsewhereStep DEF Elsewhere
<1>4. ASSUME NEW r \in Requests, Die(r) PROVE DInv'
  BY <1>1, <1>4, DieStep
<1>5. ASSUME NEW d \in Devices, NEW addresses \in SUBSET Addresses, NEW active \in BOOLEAN,
             Configure(d, addresses, active)
      PROVE  DInv'
  BY <1>1, <1>5, ConfigureStep
<1>5a. ASSUME NEW d \in Devices, Delete(d) PROVE DInv'
  BY <1>1, <1>5a, DeleteStep
<1>6. ASSUME NEW s \in Sessions, StopSession(s) \/ \E d \in Devices : StartSession(s, d)
      PROVE  DInv'
  BY <1>1, <1>6, SessionStep
<1>7. CASE UNCHANGED allvars
  <2>1. UNCHANGED <<command, request, device, session, deleted, task, sent, events, outdated>>
    BY <1>7 DEF allvars, vars, world, handler
  <2>2. WorldOK' /\ SessionInv' /\ TaskInv'
    BY <2>1 DEF DInv, WorldOK, SessionInv, TaskInv, Counted, KeyCounted, OneEvent
  <2>3. ReadInv'
    <3> SUFFICES ASSUME NEW r \in Requests PROVE Current(r)'
      BY DEF ReadInv
    <3> QED
      BY <2>1, StaysCurrent DEF DInv, ReadInv, world
  <2> QED
    BY <1>1, <2>2, <2>3 DEF DInv
<1> QED
  BY <1>2, <1>3, <1>4, <1>5, <1>5a, <1>6, <1>7 DEF DisconnectNext

-----------------------------------------------------------------------------
(* The theorems.                                                           *)

\* The inductive invariant: the decorator's, what each handler has counted, and
\* what it has read.
THEOREM DisconnectInvariant == DisconnectSpec => []DInv
BY DInvInit, DInvNext, PTL DEF DisconnectSpec

\* One key sends one Disconnect-Request: its handler runs once, and only the
\* holder of the key runs it.
THEOREM OnePacketPerKeyAlways == DisconnectSpec => []OnePacketPerKey
<1>1. DInv => OnePacketPerKey
  <2> SUFFICES ASSUME DInv, NEW k \in Keys PROVE Len(sent[k]) <= 1
    BY DEF OnePacketPerKey
  <2>1. sent[k] = <<>> \/ \E d \in Devices : sent[k] = <<d>>
    BY DEF DInv, TaskInv, KeyCounted
  <2>2. CASE sent[k] = <<>>
    BY <2>2
  <2>3. ASSUME NEW d \in Devices, sent[k] = <<d>> PROVE Len(sent[k]) <= 1
    <3>1. Len(<<d>>) = 1
      OBVIOUS
    <3> QED
      BY <2>3, <3>1
  <2> QED
    BY <2>1, <2>2, <2>3
<1> QED
  BY <1>1, DisconnectInvariant, PTL

\* The stored response and the audit trail tell the same.
THEOREM ReplyMatchesTrailAlways == DisconnectSpec => []ReplyMatchesTrail
<1>1. DInv => ReplyMatchesTrail
  BY DEF DInv, TaskInv, KeyCounted, OneEvent, ReplyMatchesTrail
<1> QED
  BY <1>1, DisconnectInvariant, PTL

\* An address that exactly one router has, one of the tenant's own, is the
\* session's: its router is that one, or has given the address up.
THEOREM OwnSessionsUnlessOutdatedAlways == DisconnectSpec => OwnSessionsUnlessOutdated
<1> DEFINE OwnSession ==
      \A r \in Requests :
        LET s == session[SessionOf(r)] IN
        task[r].step = "routed" /\ task'[r].step = "sent" /\ r \notin outdated =>
          \/ DeviceOf[s.device] = TenantOf(r)
          \/ ~(s.address \subseteq device[s.device].addresses)
<1>1. DInv => [OwnSession]_allvars
  <2> SUFFICES ASSUME DInv, NEW r \in Requests, task[r].step = "routed", r \notin outdated,
                      session[SessionOf(r)].address
                        \subseteq device[session[SessionOf(r)].device].addresses
               PROVE  DeviceOf[session[SessionOf(r)].device] = TenantOf(r)
    OBVIOUS
  <2>1. PICK s : s = session[SessionOf(r)]
    OBVIOUS
  <2>2. request[r].step = "reserved"
    <3>1. Counted(r)
      BY DEF DInv, TaskInv
    <3> QED
      BY <3>1, NullTask DEF Counted
  <2>3. /\ s # NoSession /\ s.address \subseteq task[r].addresses
        /\ \A a \in task[r].addresses : Own(TenantOf(r), a) /\ Cardinality(Holding(a)) = 1
    BY <2>1, <2>2 DEF DInv, ReadInv, Current
  <2>4. SessionOf(r) \in Sessions
    BY <2>2, Arrived, SubjectAssumption DEF DInv, SessionOf
  <2>5. s.device \in Devices /\ s.address # {}
    BY <2>1, <2>3, <2>4 DEF DInv, SessionInv
  <2>6. PICK a : a \in s.address
    BY <2>5
  <2>7. PICK e \in Devices : DeviceOf[e] = TenantOf(r) /\ a \in device[e].addresses
    BY <2>3, <2>6 DEF Own
  <2>8. e \in Holding(a) /\ s.device \in Holding(a)
    BY <2>1, <2>5, <2>6, <2>7 DEF Holding
  <2>9. IsFiniteSet(Holding(a)) /\ Cardinality(Holding(a)) = 1
    <3>1. Holding(a) \subseteq Devices
      BY DEF Holding
    <3> QED
      BY <2>3, <2>6, <3>1, DeviceAssumption, FS_Subset
  <2>10. \E d : Holding(a) = {d}
    BY <2>9, FS_Singleton
  <2> QED
    BY <2>1, <2>7, <2>8, <2>10
<1> QED
  BY <1>1, DisconnectInvariant, PTL DEF OwnSessionsUnlessOutdated

==============================================================================
