------------------------------ MODULE AtMostOnce ------------------------------
(***************************************************************************)
(* What an idempotency key promises a client, with no table and no handler *)
(* in sight: the command behind a key runs at most once, with one payload, *)
(* and once an outcome has been settled it is the outcome for ever.        *)
(* IdempotentCommand implements this specification (src/apps/core).        *)
(***************************************************************************)
CONSTANTS Keys,      \* idempotency keys, each within its scope
          Payloads,  \* request bodies
          Bodies,    \* what a response can say
          None       \* no response

VARIABLES ran,       \* the payloads each key's command has run with
          settled    \* the outcome each key stands for

onceVars == <<ran, settled>>

OnceInit == /\ ran = [k \in Keys |-> <<>>]
            /\ settled = [k \in Keys |-> None]

\* A command runs with one payload, for the first and last time.
Run(k) == /\ ran[k] = <<>> /\ settled[k] = None
          /\ \E p \in Payloads : ran' = [ran EXCEPT ![k] = <<p>>]
          /\ UNCHANGED settled

\* The outcome of a command that ran is settled, once.
Settle(k) == /\ ran[k] # <<>> /\ settled[k] = None
             /\ \E b \in Bodies : settled' = [settled EXCEPT ![k] = b]
             /\ UNCHANGED ran

OnceNext == \E k \in Keys : Run(k) \/ Settle(k)

OnceSpec == OnceInit /\ [][OnceNext]_onceVars
==============================================================================
