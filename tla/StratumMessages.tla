--------------------------- MODULE StratumMessages ---------------------------
(***************************************************************************)
(* The messages of Stratum V1 as the node reads and writes them            *)
(* (src/protocol/stratumv1_message).  A line is what is on the wire: its   *)
(* fields, and whether it decodes into the Go struct of its method (sound  *)
(* is FALSE for text that is not JSON and for a field of a wrong type, as  *)
(* an id that is a string).  A message is the value of one of the Go       *)
(* types, named by kind: getters are fields, setters EXCEPT.  NoID is the  *)
(* zero an absent or null id leaves in an int, Nil a nil interface.        *)
(* Parameters no component reads (nonces, hashes, user agents) are left    *)
(* out; a payload is the one value that is read.                           *)
(***************************************************************************)
EXTENDS Naturals

ToPool == {"mining.subscribe", "mining.authorize", "mining.submit", "mining.multi_version",
           "mining.configure"}
FromPool == {"mining.notify", "mining.set_difficulty", "mining.set_version_mask",
             "mining.set_extranonce"}
NoID == 0
NoField == 0
Nil == [kind |-> "nil"]

Line(method, id, params, result, error) ==
    [method |-> method, id |-> id, params |-> params, result |-> result, error |-> error,
     sound |-> TRUE]
Garbled == [Line("", NoID, NoField, NoField, FALSE) EXCEPT !.sound = FALSE]
Request(method, id, params) == Line(method, id, params, NoField, FALSE)
-----------------------------------------------------------------------------
MiningSubscribe(id, agent) == [kind |-> "mining.subscribe", id |-> id, params |-> agent]
MiningAuthorize(id, user) == [kind |-> "mining.authorize", id |-> id, params |-> user]
MiningSubmit(id, worker) == [kind |-> "mining.submit", id |-> id, params |-> worker]
MiningMultiVersion(id, version) == [kind |-> "mining.multi_version", id |-> id, params |-> version]
MiningConfigure(id, mask) == [kind |-> "mining.configure", id |-> id, params |-> mask]
MiningUnknown(id, method, params) ==
    [kind |-> "unknown", id |-> id, method |-> method, params |-> params]

MiningNotify(job, cleanJobs) == [kind |-> "mining.notify", params |-> <<job, cleanJobs>>]
MiningSetDifficulty(x) == [kind |-> "mining.set_difficulty", params |-> x]
MiningSetVersionMask(mask) == [kind |-> "mining.set_version_mask", params |-> mask]
MiningSetExtranonce(nonce, size) == [kind |-> "mining.set_extranonce", params |-> <<nonce, size>>]

MiningResult(id, result, error) == [kind |-> "result", id |-> id, result |-> result, error |-> error]
IsError(m) == m.error
\* Results the node makes for the miner: an error is never reported in them.
MiningSubscribeResult(id, nonce) == MiningResult(id, nonce, FALSE)
ToMiningConfigureResult(m, id) == MiningResult(id, m.result, FALSE)
AuthorizeResult(id) == MiningResult(id, 1, FALSE)

\* NewMiningSetExtranonceV2 keeps the size as an int; JSON gives a float64 for any
\* number, and GetExtranonce asserts an int: it panics on a message that was parsed.
NewMiningSetExtranonceV2(nonce) == MiningSetExtranonce(nonce, "int")
ParseMiningSetExtranonce(l) == MiningSetExtranonce(l.params[1], "float64")
GetExtranonceDefined(m) == m.params[2] = "int"
-----------------------------------------------------------------------------
\* The miner's line, or Nil for an error, which the connection skips.
ParseMessageToPool(l) ==
    IF ~l.sound THEN Nil
    ELSE IF l.method \in ToPool THEN [kind |-> l.method, id |-> l.id, params |-> l.params]
    ELSE MiningUnknown(l.id, l.method, l.params)

\* The pool's line, or Nil.  A null result is present (RawMessage is not nil), so an
\* error answer is a result; a method the node does not know is an error.
ParseMessageFromPool(l) ==
    IF ~l.sound THEN Nil
    ELSE IF l.method = "mining.set_extranonce" THEN ParseMiningSetExtranonce(l)
    ELSE IF l.method \in FromPool THEN [kind |-> l.method, params |-> l.params]
    ELSE IF l.result # NoField THEN MiningResult(l.id, l.result, l.error)
    ELSE Nil

Serialize(m) == IF m.kind = "result" THEN Line("", m.id, NoField, m.result, m.error)
                ELSE IF m.kind \in FromPool THEN Request(m.kind, NoID, m.params)
                ELSE Request(IF m.kind = "unknown" THEN m.method ELSE m.kind, m.id, m.params)
-----------------------------------------------------------------------------
SampleRequests == UNION {{MiningSubscribe(i, "x"), MiningAuthorize(i, "x"), MiningSubmit(i, "x"),
                          MiningMultiVersion(i, 1), MiningConfigure(i, "x"),
                          MiningUnknown(i, "mining.extranonce.subscribe", "x")} : i \in {NoID, 7}}
SamplePushes == {MiningNotify("j", TRUE), MiningSetDifficulty(1), MiningSetVersionMask("m")}

\* A message the node relays reaches the other side as it was read: parsing undoes
\* serialising, except that the size of an extranonce loses its type.
ASSUME MessagesRoundTrip ==
    /\ \A m \in SampleRequests : ParseMessageToPool(Serialize(m)) = m
    /\ \A m \in SamplePushes : ParseMessageFromPool(Serialize(m)) = m
    /\ \A e \in BOOLEAN : LET m == MiningResult(7, 9, e)
                          IN ParseMessageFromPool(Serialize(m)) = m
    /\ LET m == NewMiningSetExtranonceV2("n")
           p == ParseMessageFromPool(Serialize(m))
       IN p.params[1] = "n" /\ GetExtranonceDefined(m) /\ ~GetExtranonceDefined(p)
=============================================================================
