---------------------------- MODULE ServicesProofs ----------------------------
(***************************************************************************)
(* The services of the node: the closeout worker, for any set of callers;  *)
(* the configuration, whatever is written for it; HTTP requests, for any   *)
(* miners and requests; a counter of work, for any readers, intervals and  *)
(* difficulties; and the back-off of a subscription.                       *)
(***************************************************************************)
EXTENDS MCServices, AllocProofs

-----------------------------------------------------------------------------
(* The closeout worker.                                                     *)

\* A busy worker holds the request of the one waiting caller, and a nonce in use was at
\* most taken by other programs since it was read.
WorkerInv == TypeOK /\ CloseoutInv

LEMMA InitWorker == Init => WorkerInv
  BY CallersAssumption DEF Init, WorkerInv, TypeOK, CloseoutInv, OneInFlight, NonceHeld

\* Submit and ReplacePending are the ones that touch the ledger.
LEMMA WorkerStep == WorkerInv /\ [Next]_vars => WorkerInv'
<1> SUFFICES ASSUME WorkerInv, [Next]_vars PROVE WorkerInv'
  OBVIOUS
<1> USE CallersAssumption, MaxTxAssumption
        DEF WorkerInv, TypeOK, CloseoutInv, OneInFlight, NonceHeld
<1>1. ASSUME NEW c \in Callers, Call(c) PROVE WorkerInv'
  BY <1>1 DEF Call
<1>2. ASSUME NEW c \in Callers, Start(c) PROVE WorkerInv'
  BY <1>2 DEF Start
<1>3. ASSUME NEW c \in Callers, Reply(c) PROVE WorkerInv'
  BY <1>3 DEF Reply
<1>4. CASE ReadNonce
  BY <1>4 DEF ReadNonce, PendingNonceAt
<1>5. CASE Fail
  BY <1>5 DEF Fail
<1>6. CASE Submit
  BY <1>6 DEF Submit
<1>7. CASE ReplacePending
  BY <1>7 DEF ReplacePending
<1>8. CASE Settle
  BY <1>8 DEF Settle
<1>9. CASE ForeignTx
  <2>1. TypeOK'
    BY <1>9 DEF ForeignTx
  <2>2. OneInFlight'
    BY <1>9 DEF ForeignTx
  <2>3. NonceHeld'
    BY <1>9 DEF ForeignTx
  <2> QED
    BY <2>1, <2>2, <2>3
<1>10. CASE UNCHANGED vars
  BY <1>10 DEF vars
<1> QED
  BY <1>1, <1>2, <1>3, <1>4, <1>5, <1>6, <1>7, <1>8, <1>9, <1>10 DEF Next, Work

\* The state of the callers, the worker and the account keeps its types.
THEOREM TypeCorrect == Spec => []TypeOK
<1>1. WorkerInv => TypeOK
  BY DEF WorkerInv
<1> QED
  BY <1>1, InitWorker, WorkerStep, PTL DEF Spec

\* The rendezvous serialises closeouts: at most one caller waits, the worker
\* holds its request, and the nonce in hand is no other closeout's.
THEOREM Serialised == Spec => []CloseoutInv
<1>1. WorkerInv => CloseoutInv
  BY DEF WorkerInv
<1> QED
  BY <1>1, InitWorker, WorkerStep, PTL DEF Spec

\* No closeout of this node takes the place of another one in the pool.
THEOREM NeverDisplaced == Spec => NoCloseoutDisplaced
<1> DEFINE Undisplaced == \A i \in DOMAIN ledger : ledger[i] \in Callers => ledger'[i] = ledger[i]
<1>1. WorkerInv /\ [Next]_vars => [Undisplaced]_vars
  <2> SUFFICES ASSUME WorkerInv, Next PROVE Undisplaced
    OBVIOUS
  <2> USE CallersAssumption DEF WorkerInv, TypeOK, CloseoutInv, NonceHeld
  <2>1. CASE Submit
    BY <2>1 DEF Submit
  <2>2. CASE ReplacePending
    BY <2>2 DEF ReplacePending
  <2>3. CASE ForeignTx
    BY <2>3 DEF ForeignTx
  <2>4. ASSUME UNCHANGED ledger PROVE Undisplaced
    BY <2>4
  <2> QED
    BY <2>1, <2>2, <2>3, <2>4
    DEF Next, Work, Call, Start, Reply, ReadNonce, Fail, Settle
<1> QED
  BY <1>1, InitWorker, WorkerStep, PTL DEF Spec, NoCloseoutDisplaced

\* Each step of the worker and its callers is a step of the atomic service or
\* leaves it unchanged: an answer is always the outcome of the caller's own call.
THEOREM Refinement == Spec => ImplementsService
<1>1. Init => Service!AInit
  BY DEF Init, Service!AInit, callBar, servedBy
<1>2. WorkerInv /\ [Next]_vars => [Service!ANext]_Service!absVars
  <2> SUFFICES ASSUME WorkerInv, [Next]_vars PROVE [Service!ANext]_Service!absVars
    OBVIOUS
  <2> USE CallersAssumption, MaxTxAssumption
          DEF WorkerInv, TypeOK, CloseoutInv, OneInFlight, callBar, servedBy
  <2>1. ASSUME NEW c \in Callers, Call(c) PROVE Service!Request(c)
    BY <2>1 DEF Call, Service!Request
  <2>2. ASSUME NEW c \in Callers, Start(c) PROVE UNCHANGED Service!absVars
    BY <2>2 DEF Start, Service!absVars
  <2>3. ASSUME NEW c \in Callers, Reply(c) PROVE Service!Return(c)
    BY <2>3 DEF Reply, Service!Return, Service!Outcomes
  <2>4. ASSUME ReadNonce PROVE UNCHANGED Service!absVars
    BY <2>4 DEF ReadNonce, Service!absVars
  <2>5. ASSUME Fail PROVE job \in Callers /\ Service!ServeErr(job)
    BY <2>5 DEF Fail, Service!ServeErr
  <2>6. ASSUME Submit PROVE job \in Callers /\ Service!ServeOk(job)
    <3>1. job \in Callers /\ pc[job] = "waiting"
      BY <2>6 DEF Submit
    <3>2. callBar[job] = "requested" /\ callBar' = [callBar EXCEPT ![job] = "nil"]
      BY <2>6, <3>1 DEF Submit
    <3> QED
      BY <2>6, <3>1, <3>2 DEF Submit, Service!ServeOk
  <2>7. ASSUME ReplacePending PROVE job \in Callers /\ Service!ServeOk(job)
    <3>1. job \in Callers /\ pc[job] = "waiting"
      BY <2>7 DEF ReplacePending
    <3>2. callBar[job] = "requested" /\ callBar' = [callBar EXCEPT ![job] = "nil"]
      BY <2>7, <3>1 DEF ReplacePending
    <3>3. nonce + 1 \in 1..Len(ledger) /\ ledger[nonce + 1] = Foreign
      BY <2>7 DEF ReplacePending, NonceHeld
    <3> QED
      BY <2>7, <3>1, <3>2, <3>3 DEF ReplacePending, Service!ServeOk
  <2>8. ASSUME Settle PROVE UNCHANGED Service!absVars
    BY <2>8 DEF Settle, Service!absVars
  <2>9. ASSUME ForeignTx PROVE Service!ForeignSend
    BY <2>9 DEF ForeignTx, Service!ForeignSend
  <2>10. ASSUME UNCHANGED vars PROVE UNCHANGED Service!absVars
    BY <2>10 DEF vars, Service!absVars
  <2> HIDE DEF WorkerInv, TypeOK, CloseoutInv, OneInFlight, callBar, servedBy
  <2> QED
    BY <2>1, <2>2, <2>3, <2>4, <2>5, <2>6, <2>7, <2>8, <2>9, <2>10
    DEF Next, Work, Service!ANext
<1> QED
  BY <1>1, <1>2, InitWorker, WorkerStep, PTL DEF Spec, ImplementsService, Service!ASpec
-----------------------------------------------------------------------------
(* The back-off and the configuration.                                      *)

LEMMA Waits == BackoffSound
<1>1. ASSUME NEW k \in Nat
      PROVE  ~backoff(k).done /\ backoff(k).wait = (IF 2 * k > 15 THEN 15 ELSE 2 * k)
  <2>1. (CHOOSE d \in {15} : TRUE) = 15
    OBVIOUS
  <2>2. (\E d \in {15} : k * 2 > d) <=> 2 * k > 15
    OBVIOUS
  <2> QED BY <2>1, <2>2 DEF backoff, NewLinearBackoff
<1>2. ASSUME NEW k \in 1..Attempts
      PROVE  LET b == backoff(k) IN
                ~b.done /\ b.wait > 0 /\ b.wait <= 15 /\ b.wait >= backoff(k - 1).wait
  BY <1>1, BackoffAssumption
<1>3. ASSUME NEW n \in 0..Attempts, NEW k \in 0..Attempts
      PROVE  NewLinearBackoff(k, 2, {n}, {15}).done <=> k > n
  BY BackoffAssumption DEF NewLinearBackoff
<1> QED
  BY <1>2, <1>3 DEF BackoffSound

\* What the loader makes of the texts.
Loaded(f) == IF Parses(f, env[f]) THEN env[f] ELSE Nothing
Overridden(f) == IF f \in HasFlag /\ flag[f] # Nothing THEN flag[f] ELSE Loaded(f)
Written == /\ \A f \in Fields : env[f] \in Texts[f]
           /\ \A f \in HasFlag : flag[f] \in Texts[f]
Read == /\ ~FlagGarbled
        /\ \A f \in Fields : cfg[f] = Overridden(f)
WalletMade == IF cfg["walletKey"] # Nothing THEN wallet = "given"
              ELSE wallet = "derived" /\ cfg["mnemonic"] = "sound"

\* At each step the fields hold what the steps before it have made of the texts.
ConfigInv ==
    /\ loader # "write" => Written
    /\ loader = "flags" => \A f \in Fields : cfg[f] = Loaded(f)
    /\ loader \in {"validate", "wallet", "scheduler", "loaded"} => Read
    /\ loader \in {"wallet", "scheduler", "loaded"} => Valid
    /\ loader \in {"scheduler", "loaded"} => WalletMade
    /\ loader = "loaded" => fractions = <<Duration("poolMin"), Duration("poolMax"),
                                         Duration("poolMin") + Duration("poolMax")>>
    /\ ConfigTypeOK /\ ConfigFollows

LEMMA Durations ==
  /\ DOMAIN ParseDuration = {"negative", "zero", "short", "long"}
  /\ \A t \in DOMAIN ParseDuration : ParseDuration[t] \in Int
BY DEF ParseDuration

LEMMA TextFacts ==
  /\ Fields = {"isBuyer", "proxy", "poolMin", "poolMax", "walletKey", "mnemonic"}
  /\ HasFlag = {"isBuyer", "proxy"}
  /\ Texts["isBuyer"] = {Nothing, Garbled, "true", "false"} /\ Texts["proxy"] = {Nothing, Garbled, "sound"}
  /\ Texts["poolMin"] = Minima /\ Texts["poolMax"] = Maxima
  /\ Texts["walletKey"] = {Nothing, "sound"} /\ Texts["mnemonic"] = {Garbled, "sound"}
BY DEF Fields, HasFlag, Texts

LEMMA ParseFacts ==
  /\ \A t : Parses("isBuyer", t) <=> t \in {"true", "false"}
  /\ \A t : Parses("poolMin", t) <=> t \in DOMAIN ParseDuration
  /\ \A t : Parses("poolMax", t) <=> t \in DOMAIN ParseDuration
  /\ \A t : Parses("proxy", t) /\ Parses("walletKey", t) /\ Parses("mnemonic", t)
BY DEF Parses

\* What the program runs with, in the terms of what it was told.
LEMMA Means ==
  ASSUME Written, Read
  PROVE  /\ flag["isBuyer"] # Garbled
         /\ cfg["proxy"] = "sound" <=> Says("proxy") = "sound"
         /\ cfg["isBuyer"] = "true" <=> Says("isBuyer") = "true"
         /\ cfg["walletKey"] = env["walletKey"] /\ cfg["mnemonic"] = env["mnemonic"]
         /\ Duration("poolMin") # 0 <=> Nonzero("poolMin")
         /\ Duration("poolMax") # 0 <=> Nonzero("poolMax")
         /\ {Duration("poolMin"), Duration("poolMax")} \subseteq Int
         /\ Positive("poolMin") => Duration("poolMin") > 0
         /\ Positive("poolMax") => Duration("poolMax") > 0
<1>1. flag["isBuyer"] # Garbled
  BY TextFacts, ParseFacts DEF Read, FlagGarbled, Nothing, Garbled
<1>2. cfg["proxy"] = "sound" <=> Says("proxy") = "sound"
  BY TextFacts, ParseFacts DEF Read, Overridden, Loaded, Says
<1>3. cfg["isBuyer"] = "true" <=> Says("isBuyer") = "true"
  <2>1. flag["isBuyer"] # Nothing => cfg["isBuyer"] = flag["isBuyer"] /\ Says("isBuyer") = flag["isBuyer"]
    BY TextFacts DEF Read, Overridden, Says
  <2>2. flag["isBuyer"] = Nothing => cfg["isBuyer"] = Loaded("isBuyer") /\ Says("isBuyer") = env["isBuyer"]
    BY TextFacts DEF Read, Overridden, Says
  <2>3. Loaded("isBuyer") = "true" <=> env["isBuyer"] = "true"
    BY ParseFacts DEF Loaded, Nothing
  <2> QED BY <2>1, <2>2, <2>3
<1>4. cfg["walletKey"] = env["walletKey"] /\ cfg["mnemonic"] = env["mnemonic"]
  BY TextFacts, ParseFacts DEF Read, Overridden, Loaded
<1>5. ASSUME NEW f \in {"poolMin", "poolMax"}
      PROVE  /\ Duration(f) # 0 <=> Nonzero(f)
             /\ Duration(f) \in Int
             /\ Positive(f) => Duration(f) > 0
  <2>1. cfg[f] = Loaded(f) /\ Says(f) = env[f]
    BY TextFacts DEF Read, Overridden, Says
  <2>2. Loaded(f) = IF env[f] \in DOMAIN ParseDuration THEN env[f] ELSE Nothing
    BY ParseFacts DEF Loaded
  <2>3. Nothing \notin DOMAIN ParseDuration
    BY Durations DEF Nothing
  <2>4. CASE env[f] \in DOMAIN ParseDuration
    <3>1. Duration(f) = ParseDuration[env[f]]
      BY <2>1, <2>2, <2>3, <2>4 DEF Duration
    <3> QED BY <2>1, <2>4, <3>1, Durations DEF Nonzero, Positive
  <2>5. CASE env[f] \notin DOMAIN ParseDuration
    <3>1. Duration(f) = 0
      BY <2>1, <2>2, <2>5 DEF Duration
    <3> QED BY <2>1, <2>5, <3>1 DEF Nonzero, Positive
  <2> QED BY <2>4, <2>5
<1> QED
  BY <1>1, <1>2, <1>3, <1>4, <1>5

LEMMA ConfigStarts == ConfigInit => ConfigInv
<1> SUFFICES ASSUME ConfigInit PROVE ConfigInv
  OBVIOUS
<1>1. loader = "write" /\ ConfigTypeOK
  BY DEF ConfigInit, ConfigTypeOK
<1> QED
  BY <1>1 DEF ConfigInv, ConfigFollows

LEMMA ConfigKept ==
  ASSUME ConfigInv, [ConfigNext]_configVars
  PROVE  ConfigInv'
<1>1. CASE UNCHANGED configVars
  BY <1>1 DEF ConfigInv, configVars, Written, Read, FlagGarbled, Overridden, Loaded, Valid, Duration,
              WalletMade, ConfigTypeOK, ConfigFollows, Says, Positive, Nonzero
<1>2. CASE Configure
  <2>1. Written'
    BY <1>2 DEF Configure, TextsOf, Written
  <2>2. loader' = "env" /\ ConfigTypeOK'
    BY <1>2 DEF Configure, LoaderGoes, ConfigInv, ConfigTypeOK
  <2> QED BY <2>1, <2>2 DEF ConfigInv, ConfigFollows
<1>3. CASE LoadEnv
  <2>1. Written' /\ loader' = "flags" /\ wallet' = wallet
    BY <1>3 DEF LoadEnv, LoaderGoes, ConfigInv, Written, writtenUnchanged
  <2>2. \A f \in Fields : cfg'[f] = Loaded(f)'
    BY <1>3 DEF LoadEnv, Loaded, writtenUnchanged
  <2>3. \A f \in Fields : cfg'[f] \in Texts[f] \cup {Nothing}
    BY <2>1, <2>2 DEF Written, Loaded
  <2> QED BY <2>1, <2>2, <2>3 DEF ConfigInv, ConfigFollows, ConfigTypeOK
<1>4. CASE ParseFlags
  <2>1. Written /\ Written' /\ wallet' = wallet /\ (FlagGarbled' <=> FlagGarbled)
    BY <1>4 DEF ParseFlags, LoaderGoes, ConfigInv, Written, writtenUnchanged, FlagGarbled
  <2>2. \A f \in Fields : cfg'[f] = Overridden(f)'
    BY <1>4 DEF ParseFlags, LoaderGoes, ConfigInv, Overridden, Loaded, writtenUnchanged
  <2>3. \A f \in Fields : cfg'[f] \in Texts[f] \cup {Nothing}
    BY <2>1, <2>2 DEF Written, Loaded, Overridden
  <2>4. CASE ~FlagGarbled
    <3>1. loader' = "validate" /\ Read'
      BY <1>4, <2>1, <2>2, <2>4 DEF ParseFlags, LoaderGoes, Read
    <3> QED BY <2>1, <2>3, <3>1 DEF ConfigInv, ConfigTypeOK, ConfigFollows
  <2>5. CASE FlagGarbled
    <3>1. loader' = "failed" /\ flag'["isBuyer"] = Garbled
      BY <1>4, <2>1, <2>5, TextFacts, ParseFacts
         DEF ParseFlags, LoaderGoes, FlagGarbled, Written, Nothing, Garbled, writtenUnchanged
    <3> QED BY <2>1, <2>3, <3>1 DEF ConfigInv, ConfigTypeOK, ConfigFollows
  <2> QED BY <2>4, <2>5
<1> DEFINE Sound == /\ Says("proxy") = "sound" /\ flag["isBuyer"] # Garbled
                    /\ Nonzero("poolMin") /\ Nonzero("poolMax")
                    /\ env["walletKey"] = "sound" \/ env["mnemonic"] = "sound"
<1>5. ASSUME LoaderGoes("validate", loader'), UNCHANGED <<cfg, wallet, fractions, env, flag>>
      PROVE  Written /\ Written' /\ Read /\ Read' /\ ConfigTypeOK
  BY <1>5 DEF LoaderGoes, ConfigInv, Written, Read, FlagGarbled, Overridden, Loaded
<1>6. CASE ValidateConfig
  <2>1. UNCHANGED <<cfg, wallet, fractions, env, flag>> /\ (Valid' <=> Valid) /\ (Sound' <=> Sound)
        /\ LoaderGoes("validate", loader') /\ loader' = (IF Valid THEN "wallet" ELSE "failed")
    BY <1>6 DEF ValidateConfig, LoaderGoes, writtenUnchanged, Valid, Duration, Says, Nonzero
  <2>2. Written' /\ Read' /\ ConfigTypeOK /\ (~Valid => ~Sound)
    BY <1>5, <2>1, Means DEF Valid
  <2>3. ConfigTypeOK'
    BY <2>1, <2>2 DEF ConfigTypeOK
  <2> QED BY <2>1, <2>2, <2>3 DEF ConfigInv, ConfigFollows
<1>7. CASE NewEthereumWallet
  <2>1. UNCHANGED <<cfg, fractions, env, flag>> /\ (Valid' <=> Valid) /\ (Sound' <=> Sound)
    BY <1>7 DEF NewEthereumWallet, writtenUnchanged, Valid, Duration, Says, Nonzero
  <2>2. Written /\ Read /\ Valid /\ ConfigTypeOK /\ Written' /\ Read'
    BY <1>7, <2>1 DEF NewEthereumWallet, LoaderGoes, ConfigInv, Written, Read, FlagGarbled, Overridden, Loaded
  <2>3. cfg["walletKey"] # Nothing <=> env["walletKey"] = "sound"
    BY <2>2, Means, TextFacts DEF Written, Nothing
  <2>4. /\ loader' \in {"scheduler", "failed"} /\ wallet' \in {"none", "derived", "given"}
        /\ loader' = "failed" => cfg["walletKey"] = Nothing /\ cfg["mnemonic"] # "sound"
        /\ loader' = "scheduler" => WalletMade'
    BY <1>7 DEF NewEthereumWallet, LoaderGoes, WalletMade
  <2>5. loader' = "failed" => ~Sound'
    BY <2>1, <2>2, <2>3, <2>4, Means
  <2>6. ConfigTypeOK'
    BY <2>1, <2>2, <2>4 DEF ConfigTypeOK
  <2> QED BY <2>1, <2>2, <2>4, <2>5, <2>6 DEF ConfigInv, ConfigFollows
<1>8. CASE setPoolDurationConstraints
  <2>1. UNCHANGED <<cfg, wallet, env, flag>> /\ loader = "scheduler" /\ loader' = "loaded"
    BY <1>8 DEF setPoolDurationConstraints, LoaderGoes, writtenUnchanged
  <2>2. Written /\ Read /\ Valid /\ ConfigTypeOK /\ Written' /\ Read' /\ Valid' /\ ConfigTypeOK'
    BY <2>1 DEF ConfigInv, Written, Read, FlagGarbled, Overridden, Loaded, Valid, Duration, ConfigTypeOK
  <2>3. fractions' = <<Duration("poolMin"), Duration("poolMax"),
                       Duration("poolMin") + Duration("poolMax")>>'
    BY <1>8, <2>1 DEF setPoolDurationConstraints, Duration
  <2>4. WalletMade /\ WalletMade'
    BY <2>1 DEF ConfigInv, WalletMade
  <2>5. Sound /\ (Sound' <=> Sound)
    <3>1. cfg["walletKey"] # Nothing => env["walletKey"] = "sound"
      BY <2>2, Means, TextFacts DEF Written, Nothing
    <3>2. Sound
      BY <2>2, <2>4, <3>1, Means DEF Valid, WalletMade
    <3> QED BY <2>1, <3>2 DEF Says, Nonzero
  <2>6. (cfg["isBuyer"] = "true" <=> Says("isBuyer") = "true")'
    BY <2>1, <2>2, Means DEF Says
  <2>7. (wallet = "given" <=> env["walletKey"] # Nothing)'
    BY <2>1, <2>2, <2>4, Means DEF WalletMade
  <2>8. (Positive("poolMin") /\ Positive("poolMax") => {fractions[1], fractions[2]} \subseteq 1..fractions[3])'
    <3>1. PICK a \in Int, b \in Int : a = Duration("poolMin") /\ b = Duration("poolMax")
      BY <2>2, Means
    <3>2. fractions' = <<a, b, a + b>>
      BY <1>8, <3>1 DEF setPoolDurationConstraints
    <3>3. (Positive("poolMin") /\ Positive("poolMax"))' => a > 0 /\ b > 0
      BY <2>1, <2>2, <3>1, Means DEF Positive, Says
    <3> QED BY <3>2, <3>3
  <2> QED BY <2>1, <2>2, <2>3, <2>4, <2>5, <2>6, <2>7, <2>8 DEF ConfigInv, ConfigFollows
<1> QED
  BY <1>1, <1>2, <1>3, <1>4, <1>6, <1>7, <1>8 DEF ConfigNext
-----------------------------------------------------------------------------
(* HTTP requests.                                                           *)

Items == Rigs \cup Requests
Rows == [id : Items, says : {"vetting", "free", "busy", "available", "purchased", "running"}]
Ids(rows) == {rows[i].id : i \in DOMAIN rows}
Distinct(rows) == \A i, j \in DOMAIN rows : i # j => rows[i].id # rows[j].id
Ascending(rows) == \A i, j \in DOMAIN rows : i < j => rows[i].id < rows[j].id

Handlers == [kind : {"none", "change", "miners", "contracts", "post"},
             st : {"new", "range", "store", "done"}, seen : SUBSET Items, rows : Seq(Rows),
             status : {0, 200, 400, 500}]
Fulfilments == [sound : SUBSET Parameters, state : {"available", "purchased", "running"},
                run : {"off", "start", "running", "over"}]

ApiShape ==
    /\ rig \in [Rigs -> {"absent", "vetting", "vetted", "gone"}] /\ contracts \subseteq Requests
    /\ share \in [Rigs -> SUBSET Requests]
    /\ req \in [Requests -> Handlers] /\ posted \in [Requests -> Fulfilments]
    /\ stayed \in [Requests -> SUBSET Items] /\ changed \in [Requests -> SUBSET Rigs]

\* What a handler has done of its request, by what it has met and who has stayed.
Handled(q, stay, moved) ==
    /\ (q.status # 0) = (q.st = "done")
    /\ q.kind = "none" => q = NoRequest
    /\ q.kind = "change" => /\ q.st = "range" => q.seen \subseteq moved
                            /\ q.status = 200 => stay \subseteq moved
    /\ q.kind \in {"miners", "contracts"} =>
          /\ q.st = "range" => q.seen = Ids(q.rows) /\ Distinct(q.rows)
          /\ q.status = 200 => Ascending(q.rows) /\ stay \subseteq Ids(q.rows)

\* How far the fulfilment of a posted contract has come, by the miners it was given.
Fulfilled(c) ==
    /\ posted[c].run \in {"off", "start"} => posted[c].state = "available" /\ \A m \in Rigs : c \notin share[m]
    /\ posted[c].run = "running" => posted[c].state = "running"
    /\ (\E m \in Rigs : c \in share[m]) => posted[c].state = "running"
    /\ posted[c].run = "over" => posted[c].state # "available"
    /\ req[c].kind = "none" => posted[c].run = "off"

ApiInv == /\ ApiShape
          /\ \A r \in Requests : Handled(req[r], stayed[r], changed[r]) /\ Fulfilled(r)

LEMMA NoRows ==
  /\ <<>> \in Seq(Rows) /\ Ids(<<>>) = {} /\ Distinct(<<>>)
  /\ NoRequest \in Handlers /\ NoRequest.kind = "none" /\ NoRequest.st = "new"
  /\ NoRequest.seen = {} /\ NoRequest.rows = <<>> /\ NoRequest.status = 0
<1>1. <<>> \in Seq(Rows) /\ Ids(<<>>) = {} /\ Distinct(<<>>)
  BY DEF Ids, Distinct
<1> QED
  BY <1>1 DEF NoRequest, Handlers

\* One row more, of an item that has none yet.
LEMMA RowAdded ==
  ASSUME NEW rows \in Seq(Rows), Distinct(rows), NEW row \in Rows, row.id \notin Ids(rows)
  PROVE  /\ Append(rows, row) \in Seq(Rows) /\ Distinct(Append(rows, row))
         /\ Ids(Append(rows, row)) = Ids(rows) \cup {row.id}
<1> DEFINE n == Len(rows)
           t == Append(rows, row)
<1>1. /\ n \in Nat /\ DOMAIN rows = 1..n /\ t \in Seq(Rows) /\ DOMAIN t = 1..(n + 1)
      /\ t[n + 1] = row /\ \A i \in 1..n : t[i] = rows[i]
  OBVIOUS
<1> HIDE DEF t, n
<1>2. Distinct(t)
  BY <1>1 DEF Distinct, Ids
<1>3. Ids(t) = Ids(rows) \cup {row.id}
  BY <1>1 DEF Ids
<1> QED
  BY <1>1, <1>2, <1>3 DEF t

LEMMA RowsSorted ==
  ASSUME NEW rows \in Seq(Rows), Distinct(rows), NEW s \in Sorted(rows)
  PROVE  s \in Seq(Rows) /\ Ascending(s) /\ Ids(s) = Ids(rows)
<1>1. PICK n \in Nat : DOMAIN rows = 1..n /\ \A i \in 1..n : rows[i] \in Rows
  BY LenProperties
<1>2. PICK p \in Bijection(1..n, 1..n) : /\ s = [k \in 1..n |-> rows[p[k]]]
                                         /\ \A i, j \in DOMAIN s : i < j => s[i].id <= s[j].id
  BY <1>1 DEF Sorted
<1>3. /\ p \in [1..n -> 1..n] /\ \A j \in 1..n : \E i \in 1..n : p[i] = j
      /\ \A i, j \in 1..n : p[i] = p[j] => i = j
  BY <1>2 DEF Bijection, Injection, Surjection, IsInjective
<1>4. s \in [1..n -> Rows] /\ DOMAIN s = 1..n
  BY <1>1, <1>2, <1>3
<1>5. s \in Seq(Rows)
  BY <1>4
<1>6. Ids(s) = Ids(rows)
  <2>1. ASSUME NEW i \in 1..n PROVE s[i].id \in Ids(rows)
    BY <1>1, <1>2, <1>3 DEF Ids
  <2>2. ASSUME NEW j \in 1..n PROVE rows[j].id \in Ids(s)
    <3>1. PICK i \in 1..n : p[i] = j
      BY <1>3
    <3> QED BY <1>2, <1>4, <3>1 DEF Ids
  <2> QED BY <1>1, <1>4, <2>1, <2>2 DEF Ids
<1>7. \A i \in 1..n : s[i].id \in Nat
  BY <1>4, ApiAssumption DEF Rows, Items
<1>8. ASSUME NEW i \in 1..n, NEW j \in 1..n, i < j PROVE s[i].id < s[j].id
  <2>1. p[i] # p[j] /\ p[i] \in 1..n /\ p[j] \in 1..n
    BY <1>3, <1>8
  <2>2. s[i].id # s[j].id
    BY <1>1, <1>2, <2>1 DEF Distinct
  <2>3. s[i].id <= s[j].id
    BY <1>2, <1>4, <1>8
  <2> QED BY <1>7, <2>2, <2>3
<1> QED
  BY <1>4, <1>5, <1>6, <1>8 DEF Ascending

LEMMA ApiStarts == ApiInit => ApiInv
<1> SUFFICES ASSUME ApiInit PROVE ApiInv
  OBVIOUS
<1>1. NoContract \in Fulfilments /\ NoContract.run = "off" /\ NoContract.state = "available"
  BY DEF NoContract, Fulfilments
<1>2. ApiShape
  BY <1>1, NoRows DEF ApiInit, ApiShape
<1>3. ASSUME NEW r \in Requests PROVE Handled(req[r], stayed[r], changed[r]) /\ Fulfilled(r)
  <2>1. req[r] = NoRequest /\ posted[r] = NoContract /\ \A m \in Rigs : share[m] = {}
    BY DEF ApiInit
  <2>2. Handled(req[r], stayed[r], changed[r])
    BY <2>1, NoRows DEF Handled
  <2>3. Fulfilled(r)
    BY <1>1, <2>1 DEF Fulfilled
  <2> QED BY <2>2, <2>3
<1> QED
  BY <1>2, <1>3 DEF ApiInv

\* A handler goes on; what it does changes no other one and no miner.
LEMMA HandlerGoes ==
  ASSUME ApiInv, NEW r \in Requests, NEW q \in Handlers, NEW s \in SUBSET Items,
         NEW d \in SUBSET Rigs, q.kind # "none", Handled(q, s, d),
         req' = [req EXCEPT ![r] = q], stayed' = [stayed EXCEPT ![r] = s],
         changed' = [changed EXCEPT ![r] = d], UNCHANGED <<rig, share, posted>>,
         contracts' \subseteq Requests
  PROVE  ApiInv'
<1>1. ApiShape'
  BY DEF ApiInv, ApiShape
<1>2. ASSUME NEW c \in Requests PROVE (Handled(req[c], stayed[c], changed[c]) /\ Fulfilled(c))'
  <2>1. /\ req'[c] = IF c = r THEN q ELSE req[c]
        /\ stayed'[c] = IF c = r THEN s ELSE stayed[c]
        /\ changed'[c] = IF c = r THEN d ELSE changed[c]
    BY DEF ApiInv, ApiShape
  <2>2. Handled(req'[c], stayed'[c], changed'[c])
    BY <2>1 DEF ApiInv
  <2>3. Fulfilled(c)'
    BY <2>1 DEF ApiInv, Fulfilled
  <2> QED BY <2>2, <2>3
<1> QED
  BY <1>1, <1>2 DEF ApiInv

LEMMA HandlerReplies ==
  ASSUME ApiInv, NEW r \in Requests, NEW q \in Handlers, q.kind # "none",
         Handled(q, stayed[r], changed[r]), req' = [req EXCEPT ![r] = q],
         UNCHANGED <<rig, share, posted, stayed, changed>>, contracts' \subseteq Requests
  PROVE  ApiInv'
<1>1. stayed = [stayed EXCEPT ![r] = stayed[r]] /\ changed = [changed EXCEPT ![r] = changed[r]]
  BY DEF ApiInv, ApiShape
<1>2. stayed[r] \in SUBSET Items /\ changed[r] \in SUBSET Rigs
  BY DEF ApiInv, ApiShape
<1> QED
  BY <1>1, <1>2, HandlerGoes

LEMMA BeginsSafe ==
  ASSUME ApiInv, NEW r \in Requests, NEW kind \in {"change", "miners", "contracts"},
         NEW items \in SUBSET Items, Begins(r, kind, items),
         UNCHANGED <<rig, share, posted, contracts, changed>>
  PROVE  ApiInv'
<1>1. req[r] = NoRequest /\ changed[r] \in SUBSET Rigs
  BY DEF Begins, Asks, ApiInv, ApiShape, Handled
<1> DEFINE q == [NoRequest EXCEPT !.kind = kind, !.st = "range"]
<1>2. /\ q \in Handlers /\ q.kind = kind /\ q.st = "range" /\ q.seen = {} /\ q.rows = <<>>
      /\ q.status = 0
  <2>1. PICK t : t = [NoRequest EXCEPT !.kind = kind]
    OBVIOUS
  <2>2. t = [kind |-> kind, st |-> "new", seen |-> {}, rows |-> <<>>, status |-> 0]
    BY <2>1 DEF NoRequest
  <2>3. PICK u : u = [t EXCEPT !.st = "range"]
    OBVIOUS
  <2>4. u = [kind |-> kind, st |-> "range", seen |-> {}, rows |-> <<>>, status |-> 0]
    BY <2>2, <2>3
  <2>5. q = u
    BY <2>1, <2>3
  <2>6. u \in Handlers
    <3>1. PICK rows \in Seq(Rows) : rows = <<>>
      BY NoRows
    <3>2. u = [kind |-> kind, st |-> "range", seen |-> {}, rows |-> rows, status |-> 0]
      BY <2>4, <3>1
    <3>3. PICK k \in {"none", "change", "miners", "contracts", "post"} : k = kind
      OBVIOUS
    <3> QED BY <3>2, <3>3 DEF Handlers
  <2> HIDE DEF q
  <2> QED BY <2>4, <2>5, <2>6
<1>3. req' = [req EXCEPT ![r] = q]
  BY <1>1 DEF Begins, ApiInv, ApiShape
<1>4. stayed' = [stayed EXCEPT ![r] = items] /\ changed' = [changed EXCEPT ![r] = changed[r]]
  BY DEF Begins, ApiInv, ApiShape
<1> HIDE DEF q
<1>5. Handled(q, items, changed[r])
  BY <1>2, NoRows DEF Handled
<1>6. contracts' \subseteq Requests /\ q.kind # "none"
  BY <1>2 DEF ApiInv, ApiShape
<1> QED
  BY <1>1, <1>2, <1>3, <1>4, <1>5, <1>6, HandlerGoes

LEMMA AsksSafe ==
  ASSUME ApiInv, NEW r \in Requests,
         \/ ChangeDestAll(r) \/ GetLists(r) \/ (\E status \in {400, 500} : ChangeDestRefused(r, status))
         \/ \E sound \in SUBSET Parameters : PostContract(r, sound)
  PROVE  ApiInv'
<1>1. rigs \in SUBSET Items /\ contracts \in SUBSET Items
  BY DEF rigs, Items, ApiInv, ApiShape
<1>2. CASE ChangeDestAll(r)
  <2>1. Begins(r, "change", rigs) /\ UNCHANGED <<rig, share, posted, contracts, changed>>
    BY <1>2 DEF ChangeDestAll, requestUnchanged
  <2> QED BY <1>1, <2>1, BeginsSafe
<1>3. CASE GetLists(r)
  <2>1. /\ Begins(r, "miners", rigs) \/ Begins(r, "contracts", contracts)
        /\ UNCHANGED <<rig, share, posted, contracts, changed>>
    BY <1>3 DEF GetLists, Lists, requestUnchanged
  <2> QED BY <1>1, <2>1, BeginsSafe
<1>4. ASSUME NEW status \in {400, 500}, ChangeDestRefused(r, status) PROVE ApiInv'
  <2> DEFINE q == [NoRequest EXCEPT !.kind = "change", !.st = "done", !.status = status]
  <2>1. /\ q \in Handlers /\ q.kind = "change" /\ q.st = "done" /\ q.status = status
    <3> DEFINE e == << >>
               none == {}
               ls == Seq(Rows)
               kinds == {"none", "change", "miners", "contracts", "post"}
               sts == {"new", "range", "store", "done"}
               codes == {0, 200, 400, 500}
    <3>1. /\ e \in ls /\ none \in SUBSET Items
          /\ "change" \in kinds /\ "done" \in sts /\ status \in codes
      BY NoRows
    <3>2. Handlers = [kind : kinds, st : sts, seen : SUBSET Items, rows : ls, status : codes]
      BY DEF Handlers
    <3>3. NoRequest \in Handlers
      BY NoRows DEF NoRequest
    <3> HIDE DEF e, none, ls, kinds, sts, codes
    <3>4. q \in Handlers
      BY <3>1, <3>2, <3>3
    <3>5. q.kind = "change" /\ q.st = "done" /\ q.status = status
      BY <3>2, <3>3
    <3> QED BY <3>4, <3>5
  <2>2. req' = [req EXCEPT ![r] = q] /\ UNCHANGED <<rig, share, posted, stayed, changed>>
    BY <1>4 DEF ChangeDestRefused, requestUnchanged
  <2>3. contracts' \subseteq Requests
    BY <1>4 DEF ChangeDestRefused, ApiInv, ApiShape
  <2> HIDE DEF q
  <2>4. Handled(q, stayed[r], changed[r]) /\ q.kind # "none"
    BY <2>1 DEF Handled
  <2> QED BY <2>1, <2>2, <2>3, <2>4, HandlerReplies, ZenonT(30)
<1>5. ASSUME NEW sound \in SUBSET Parameters, PostContract(r, sound) PROVE ApiInv'
  <2>1. req[r] = NoRequest /\ posted[r] \in Fulfilments /\ posted[r].run = "off"
    BY <1>5 DEF PostContract, Asks, ApiInv, ApiShape, Handled, Fulfilled
  <2> DEFINE q == [NoRequest EXCEPT !.kind = "post", !.st = "store"]
             p == [posted[r] EXCEPT !.sound = sound, !.run = "start"]
  <2>2. q \in Handlers /\ q.kind = "post" /\ q.st = "store" /\ q.status = 0
    BY NoRows DEF NoRequest, Handlers
  <2>3. p \in Fulfilments /\ p.run = "start" /\ p.state = posted[r].state
    BY <2>1 DEF Fulfilments
  <2>4. req' = [req EXCEPT ![r] = q] /\ posted' = [posted EXCEPT ![r] = p]
    BY <1>5, <2>1 DEF PostContract, ApiInv, ApiShape
  <2>5. UNCHANGED <<rig, share, contracts, stayed, changed>>
    BY <1>5 DEF PostContract, requestUnchanged
  <2> HIDE DEF q, p
  <2>6. ApiShape'
    BY <2>2, <2>3, <2>4, <2>5 DEF ApiInv, ApiShape
  <2>7. ASSUME NEW c \in Requests PROVE (Handled(req[c], stayed[c], changed[c]) /\ Fulfilled(c))'
    <3>1. req'[c] = (IF c = r THEN q ELSE req[c]) /\ posted'[c] = IF c = r THEN p ELSE posted[c]
      BY <2>4 DEF ApiInv, ApiShape
    <3>2. Handled(req'[c], stayed[c], changed[c])
      BY <2>2, <3>1 DEF ApiInv, Handled
    <3>3. Fulfilled(c)'
      BY <2>1, <2>2, <2>3, <2>5, <3>1 DEF ApiInv, Fulfilled
    <3> QED BY <2>5, <3>2, <3>3
  <2> QED BY <2>6, <2>7 DEF ApiInv
<1> QED
  BY <1>2, <1>3, <1>4, <1>5

\* A reply ends the handler, with or without rows.
Ended(h, status) == [h EXCEPT !.st = "done", !.status = status]
Listed(h, rows) == [h EXCEPT !.rows = rows]

LEMMA EndedHandler ==
  ASSUME NEW h \in Handlers, NEW status \in {200, 400, 500}
  PROVE  /\ Ended(h, status) \in Handlers /\ Ended(h, status).kind = h.kind
         /\ Ended(h, status).st = "done" /\ Ended(h, status).status = status
         /\ Ended(h, status).rows = h.rows
<1> DEFINE ls == Seq(Rows)
           kinds == {"none", "change", "miners", "contracts", "post"}
           sts == {"new", "range", "store", "done"}
           codes == {0, 200, 400, 500}
<1>1. "done" \in sts /\ status \in codes
  OBVIOUS
<1>2. Handlers = [kind : kinds, st : sts, seen : SUBSET Items, rows : ls, status : codes]
  BY DEF Handlers
<1> HIDE DEF ls, kinds, sts, codes
<1>3. Ended(h, status) \in Handlers
  BY <1>1, <1>2 DEF Ended
<1>4. /\ Ended(h, status).kind = h.kind /\ Ended(h, status).st = "done"
      /\ Ended(h, status).status = status /\ Ended(h, status).rows = h.rows
  BY <1>2 DEF Ended
<1> QED
  BY <1>3, <1>4

LEMMA ListedHandler ==
  ASSUME NEW h \in Handlers, NEW rows \in Seq(Rows)
  PROVE  /\ Listed(h, rows) \in Handlers /\ Listed(h, rows).kind = h.kind
         /\ Listed(h, rows).st = h.st /\ Listed(h, rows).status = h.status
         /\ Listed(h, rows).rows = rows
<1> DEFINE ls == Seq(Rows)
           kinds == {"none", "change", "miners", "contracts", "post"}
           sts == {"new", "range", "store", "done"}
           codes == {0, 200, 400, 500}
<1>1. rows \in ls
  OBVIOUS
<1>2. Handlers = [kind : kinds, st : sts, seen : SUBSET Items, rows : ls, status : codes]
  BY DEF Handlers
<1> HIDE DEF ls, kinds, sts, codes
<1>3. Listed(h, rows) \in Handlers
  BY <1>1, <1>2 DEF Listed
<1>4. /\ Listed(h, rows).kind = h.kind /\ Listed(h, rows).st = h.st
      /\ Listed(h, rows).status = h.status /\ Listed(h, rows).rows = rows
  BY <1>2 DEF Listed
<1> QED
  BY <1>3, <1>4

LEMMA Replied ==
  ASSUME ApiInv, NEW r \in Requests, NEW rows \in Seq(Rows),
         req' = [req EXCEPT ![r].st = "done", ![r].status = 200, ![r].rows = rows]
  PROVE  \E q \in Handlers :
            /\ q.kind = req[r].kind /\ q.st = "done" /\ q.status = 200 /\ q.rows = rows
            /\ req' = [req EXCEPT ![r] = q]
<1>1. req[r] \in Handlers /\ DOMAIN req = Requests
  BY DEF ApiInv, ApiShape
<1>2. PICK h : h = Ended(req[r], 200)
  OBVIOUS
<1>3. PICK q : q = Listed(h, rows)
  OBVIOUS
<1>4. h \in Handlers /\ h.kind = req[r].kind /\ h.st = "done" /\ h.status = 200
  BY <1>1, <1>2, EndedHandler
<1>5. q \in Handlers /\ q.kind = req[r].kind /\ q.st = "done" /\ q.status = 200 /\ q.rows = rows
  BY <1>3, <1>4, ListedHandler
<1>6. req' = [req EXCEPT ![r] = q]
  BY <1>1, <1>2, <1>3 DEF Ended, Listed
<1> QED
  BY <1>5, <1>6

LEMMA RepliesOnly ==
  ASSUME ApiInv, NEW r \in Requests, NEW status \in {200, 400, 500}, Replies(r, status)
  PROVE  \E q \in Handlers :
            /\ q.kind = req[r].kind /\ q.st = "done" /\ q.status = status /\ q.rows = req[r].rows
            /\ req' = [req EXCEPT ![r] = q]
<1>1. req[r] \in Handlers /\ DOMAIN req = Requests
  BY DEF ApiInv, ApiShape
<1>2. PICK q : q = Ended(req[r], status)
  OBVIOUS
<1>3. q \in Handlers /\ q.kind = req[r].kind /\ q.st = "done" /\ q.status = status /\ q.rows = req[r].rows
  BY <1>1, <1>2, EndedHandler
<1>4. req' = [req EXCEPT ![r] = q]
  BY <1>1, <1>2 DEF Replies, Ended
<1> QED
  BY <1>3, <1>4

LEMMA AnswersSafe ==
  ASSUME ApiInv, NEW r \in Requests, ChangeDestEnds(r) \/ ListEnds(r) \/ StoreContract(r)
  PROVE  ApiInv'
<1>1. /\ req[r] \in Handlers /\ Handled(req[r], stayed[r], changed[r])
      /\ stayed[r] \in SUBSET Items /\ changed[r] \in SUBSET Rigs /\ contracts \subseteq Requests
  BY DEF ApiInv, ApiShape
<1>4. CASE ChangeDestEnds(r)
  <2>1. /\ req[r].kind = "change" /\ req[r].st = "range" /\ stayed[r] \subseteq req[r].seen
        /\ Replies(r, 200) /\ UNCHANGED <<rig, share, posted, stayed, changed, contracts>>
    BY <1>4 DEF ChangeDestEnds, Ranges, requestUnchanged
  <2>2. PICK q \in Handlers : /\ q.kind = req[r].kind /\ q.st = "done" /\ q.status = 200
                              /\ req' = [req EXCEPT ![r] = q]
    BY <2>1, RepliesOnly
  <2>3. Handled(q, stayed[r], changed[r])
    BY <1>1, <2>1, <2>2 DEF Handled
  <2>4. q.kind # "none"
    BY <2>1, <2>2
  <2> QED BY <1>1, HandlerReplies, <2>1, <2>2, <2>3, <2>4
<1>5. CASE StoreContract(r)
  <2>1. /\ req[r].kind = "post" /\ UNCHANGED <<rig, share, posted, stayed, changed>>
        /\ Replies(r, 200) \/ Replies(r, 400)
    BY <1>5 DEF StoreContract, requestUnchanged
  <2>2. PICK q \in Handlers : /\ q.kind = req[r].kind /\ q.st = "done" /\ q.status \in {200, 400}
                              /\ req' = [req EXCEPT ![r] = q]
    BY <2>1, RepliesOnly
  <2>3. Handled(q, stayed[r], changed[r])
    BY <2>1, <2>2 DEF Handled
  <2>4. q.kind # "none" /\ contracts' \subseteq Requests
    BY <1>1, <1>5, <2>1, <2>2 DEF StoreContract
  <2> QED BY HandlerReplies, <2>1, <2>2, <2>3, <2>4
<1>6. CASE ListEnds(r)
  <2>1. PICK rows \in Sorted(req[r].rows) :
           req' = [req EXCEPT ![r].st = "done", ![r].status = 200, ![r].rows = rows]
    BY <1>6 DEF ListEnds
  <2>2. /\ req[r].kind \in {"miners", "contracts"} /\ req[r].rows \in Seq(Rows) /\ Distinct(req[r].rows)
        /\ req[r].seen = Ids(req[r].rows) /\ stayed[r] \subseteq req[r].seen
        /\ UNCHANGED <<rig, share, posted, stayed, changed, contracts>>
    BY <1>1, <1>6 DEF ListEnds, Ranges, Handled, Handlers, requestUnchanged
  <2>3. rows \in Seq(Rows) /\ Ascending(rows) /\ Ids(rows) = Ids(req[r].rows)
    BY <2>2, RowsSorted
  <2>4. PICK q \in Handlers : /\ q.kind = req[r].kind /\ q.st = "done" /\ q.status = 200 /\ q.rows = rows
                              /\ req' = [req EXCEPT ![r] = q]
    BY <2>1, <2>3, Replied
  <2>5. Handled(q, stayed[r], changed[r])
    BY <2>2, <2>3, <2>4 DEF Handled
  <2>6. q.kind # "none"
    BY <2>2, <2>4
  <2> QED BY <1>1, HandlerReplies, <2>2, <2>4, <2>5, <2>6
<1> QED
  BY <1>4, <1>5, <1>6

LEMMA MovesSafe ==
  ASSUME ApiInv, NEW r \in Requests, NEW m \in Rigs, ChangeDest(r, m) \/ ChangeDestFails(r, m)
  PROVE  ApiInv'
<1>1. /\ req[r] \in Handlers /\ Handled(req[r], stayed[r], changed[r]) /\ DOMAIN req = Requests
      /\ stayed[r] \in SUBSET Items /\ changed[r] \in SUBSET Rigs /\ contracts \subseteq Requests
  BY DEF ApiInv, ApiShape
<1>2. CASE ChangeDestFails(r, m)
  <2>1. /\ req[r].kind = "change" /\ Replies(r, 500)
        /\ UNCHANGED <<rig, share, posted, stayed, changed, contracts>>
    BY <1>2 DEF ChangeDestFails, Ranges, requestUnchanged
  <2>2. PICK q \in Handlers : /\ q.kind = req[r].kind /\ q.st = "done" /\ q.status = 500
                              /\ req' = [req EXCEPT ![r] = q]
    BY <2>1, RepliesOnly
  <2>3. Handled(q, stayed[r], changed[r]) /\ q.kind # "none" /\ contracts' \subseteq Requests
    BY <1>1, <2>1, <2>2 DEF Handled
  <2> QED BY <2>1, <2>2, <2>3, HandlerReplies
<1>3. CASE ChangeDest(r, m)
  <2>1. /\ req[r].kind = "change" /\ req[r].st = "range" /\ req[r].status = 0
        /\ req[r].seen \subseteq changed[r] /\ m \in Items
        /\ UNCHANGED <<rig, share, posted, stayed, contracts>>
    BY <1>1, <1>3 DEF ChangeDest, Ranges, requestUnchanged, Handled, Items
  <2> DEFINE q == [req[r] EXCEPT !.seen = @ \cup {m}]
             d == changed[r] \cup {m}
  <2>2. /\ q \in Handlers /\ q.kind = "change" /\ q.st = "range" /\ q.status = 0
        /\ q.seen = req[r].seen \cup {m}
    BY <1>1, <2>1 DEF Handlers
  <2>3. req' = [req EXCEPT ![r] = q] /\ changed' = [changed EXCEPT ![r] = d] /\ d \in SUBSET Rigs
    BY <1>1, <1>3 DEF ChangeDest, ApiInv, ApiShape
  <2>4. stayed' = [stayed EXCEPT ![r] = stayed[r]]
    BY <2>1 DEF ApiInv, ApiShape
  <2>5. q.seen \subseteq d
    BY <2>1, <2>2
  <2> HIDE DEF q, d
  <2>6. Handled(q, stayed[r], d) /\ q.kind # "none"
    BY <2>2, <2>5 DEF Handled
  <2>7. contracts' \subseteq Requests
    BY <1>1, <2>1
  <2> QED BY <1>1, <2>1, <2>2, <2>3, <2>4, <2>6, <2>7, HandlerGoes
<1> QED
  BY <1>2, <1>3

LEMMA ListsSafe ==
  ASSUME ApiInv, NEW r \in Requests, NEW x \in Items, ListNext(r, x)
  PROVE  ApiInv'
<1>1. /\ req[r] \in Handlers /\ Handled(req[r], stayed[r], changed[r]) /\ DOMAIN req = Requests
      /\ contracts \subseteq Requests
  BY DEF ApiInv, ApiShape
<1>2. /\ req[r].kind \in {"miners", "contracts"} /\ req[r].st = "range" /\ req[r].status = 0
      /\ x \notin req[r].seen /\ req[r].seen = Ids(req[r].rows) /\ Distinct(req[r].rows)
      /\ req[r].rows \in Seq(Rows) /\ (req[r].kind = "contracts" => x \in Requests)
      /\ UNCHANGED <<rig, share, posted, stayed, changed, contracts>>
  BY <1>1 DEF ListNext, Ranges, Meets, Handled, Handlers, requestUnchanged
<1>3. PICK row \in Rows : row = Row(r, x) /\ row.id = x
  <2>1. GetStatus(x) \in {"vetting", "free", "busy"}
    BY DEF GetStatus
  <2>2. req[r].kind = "contracts" => posted[x].state \in {"available", "purchased", "running"}
    BY <1>2 DEF ApiInv, ApiShape, Fulfilments
  <2>3. CASE req[r].kind = "miners"
    <3>1. Row(r, x) = [id |-> x, says |-> GetStatus(x)]
      BY <2>3 DEF Row
    <3>2. [id |-> x, says |-> GetStatus(x)] \in Rows
      BY <2>1 DEF Rows
    <3> QED BY <3>1, <3>2
  <2>4. CASE req[r].kind = "contracts"
    <3>1. Row(r, x) = [id |-> x, says |-> posted[x].state]
      BY <2>4 DEF Row
    <3>2. [id |-> x, says |-> posted[x].state] \in Rows
      BY <2>2, <2>4 DEF Rows
    <3> QED BY <3>1, <3>2
  <2> QED BY <1>2, <2>3, <2>4
<1>4. PICK rows \in Seq(Rows) : /\ rows = Append(req[r].rows, row) /\ Distinct(rows)
                                /\ Ids(rows) = Ids(req[r].rows) \cup {x}
  BY <1>2, <1>3, RowAdded
<1>5. PICK met \in SUBSET Items : met = req[r].seen \cup {x}
  <2>1. req[r].seen \cup {x} \in SUBSET Items
    BY <1>1 DEF Handlers
  <2> QED BY <2>1
<1>6. PICK q : q = [req[r] EXCEPT !.seen = met, !.rows = rows]
  OBVIOUS
<1>7. req' = [req EXCEPT ![r] = q]
  BY <1>1, <1>3, <1>4, <1>5, <1>6 DEF ListNext
<1>8. /\ q \in Handlers /\ q.kind = req[r].kind /\ q.st = req[r].st /\ q.status = req[r].status
      /\ q.seen = met /\ q.rows = rows
  <2>1. PICK h \in Handlers : h = req[r]
    BY <1>1
  <2>2. PICK t : t = [h EXCEPT !.seen = met]
    OBVIOUS
  <2>3. h = [kind |-> h.kind, st |-> h.st, seen |-> h.seen, rows |-> h.rows, status |-> h.status]
    BY <2>1 DEF Handlers
  <2>4. t = [kind |-> h.kind, st |-> h.st, seen |-> met, rows |-> h.rows, status |-> h.status]
    BY <2>2, <2>3
  <2>5. q = [t EXCEPT !.rows = rows]
    BY <1>6, <2>1, <2>2
  <2>6. q = [kind |-> h.kind, st |-> h.st, seen |-> met, rows |-> rows, status |-> h.status]
    BY <2>4, <2>5
  <2>7. /\ h.kind \in {"none", "change", "miners", "contracts", "post"}
        /\ h.st \in {"new", "range", "store", "done"} /\ h.status \in {0, 200, 400, 500}
    BY <2>1 DEF Handlers
  <2>8. q \in Handlers
    BY <1>4, <1>5, <2>6, <2>7 DEF Handlers
  <2> QED BY <2>1, <2>6, <2>8
<1>9. Handled(q, stayed[r], changed[r]) /\ q.kind # "none"
  BY <1>2, <1>4, <1>5, <1>8 DEF Handled
<1> QED
  BY <1>1, <1>2, <1>7, <1>8, <1>9, HandlerReplies
-----------------------------------------------------------------------------
(* What goes on beside the requests.                                        *)

\* The fulfilment of one contract goes on.
LEMMA FulfilmentGoes ==
  ASSUME ApiInv, NEW c \in Requests, NEW p \in Fulfilments, posted' = [posted EXCEPT ![c] = p],
         share' \in [Rigs -> SUBSET Requests],
         \A m \in Rigs : \A o \in Requests \ {c} : o \in share'[m] <=> o \in share[m],
         p.run \in {"running", "over"}, p.state # "available",
         p.run = "running" \/ (\E m \in Rigs : c \in share'[m]) => p.state = "running",
         req[c].kind # "none", UNCHANGED <<rig, stayed, req, contracts, changed>>
  PROVE  ApiInv'
<1>1. ApiShape'
  BY DEF ApiInv, ApiShape
<1>2. ASSUME NEW o \in Requests PROVE (Handled(req[o], stayed[o], changed[o]) /\ Fulfilled(o))'
  <2>1. posted'[o] = IF o = c THEN p ELSE posted[o]
    BY DEF ApiInv, ApiShape
  <2>2. Handled(req'[o], stayed'[o], changed'[o])
    BY DEF ApiInv
  <2>3. Fulfilled(o)'
    BY <2>1 DEF ApiInv, Fulfilled
  <2> QED BY <2>2, <2>3
<1> QED
  BY <1>1, <1>2 DEF ApiInv

LEMMA FulfilmentsSafe ==
  ASSUME ApiInv, NEW c \in Requests, FulfillPosted(c) \/ PostedAdjusts(c) \/ PostedEnds(c)
  PROVE  ApiInv'
<1>1. /\ posted[c] \in Fulfilments /\ DOMAIN posted = Requests /\ share \in [Rigs -> SUBSET Requests]
      /\ posted = [posted EXCEPT ![c] = posted[c]]
  BY DEF ApiInv, ApiShape
<1>2. posted[c].run # "off" /\ req[c].kind # "none" /\ UNCHANGED <<rig, stayed, req, contracts, changed>>
  BY DEF FulfillPosted, PostedAdjusts, PostedEnds, meanwhileUnchanged, ApiInv, Fulfilled
<1>3. ASSUME NEW run \in {"running", "over"}, NEW state \in {"purchased", "running"}, RunsTo(c, run, state)
      PROVE  \E p \in Fulfilments : p.run = run /\ p.state = state /\ posted' = [posted EXCEPT ![c] = p]
  <2> DEFINE p == [posted[c] EXCEPT !.run = run, !.state = state]
  <2>1. p \in Fulfilments /\ p.run = run /\ p.state = state
    BY <1>1 DEF Fulfilments
  <2>2. posted' = [posted EXCEPT ![c] = p]
    BY <1>1, <1>3 DEF RunsTo
  <2> QED BY <2>1, <2>2
<1>4. CASE FulfillPosted(c)
  <2>1. \A m \in Rigs : c \notin share[m]
    BY <1>4 DEF FulfillPosted, ApiInv, Fulfilled
  <2>2. ASSUME RunsTo(c, "over", "purchased"), UNCHANGED share PROVE ApiInv'
    <3>1. PICK p \in Fulfilments : p.run = "over" /\ p.state = "purchased" /\ posted' = [posted EXCEPT ![c] = p]
      BY <1>3, <2>2
    <3>2. \A m \in Rigs : c \notin share'[m]
      BY <2>1, <2>2
    <3> QED BY <1>1, <1>2, <2>2, <3>1, <3>2, FulfilmentGoes
  <2>3. ASSUME RunsTo(c, "over", "running"), UNCHANGED share PROVE ApiInv'
    <3>1. PICK p \in Fulfilments : p.run = "over" /\ p.state = "running" /\ posted' = [posted EXCEPT ![c] = p]
      BY <1>3, <2>3
    <3> QED BY <1>1, <1>2, <2>3, <3>1, FulfilmentGoes
  <2>4. ASSUME RunsTo(c, "running", "running"), NEW given,
               share' = [m \in Rigs |-> IF m \in given THEN share[m] \cup {c} ELSE share[m]]
        PROVE  ApiInv'
    <3>1. PICK p \in Fulfilments : p.run = "running" /\ p.state = "running" /\ posted' = [posted EXCEPT ![c] = p]
      BY <1>3, <2>4
    <3>2. share' \in [Rigs -> SUBSET Requests]
      BY <1>1, <2>4
    <3>3. \A m \in Rigs : \A o \in Requests \ {c} : o \in share'[m] <=> o \in share[m]
      BY <1>1, <2>4
    <3> QED BY <1>2, <3>1, <3>2, <3>3, FulfilmentGoes
  <2> QED BY <1>4, <2>2, <2>3, <2>4 DEF FulfillPosted
<1>5. CASE PostedAdjusts(c)
  <2>1. PICK m \in rigs : share' = [share EXCEPT ![m] = IF c \in @ THEN @ \ {c} ELSE @ \cup {c}]
    BY <1>5 DEF PostedAdjusts
  <2>2. share' \in [Rigs -> SUBSET Requests]
    BY <1>1, <2>1
  <2>3. \A n \in Rigs : \A o \in Requests \ {c} : o \in share'[n] <=> o \in share[n]
    BY <1>1, <2>1 DEF rigs
  <2>4. posted[c].run = "running" /\ posted[c].state = "running" /\ posted' = [posted EXCEPT ![c] = posted[c]]
    BY <1>1, <1>5 DEF PostedAdjusts, ApiInv, Fulfilled
  <2> QED BY <1>1, <1>2, <2>2, <2>3, <2>4, FulfilmentGoes
<1>6. CASE PostedEnds(c)
  <2>1. RunsTo(c, "over", "running") /\ UNCHANGED share
    BY <1>6 DEF PostedEnds
  <2>2. PICK p \in Fulfilments : p.run = "over" /\ p.state = "running" /\ posted' = [posted EXCEPT ![c] = p]
    BY <1>3, <2>1
  <2> QED BY <1>1, <1>2, <2>1, <2>2, FulfilmentGoes
<1> QED
  BY <1>4, <1>5, <1>6

\* Miners come and go: shares go with them, and nobody stays who was not there.
LEMMA RigsSafe ==
  ASSUME ApiInv, NEW m \in Rigs, RigLeaves(m) \/ TurnFails(m) \/ RigJoins(m) \/ RigVetted(m)
  PROVE  ApiInv'
<1>1. /\ rig' \in [Rigs -> {"absent", "vetting", "vetted", "gone"}]
      /\ share' \in [Rigs -> SUBSET Requests] /\ \A n \in Rigs : share'[n] \subseteq share[n]
      /\ stayed' \in [Requests -> SUBSET Items] /\ \A r \in Requests : stayed'[r] \subseteq stayed[r]
      /\ UNCHANGED <<posted, req, contracts, changed>>
  <2>1. CASE Leaves(m)
    BY <2>1 DEF Leaves, meanwhileUnchanged, ApiInv, ApiShape
  <2>2. CASE RigJoins(m) \/ RigVetted(m)
    BY <2>2 DEF RigJoins, RigVetted, RigBecomes, meanwhileUnchanged, ApiInv, ApiShape
  <2> QED BY <2>1, <2>2 DEF RigLeaves, TurnFails
<1>2. ApiShape'
  BY <1>1 DEF ApiInv, ApiShape
<1>3. ASSUME NEW r \in Requests PROVE (Handled(req[r], stayed[r], changed[r]) /\ Fulfilled(r))'
  <2>1. Handled(req'[r], stayed'[r], changed'[r])
    BY <1>1 DEF ApiInv, Handled
  <2>2. Fulfilled(r)'
    BY <1>1 DEF ApiInv, Fulfilled
  <2> QED BY <2>1, <2>2
<1> QED
  BY <1>2, <1>3 DEF ApiInv

LEMMA ApiKept ==
  ASSUME ApiInv, [ApiNext]_apiVars
  PROVE  ApiInv'
<1>1. CASE UNCHANGED apiVars
  <2>1. UNCHANGED <<rig, share, req, contracts, posted, stayed, changed>>
    BY <1>1 DEF apiVars
  <2>2. ApiShape'
    BY <2>1 DEF ApiInv, ApiShape
  <2>3. \A r \in Requests : (Handled(req[r], stayed[r], changed[r]) /\ Fulfilled(r))'
    BY <2>1 DEF ApiInv, Fulfilled
  <2> QED BY <2>2, <2>3 DEF ApiInv
<1>2. CASE ApiNext
  BY <1>2, AsksSafe, AnswersSafe, MovesSafe, ListsSafe, FulfilmentsSafe, RigsSafe DEF ApiNext, Items
<1> QED
  BY <1>1, <1>2

LEMMA ApiSound == ApiInv => ApiTypeOK /\ ApiReports
<1> SUFFICES ASSUME ApiInv PROVE ApiTypeOK /\ ApiReports
  OBVIOUS
<1>1. ASSUME NEW r \in Requests
      PROVE  /\ req[r] \in Handlers /\ posted[r] \in Fulfilments
             /\ Handled(req[r], stayed[r], changed[r]) /\ Fulfilled(r)
  BY DEF ApiInv, ApiShape
<1>2. ApiTypeOK
  BY <1>1 DEF ApiTypeOK, ApiInv, ApiShape, Handlers, Fulfilments, Handled
<1>3. ApiReports
  BY <1>1 DEF ApiReports, Handled, Fulfilled, Ascending, Ids
<1> QED
  BY <1>2, <1>3
-----------------------------------------------------------------------------
(* Counted work.  Sums that differ in one place, or nowhere.                *)

LEMMA SumLess ==
  ASSUME NEW S, IsFiniteSet(S), NEW f, NEW g, \A y \in S : f[y] \in Int /\ g[y] \in Int /\ f[y] <= g[y]
  PROVE  SumFunctionOnSet(f, S) <= SumFunctionOnSet(g, S)
<1> DEFINE A(s) == SumFunctionOnSet(f, s)
           B(s) == SumFunctionOnSet(g, s)
           Wrong == {k \in Nat : \E s \in SUBSET S : Cardinality(s) = k /\ ~(A(s) <= B(s))}
<1>1. ASSUME NEW s \in SUBSET S
      PROVE  IsFiniteSet(s) /\ Cardinality(s) \in Nat /\ A(s) \in Int /\ B(s) \in Int
  <2>1. IsFiniteSet(s) /\ (\A y \in s : f[y] \in Int) /\ (\A y \in s : g[y] \in Int)
    BY FS_Subset
  <2> QED BY <2>1, FS_CardinalityType, SumType
<1>2. Wrong = {}
  <2> SUFFICES ASSUME NEW m \in Wrong, \A k \in Wrong : m <= k PROVE FALSE
    BY Least
  <2>1. PICK s \in SUBSET S : Cardinality(s) = m /\ ~(A(s) <= B(s))
    OBVIOUS
  <2>2. PICK w \in s : TRUE
    <3>1. s # {}
      BY <2>1, SumEmpty
    <3> QED BY <3>1
  <2> DEFINE t == s \ {w}
  <2>3. t \in SUBSET S /\ w \in S \ t /\ s = t \cup {w}
    BY <2>1, <2>2
  <2>4. Cardinality(t) = m - 1 /\ m - 1 \in Nat
    BY <1>1, <2>1, <2>2, <2>3, FS_RemoveElement
  <2> HIDE DEF t
  <2>5. A(t) <= B(t)
    <3>1. m - 1 \notin Wrong
      BY <2>4
    <3> QED BY <2>3, <2>4, <3>1
  <2>6. A(s) = f[w] + A(t)
    BY <2>3, SumAdd
  <2>7. B(s) = g[w] + B(t)
    BY <2>3, SumAdd
  <2>8. A(t) \in Int /\ B(t) \in Int /\ f[w] \in Int /\ g[w] \in Int /\ f[w] <= g[w]
    BY <1>1, <2>3
  <2> HIDE DEF A, B
  <2> QED BY <2>1, <2>5, <2>6, <2>7, <2>8
<1> QED
  BY <1>1, <1>2, FS_CardinalityType

LEMMA SumZero ==
  ASSUME NEW S, IsFiniteSet(S), NEW f, \A y \in S : f[y] = 0
  PROVE  SumFunctionOnSet(f, S) = 0
<1> DEFINE A(s) == SumFunctionOnSet(f, s)
           Wrong == {k \in Nat : \E s \in SUBSET S : Cardinality(s) = k /\ A(s) # 0}
<1>1. ASSUME NEW s \in SUBSET S PROVE IsFiniteSet(s) /\ Cardinality(s) \in Nat
  BY FS_Subset, FS_CardinalityType
<1>2. Wrong = {}
  <2> SUFFICES ASSUME NEW m \in Wrong, \A k \in Wrong : m <= k PROVE FALSE
    BY Least
  <2>1. PICK s \in SUBSET S : Cardinality(s) = m /\ A(s) # 0
    OBVIOUS
  <2>2. PICK w \in s : TRUE
    <3>1. s # {}
      BY <2>1, SumEmpty
    <3> QED BY <3>1
  <2> DEFINE t == s \ {w}
  <2>3. t \in SUBSET S /\ w \in S \ t /\ s = t \cup {w}
    BY <2>1, <2>2
  <2>4. Cardinality(t) = m - 1 /\ m - 1 \in Nat
    <3>1. Cardinality(t) = Cardinality(s) - 1 /\ Cardinality(t) \in Nat
      BY <1>1, <2>1, <2>2, <2>3, FS_RemoveElement
    <3> QED BY <2>1, <3>1
  <2> HIDE DEF t
  <2>5. A(t) = 0
    <3>1. m - 1 \notin Wrong
      BY <2>4
    <3> QED BY <2>3, <2>4, <3>1
  <2>6. A(s) = f[w] + A(t)
    BY <2>3, SumAdd
  <2> QED BY <2>1, <2>3, <2>5, <2>6
<1> QED
  BY <1>1, <1>2

LEMMA SumChanges ==
  ASSUME NEW S, IsFiniteSet(S), NEW f, NEW g, NEW v \in S,
         \A y \in S : f[y] \in Int /\ g[y] \in Int, \A y \in S \ {v} : f[y] = g[y]
  PROVE  SumFunctionOnSet(g, S) = SumFunctionOnSet(f, S) - f[v] + g[v]
<1> DEFINE T == S \ {v}
<1>1. IsFiniteSet(T) /\ T \in SUBSET S /\ v \in S \ T /\ S = T \cup {v}
  BY FS_RemoveElement
<1>2. \A y \in T : f[y] \in Int /\ g[y] \in Int /\ f[y] <= g[y] /\ g[y] <= f[y]
  OBVIOUS
<1> HIDE DEF T
<1>3. PICK a \in Int, b \in Int : a = SumFunctionOnSet(f, T) /\ b = SumFunctionOnSet(g, T)
  BY <1>1, <1>2, SumType
<1>4. a <= b
  BY <1>1, <1>2, <1>3, SumLess
<1>5. b <= a
  BY <1>1, <1>2, <1>3, SumLess
<1>6. SumFunctionOnSet(f, S) = f[v] + a
  BY <1>1, <1>3, SumAdd
<1>7. SumFunctionOnSet(g, S) = g[v] + b
  BY <1>1, <1>3, SumAdd
<1> QED
  BY <1>3, <1>4, <1>5, <1>6, <1>7

\* What a tick leaves of a value.
Left(x, i) == (x * i) \div (i + 1)

LEMMA Quotient ==
  ASSUME NEW a \in Nat, NEW b \in Nat \ {0}
  PROVE  a \div b \in Nat /\ (a \div b) * b <= a /\ a < (a \div b + 1) * b
OBVIOUS

LEMMA LeftBounds ==
  ASSUME NEW x \in Nat, NEW i \in Nat \ {0}
  PROVE  Left(x, i) \in Nat /\ Left(x, i) * (i + 1) <= x * i /\ x * i < (Left(x, i) + 1) * (i + 1)
<1>1. x * i \in Nat /\ i + 1 \in Nat \ {0}
  OBVIOUS
<1> QED
  BY <1>1, Quotient DEF Left

LEMMA LeftLess ==
  ASSUME NEW x \in Nat, NEW i \in Nat \ {0}
  PROVE  Left(x, i) <= x
<1>1. PICK q \in Nat : q = Left(x, i) /\ q * (i + 1) <= x * i
  BY LeftBounds
<1>2. SUFFICES ASSUME q >= x + 1 PROVE FALSE
  BY <1>1
<1>3. q * (i + 1) >= (x + 1) * (i + 1)
  BY <1>2
<1>4. (x + 1) * (i + 1) > x * i
  OBVIOUS
<1> QED
  BY <1>1, <1>3, <1>4

\* A longer interval forgets less, and no more of two values than of each of them.
LEMMA LeftGrows ==
  ASSUME NEW x \in Nat, NEW y \in Nat, NEW d \in Nat, x <= y + d,
         NEW i \in Nat \ {0}, NEW j \in Nat \ {0}, i <= j
  PROVE  Left(x, i) <= Left(y, j) + d
<1>1. PICK q \in Nat : q = Left(x, i) /\ q * (i + 1) <= x * i /\ q <= x
  BY LeftBounds, LeftLess
<1>2. PICK p \in Nat : p = Left(y, j) /\ y * j < (p + 1) * (j + 1)
  BY LeftBounds
<1>3. SUFFICES ASSUME q >= p + d + 1 PROVE FALSE
  BY <1>1, <1>2
<1>4. PICK u \in Nat : x = q + u
  <2>1. x - q \in Nat /\ x = q + (x - q)
    BY <1>1
  <2> QED BY <2>1
<1>5. q <= u * i
  BY <1>1, <1>4
<1>6. u * i <= u * j
  BY <1>4
<1>7. (p + 1) * (j + 1) <= (q - d) * (j + 1)
  BY <1>3
<1>8. y >= q + u - d
  BY <1>4
<1>9. y * j >= (q + u - d) * j
  BY <1>8
<1>10. (q - d) * (j + 1) = (q - d) * j + q - d /\ (q + u - d) * j = (q - d) * j + u * j
  OBVIOUS
<1>11. y * j \in Int /\ (p + 1) * (j + 1) \in Int /\ (q - d) * j \in Int /\ u * j \in Int /\ u * i \in Int
  OBVIOUS
<1> QED
  BY <1>2, <1>5, <1>6, <1>7, <1>9, <1>10, <1>11

\* The values a decay goes through.
Fades(tr, v, e, i) == /\ tr \in [0..e -> Nat] /\ tr[0] = v
                      /\ \A k \in 1..e : tr[k] = Left(tr[k - 1], i)

LEMMA FadeExists ==
  ASSUME NEW v \in Nat, NEW e \in Nat, NEW i \in Nat \ {0}
  PROVE  \E tr : Fades(tr, v, e, i)
<1> DEFINE step == [p \in Nat \X (1..e) |-> Left(p[1], i)]
<1>1. \A m \in Nat, k \in 1..e : step[<<m, k>>] = Left(m, i)
  OBVIOUS
<1>2. \A m \in Nat, k \in 1..e : step[<<m, k>>] \in Nat
  BY <1>1, LeftBounds
<1> HIDE DEF step
<1>3. PICK tr : IsTrace(tr, step, v, Nat, e)
  BY <1>2, TraceExists DEF ClosedOver
<1>4. tr \in [0..e -> Nat] /\ tr[0] = v /\ \A k \in 1..e : tr[k] = step[<<tr[k - 1], k>>]
  BY <1>3 DEF IsTrace
<1>5. ASSUME NEW k \in 1..e PROVE tr[k] = Left(tr[k - 1], i)
  <2>1. k - 1 \in 0..e
    OBVIOUS
  <2>2. tr[k - 1] \in Nat
    BY <1>4, <2>1
  <2> QED BY <1>1, <1>4, <2>2
<1> QED
  BY <1>4, <1>5 DEF Fades

\* A table that goes by the same rule holds these values.
LEMMA FadesAlong ==
  ASSUME NEW tr, NEW v, NEW e \in Nat, NEW i, Fades(tr, v, e, i), NEW n \in 0..e, NEW g, g[0] = v,
         \A k \in 1..n : g[k] = Left(g[k - 1], i)
  PROVE  g[n] = tr[n]
<1> DEFINE H == {k \in 0..n : g[k] = tr[k]}
<1>1. n \in Nat /\ 0 \in 0..n
  OBVIOUS
<1>2. 0 \in H
  BY <1>1 DEF Fades
<1>3. ASSUME NEW k \in 0..n, k \in H, k < n PROVE k + 1 \in H
  <2>1. k + 1 \in 1..n /\ k + 1 \in 0..n /\ k + 1 \in 1..e /\ (k + 1) - 1 = k
    BY <1>3
  <2>2. g[k + 1] = Left(g[k], i)
    BY <2>1
  <2>3. tr[k + 1] = Left(tr[k], i)
    BY <2>1 DEF Fades
  <2> QED BY <1>3, <2>1, <2>2, <2>3
<1>4. n \in H
  <2> HIDE DEF H
  <2> QED BY <1>1, <1>2, <1>3, Induction
<1> QED
  BY <1>4

FadeTable(v, e, i) ==
    CHOOSE g : g = [n \in 0..e |-> IF n = 0 THEN v ELSE (g[n - 1] * i) \div (i + 1)]

LEMMA FadeIsTable ==
  ASSUME NEW v, NEW e, NEW i
  PROVE  valueAfter(v, e, i) = FadeTable(v, e, i)[e]
BY DEF valueAfter, FadeTable

LEMMA FadesTo ==
  ASSUME NEW v \in Nat, NEW e \in Nat, NEW i \in Nat \ {0}, NEW tr, Fades(tr, v, e, i)
  PROVE  valueAfter(v, e, i) = tr[e]
<1> DEFINE Rule(g) == g = [n \in 0..e |-> IF n = 0 THEN v ELSE (g[n - 1] * i) \div (i + 1)]
<1>1. Rule(tr)
  <2>1. DOMAIN tr = 0..e /\ tr = [n \in 0..e |-> tr[n]]
    BY DEF Fades
  <2>2. \A n \in 0..e : tr[n] = IF n = 0 THEN v ELSE (tr[n - 1] * i) \div (i + 1)
    BY DEF Fades, Left
  <2> QED BY <2>1, <2>2
<1>2. PICK g : g = FadeTable(v, e, i) /\ Rule(g)
  <2>1. Rule(FadeTable(v, e, i))
    BY <1>1 DEF FadeTable
  <2> QED BY <2>1
<1>3. g[0] = v /\ \A k \in 1..e : g[k] = Left(g[k - 1], i)
  <2>1. \A n \in 0..e : g[n] = IF n = 0 THEN v ELSE (g[n - 1] * i) \div (i + 1)
    BY <1>2
  <2> QED BY <2>1 DEF Left
<1>4. e \in 0..e
  OBVIOUS
<1>5. g[e] = tr[e]
  BY <1>3, <1>4, FadesAlong
<1> QED
  BY <1>2, <1>5, FadeIsTable

LEMMA ValueNow ==
  ASSUME NEW v \in Nat, NEW i \in Nat \ {0}
  PROVE  valueAfter(v, 0, i) = v
<1>1. PICK tr : Fades(tr, v, 0, i)
  <2>1. 0 \in Nat
    OBVIOUS
  <2> QED BY <2>1, FadeExists
<1>2. valueAfter(v, 0, i) = tr[0]
  BY <1>1, FadesTo
<1>3. tr[0] = v
  BY <1>1 DEF Fades
<1> QED
  BY <1>2, <1>3

LEMMA ValueLater ==
  ASSUME NEW v \in Nat, NEW e \in Nat, NEW i \in Nat \ {0}
  PROVE  valueAfter(v, e, i) \in Nat /\ valueAfter(v, e + 1, i) = Left(valueAfter(v, e, i), i)
<1>1. PICK tr : Fades(tr, v, e, i)
  BY FadeExists
<1>2. PICK us : Fades(us, v, e + 1, i)
  BY FadeExists
<1>3. e \in 0..e /\ e \in 0..(e + 1) /\ e + 1 \in 1..(e + 1) /\ (e + 1) - 1 = e
  <2>1. e \in 0..e /\ e \in 0..(e + 1)
    BY SMTT(30)
  <2>2. e + 1 \in 1..(e + 1)
    OBVIOUS
  <2>3. (e + 1) - 1 = e
    OBVIOUS
  <2> QED BY <2>1, <2>2, <2>3
<1>4. us[e] = tr[e]
  <2>1. tr[0] = v /\ \A k \in 1..e : tr[k] = Left(tr[k - 1], i)
    BY <1>1 DEF Fades
  <2>2. e + 1 \in Nat /\ Fades(us, v, e + 1, i)
    BY <1>2
  <2>3. tr[e] = us[e]
    BY <1>3, <2>1, <2>2, FadesAlong
  <2> QED BY <2>3
<1>5. us[e + 1] = Left(us[e], i)
  BY <1>2, <1>3 DEF Fades
<1>6. valueAfter(v, e, i) = tr[e] /\ tr[e] \in Nat
  <2>1. valueAfter(v, e, i) = tr[e]
    BY <1>1, FadesTo
  <2>2. tr \in [0..e -> Nat]
    BY <1>1 DEF Fades
  <2> QED BY <1>3, <2>1, <2>2
<1>7. valueAfter(v, e + 1, i) = us[e + 1]
  BY <1>2, FadesTo
<1> QED
  BY <1>4, <1>5, <1>6, <1>7
-----------------------------------------------------------------------------
(* The counter of work.                                                     *)

\* What the readers still have to add to a counter.
Owing(rd, i) == [r \in Readers |-> IF i \in rd[r].to THEN rd[r].diff ELSE 0]
Owed(rd, i) == SumFunctionOnSet(Owing(rd, i), Readers)
Pending(i) == Owed(reader, i)

CounterShape ==
    /\ ema \in [Intervals -> [lastValue : Nat, lastTime : Nat]]
    /\ \A i \in Intervals : ema[i].lastTime <= clock
    /\ clock \in 0..MaxTicks /\ totalHashes \in 0..(TotalLimit - 1)
    /\ reader \in [Readers -> [diff : Diffs \cup {0}, to : SUBSET (Intervals \cup {Total})]]
    /\ submits \in 0..MaxSubmits /\ recent \in [Intervals -> Nat] /\ work \in Nat

\* A share goes to the intervals in their order and to the total last.
InOrder == \A r \in Readers :
    /\ reader[r].to # {} => Total \in reader[r].to
    /\ \A i, j \in Intervals : i \in reader[r].to /\ i < j => j \in reader[r].to

TotalExact == Pending(Total) <= work /\ totalHashes = (work - Pending(Total)) % TotalLimit

AveragesDecay == \A i \in Intervals :
    /\ recent[i] + Pending(i) <= work
    /\ recent[i] <= Value(i)
    /\ Value(i) <= recent[i] + Left(work - recent[i] - Pending(i), i)

\* With what is on its way to it, the average over the longer interval has no less.
LongerHasMore == \A i, j \in Intervals : i < j => Value(i) + Pending(i) <= Value(j) + Pending(j)

HashrateInv == CounterShape /\ InOrder /\ TotalExact /\ AveragesDecay /\ LongerHasMore

LEMMA ModIs ==
  ASSUME NEW L \in Nat \ {0}, NEW q \in Nat, NEW m \in 0..(L - 1)
  PROVE  (L * q + m) % L = m
<1>1. PICK n \in Nat : n = L * q + m
  <2>1. L * q \in Nat
    OBVIOUS
  <2> QED BY <2>1
<1>2. PICK p \in Nat, k \in 0..(L - 1) : k = n % L /\ n = L * p + k
  <2>1. n \div L \in Nat /\ n % L \in 0..(L - 1) /\ n = L * (n \div L) + (n % L)
    BY <1>1
  <2> QED BY <2>1
<1>3. p = q
  <2>1. CASE p > q
    <3>1. L * p >= L * (q + 1)
      BY <2>1
    <3> QED BY <1>1, <1>2, <3>1
  <2>2. CASE q > p
    <3>1. L * q >= L * (p + 1)
      BY <2>2
    <3> QED BY <1>1, <1>2, <3>1
  <2> QED BY <2>1, <2>2
<1> QED
  BY <1>1, <1>2, <1>3

\* What is added modulo the width of a word.
LEMMA ModAdds ==
  ASSUME NEW L \in Nat \ {0}, NEW a \in Nat, NEW d \in Nat
  PROVE  ((a % L) + d) % L = (a + d) % L
<1>1. PICK p \in Nat, k \in 0..(L - 1) : k = a % L /\ a = L * p + k
  <2>1. a \div L \in Nat /\ a % L \in 0..(L - 1) /\ a = L * (a \div L) + (a % L)
    OBVIOUS
  <2> QED BY <2>1
<1>2. PICK n \in Nat : n = k + d
  BY <1>1
<1>3. PICK q \in Nat, m \in 0..(L - 1) : m = n % L /\ n = L * q + m
  <2>1. n \div L \in Nat /\ n % L \in 0..(L - 1) /\ n = L * (n \div L) + (n % L)
    OBVIOUS
  <2> QED BY <2>1
<1>4. a + d = L * (p + q) + m /\ p + q \in Nat
  <2>1. L * (p + q) = L * p + L * q
    OBVIOUS
  <2> QED BY <1>1, <1>2, <1>3, <2>1
<1>5. (a + d) % L = m
  BY <1>4, ModIs
<1> QED
  BY <1>1, <1>2, <1>3, <1>5

ReaderType == [Readers -> [diff : Diffs \cup {0}, to : SUBSET (Intervals \cup {Total})]]

LEMMA OwingNat ==
  ASSUME NEW rd \in ReaderType, NEW i
  PROVE  \A r \in Readers : Owing(rd, i)[r] \in Nat
<1> SUFFICES ASSUME NEW r \in Readers PROVE Owing(rd, i)[r] \in Nat
  OBVIOUS
<1>1. rd[r].diff \in Nat
  <2>1. rd[r] \in [diff : Diffs \cup {0}, to : SUBSET (Intervals \cup {Total})]
    BY DEF ReaderType
  <2>2. rd[r].diff \in Diffs \cup {0}
    BY <2>1
  <2>3. \A d \in Diffs \cup {0} : d \in Nat
    BY HashrateAssumption
  <2> QED BY <2>2, <2>3
<1>2. Owing(rd, i)[r] = IF i \in rd[r].to THEN rd[r].diff ELSE 0
  BY DEF Owing
<1> QED
  BY <1>1, <1>2

LEMMA OwedNat ==
  ASSUME NEW rd \in ReaderType, NEW i
  PROVE  Owed(rd, i) \in Nat
<1> DEFINE nothing == [r \in Readers |-> 0]
<1>1. \A r \in Readers : nothing[r] = 0 /\ Owing(rd, i)[r] \in Nat
  BY OwingNat
<1>2. \A r \in Readers : nothing[r] \in Int /\ Owing(rd, i)[r] \in Int /\ nothing[r] <= Owing(rd, i)[r]
  BY <1>1
<1> HIDE DEF nothing
<1>3. SumFunctionOnSet(nothing, Readers) = 0
  BY <1>1, HashrateAssumption, SumZero
<1>4. SumFunctionOnSet(nothing, Readers) <= SumFunctionOnSet(Owing(rd, i), Readers)
  BY <1>2, HashrateAssumption, SumLess
<1>5. SumFunctionOnSet(Owing(rd, i), Readers) \in Int
  BY <1>2, HashrateAssumption, SumType
<1> QED
  BY <1>3, <1>4, <1>5 DEF Owed

\* What one reader does changes what is owed by what it owes.
LEMMA OwedChanges ==
  ASSUME NEW rd \in ReaderType, NEW rd2 \in ReaderType, NEW r \in Readers,
         \A q \in Readers \ {r} : rd2[q] = rd[q], NEW i
  PROVE  Owed(rd2, i) = Owed(rd, i) - Owing(rd, i)[r] + Owing(rd2, i)[r]
<1>1. \A q \in Readers : Owing(rd, i)[q] \in Int /\ Owing(rd2, i)[q] \in Int
  BY OwingNat
<1>2. \A q \in Readers \ {r} : Owing(rd, i)[q] = Owing(rd2, i)[q]
  BY DEF Owing
<1> QED
  BY <1>1, <1>2, HashrateAssumption, SumChanges DEF Owed

LEMMA OwedMore ==
  ASSUME NEW rd \in ReaderType, NEW i, NEW j, \A r \in Readers : i \in rd[r].to => j \in rd[r].to
  PROVE  Owed(rd, i) <= Owed(rd, j)
<1>1. \A r \in Readers : Owing(rd, i)[r] \in Int /\ Owing(rd, j)[r] \in Int
  BY OwingNat
<1>2. ASSUME NEW r \in Readers PROVE Owing(rd, i)[r] <= Owing(rd, j)[r]
  <2>1. i \in rd[r].to => Owing(rd, i)[r] = Owing(rd, j)[r]
    BY DEF Owing
  <2>2. i \notin rd[r].to => Owing(rd, i)[r] = 0
    BY DEF Owing
  <2>3. Owing(rd, i)[r] \in Nat /\ Owing(rd, j)[r] \in Nat
    BY OwingNat
  <2> QED BY <2>1, <2>2, <2>3
<1> QED
  BY <1>1, <1>2, HashrateAssumption, SumLess DEF Owed

LEMMA OwedNothing ==
  ASSUME NEW rd, NEW i, \A r \in Readers : i \notin rd[r].to
  PROVE  Owed(rd, i) = 0
<1>1. \A r \in Readers : Owing(rd, i)[r] = 0
  BY DEF Owing
<1> QED
  BY <1>1, HashrateAssumption, SumZero DEF Owed

\* The values are numbers, and a tick leaves a part of them.
LEMMA ValueTicks ==
  ASSUME CounterShape, NEW i \in Intervals
  PROVE  /\ Value(i) \in Nat
         /\ valueAfter(ema[i].lastValue, (clock + 1) - ema[i].lastTime, i) = Left(Value(i), i)
<1>1. PICK v \in Nat, t \in Nat : v = ema[i].lastValue /\ t = ema[i].lastTime /\ t <= clock
  BY DEF CounterShape
<1>2. clock \in Nat /\ i \in Nat \ {0}
  BY HashrateAssumption DEF CounterShape
<1>3. PICK e \in Nat : e = clock - t /\ (clock + 1) - t = e + 1
  BY <1>1, <1>2
<1>4. valueAfter(v, e, i) \in Nat /\ valueAfter(v, e + 1, i) = Left(valueAfter(v, e, i), i)
  BY <1>2, ValueLater
<1>5. Value(i) = valueAfter(v, e, i)
  BY <1>1, <1>3 DEF Value
<1> QED
  BY <1>1, <1>3, <1>4, <1>5

\* The intervals are numbers other than the total's.
LEMMA Diverse ==
  /\ \A i \in Intervals : i \in Nat \ {0} /\ i # Total
  /\ \A d \in Diffs \cup {0} : d \in Nat
  /\ TotalLimit \in Nat \ {0}
BY HashrateAssumption DEF Total

LEMMA CounterStarts == NewHashrate => HashrateInv
<1> SUFFICES ASSUME NewHashrate PROVE HashrateInv
  OBVIOUS
<1>1. /\ ema = [i \in Intervals |-> [lastValue |-> 0, lastTime |-> 0]]
      /\ totalHashes = 0 /\ clock = 0 /\ reader = [r \in Readers |-> [diff |-> 0, to |-> {}]]
      /\ submits = 0 /\ recent = [i \in Intervals |-> 0] /\ work = 0
  BY DEF NewHashrate, NoShare
<1>2. CounterShape
  <2>1. reader \in [Readers -> [diff : Diffs \cup {0}, to : SUBSET (Intervals \cup {Total})]]
    BY <1>1
  <2>2. 0 \in 0..MaxTicks /\ 0 \in 0..(TotalLimit - 1) /\ 0 \in 0..MaxSubmits
    BY HashrateAssumption
  <2> QED BY <1>1, <2>1, <2>2 DEF CounterShape
<1>3. InOrder
  BY <1>1 DEF InOrder
<1>4. \A i : Pending(i) = 0
  <2>1. \A r \in Readers : reader[r].to = {}
    BY <1>1
  <2> QED BY <2>1, OwedNothing DEF Pending
<1>5. ASSUME NEW i \in Intervals PROVE Value(i) = 0
  <2>1. ema[i].lastValue = 0 /\ clock - ema[i].lastTime = 0
    BY <1>1
  <2>2. valueAfter(0, 0, i) = 0
    BY Diverse, ValueNow
  <2> QED BY <2>1, <2>2 DEF Value
<1>6. 0 % TotalLimit = 0
  <2>1. (TotalLimit * 0 + 0) % TotalLimit = 0
    BY Diverse, ModIs
  <2>2. TotalLimit * 0 + 0 = 0
    BY Diverse
  <2> QED BY <2>1, <2>2
<1>7. TotalExact
  <2>1. Pending(Total) = 0
    BY <1>4
  <2> QED BY <1>1, <1>6, <2>1 DEF TotalExact
<1>8. AveragesDecay
  <2> SUFFICES ASSUME NEW i \in Intervals
               PROVE  /\ recent[i] + Pending(i) <= work /\ recent[i] <= Value(i)
                      /\ Value(i) <= recent[i] + Left(work - recent[i] - Pending(i), i)
    BY DEF AveragesDecay
  <2>1. recent[i] = 0 /\ Pending(i) = 0 /\ Value(i) = 0 /\ work = 0
    BY <1>1, <1>4, <1>5
  <2>2. Left(0, i) \in Nat
    BY Diverse, LeftBounds
  <2> QED BY <2>1, <2>2
<1>9. LongerHasMore
  BY <1>4, <1>5 DEF LongerHasMore
<1> QED
  BY <1>2, <1>3, <1>7, <1>8, <1>9 DEF HashrateInv

LEMMA PendingNat ==
  ASSUME CounterShape, NEW i
  PROVE  Pending(i) \in Nat
<1>1. reader \in ReaderType
  BY DEF CounterShape, ReaderType
<1> QED
  BY <1>1, OwedNat DEF Pending

\* A share comes in.
LEMMA CounterTakes ==
  ASSUME HashrateInv, NEW r \in Readers, NEW diff \in Diffs, OnSubmit(r, diff)
  PROVE  HashrateInv'
<1>1. CounterShape /\ InOrder /\ TotalExact /\ AveragesDecay /\ LongerHasMore
  BY DEF HashrateInv
<1>2. /\ reader[r].to = {} /\ submits < MaxSubmits /\ submits' = submits + 1 /\ work' = work + diff
      /\ reader' = [reader EXCEPT ![r] = [diff |-> diff, to |-> Intervals \cup {Total}]]
      /\ ema' = ema /\ totalHashes' = totalHashes /\ clock' = clock /\ recent' = recent
  BY DEF OnSubmit
<1>3. diff \in Nat /\ work \in Nat
  BY <1>1, Diverse DEF CounterShape
<1>4. reader \in ReaderType /\ reader' \in ReaderType
      /\ (\A q \in Readers \ {r} : reader'[q] = reader[q])
      /\ reader'[r] = [diff |-> diff, to |-> Intervals \cup {Total}]
  <2>1. reader \in ReaderType
    BY <1>1 DEF CounterShape, ReaderType
  <2>2. [diff |-> diff, to |-> Intervals \cup {Total}] \in [diff : Diffs \cup {0}, to : SUBSET (Intervals \cup {Total})]
    OBVIOUS
  <2> QED BY <1>2, <2>1, <2>2 DEF ReaderType
<1>5. CounterShape'
  <2>1. submits' \in 0..MaxSubmits /\ work' \in Nat
    BY <1>1, <1>2, <1>3, HashrateAssumption DEF CounterShape
  <2> QED BY <1>1, <1>2, <1>4, <2>1 DEF CounterShape, ReaderType
<1>6. ASSUME NEW i \in Intervals \cup {Total} PROVE Pending(i)' = Pending(i) + diff /\ Pending(i) \in Nat
  <2>1. Owing(reader, i)[r] = 0
    BY <1>2 DEF Owing
  <2>2. Owing(reader', i)[r] = diff
    BY <1>4 DEF Owing
  <2>3. Owed(reader', i) = Owed(reader, i) - Owing(reader, i)[r] + Owing(reader', i)[r]
    BY <1>4, OwedChanges
  <2>4. Owed(reader, i) \in Nat
    BY <1>4, OwedNat
  <2> QED BY <1>3, <2>1, <2>2, <2>3, <2>4 DEF Pending
<1>7. \A i \in Intervals : Value(i)' = Value(i) /\ Value(i) \in Nat /\ recent[i] \in Nat
  <2>1. \A i \in Intervals : Value(i) \in Nat /\ recent[i] \in Nat
    BY <1>1, ValueTicks DEF CounterShape
  <2> QED BY <1>2, <2>1 DEF Value
<1>8. InOrder'
  <2>1. ASSUME NEW q \in Readers
        PROVE  /\ reader'[q].to # {} => Total \in reader'[q].to
               /\ \A i, j \in Intervals : i \in reader'[q].to /\ i < j => j \in reader'[q].to
    <3>1. CASE q = r
      BY <1>4, <3>1
    <3>2. CASE q # r
      BY <1>1, <1>4, <3>2 DEF InOrder
    <3> QED BY <3>1, <3>2
  <2> QED BY <2>1 DEF InOrder
<1>9. TotalExact'
  <2>1. PICK p \in Nat : p = Pending(Total) /\ Pending(Total)' = p + diff
    BY <1>6
  <2>2. p <= work /\ totalHashes = (work - p) % TotalLimit
    BY <1>1, <2>1 DEF TotalExact
  <2>3. (work + diff) - (p + diff) = work - p /\ p + diff <= work + diff
    BY <1>3, <2>1, <2>2
  <2> QED BY <1>2, <2>1, <2>2, <2>3 DEF TotalExact
<1>10. AveragesDecay'
  <2> SUFFICES ASSUME NEW i \in Intervals
               PROVE  /\ recent'[i] + Pending(i)' <= work' /\ recent'[i] <= Value(i)'
                      /\ Value(i)' <= recent'[i] + Left(work' - recent'[i] - Pending(i)', i)
    BY DEF AveragesDecay
  <2>1. PICK p \in Nat, u \in Nat, v \in Nat :
            p = Pending(i) /\ Pending(i)' = p + diff /\ u = recent[i] /\ v = Value(i)
    BY <1>6, <1>7
  <2>2. u + p <= work /\ u <= v /\ v <= u + Left(work - u - p, i)
    BY <1>1, <2>1 DEF AveragesDecay
  <2>3. (work + diff) - u - (p + diff) = work - u - p /\ u + (p + diff) <= work + diff
    BY <1>3, <2>1, <2>2
  <2> QED BY <1>2, <1>7, <2>1, <2>2, <2>3
<1>11. LongerHasMore'
  <2> SUFFICES ASSUME NEW i \in Intervals, NEW j \in Intervals, i < j
               PROVE  Value(i)' + Pending(i)' <= Value(j)' + Pending(j)'
    BY DEF LongerHasMore
  <2>1. Value(i) + Pending(i) <= Value(j) + Pending(j)
    BY <1>1 DEF LongerHasMore
  <2> QED BY <1>3, <1>6, <1>7, <2>1
<1> QED
  BY <1>5, <1>8, <1>9, <1>10, <1>11 DEF HashrateInv

\* A reader adds its share to the least of the intervals it has left.
LEMMA CounterPicks ==
  ASSUME CounterShape, InOrder, NEW r \in Readers, NEW i \in Intervals,
         reader[r].to # {}, Counter(r) = i
  PROVE  i \in reader[r].to /\ \A j \in reader[r].to \cap Intervals : i <= j
<1> DEFINE S == reader[r].to \ {Total}
<1>1. i # Total /\ reader[r].to # {Total}
  <2>1. i # Total
    BY Diverse
  <2> QED BY <2>1 DEF Counter
<1>2. S \in SUBSET Nat /\ S # {}
  <2>1. reader[r].to \in SUBSET (Intervals \cup {Total})
    BY DEF CounterShape
  <2> QED BY <1>1, <2>1, Diverse
<1>3. i = CHOOSE x \in S : \A y \in S : x <= y
  BY <1>1 DEF Counter, Min
<1> HIDE DEF S
<1>4. i \in S /\ \A y \in S : i <= y
  <2>1. \E x \in S : \A y \in S : x <= y
    BY <1>2, Least
  <2> QED BY <1>3, <2>1
<1>5. \A j \in reader[r].to \cap Intervals : j \in S
  BY Diverse DEF S
<1> QED
  BY <1>4, <1>5 DEF S

\* A share is added to an average.
LEMMA CounterAdds ==
  ASSUME HashrateInv, NEW r \in Readers, NEW i \in Intervals, Add(r, i)
  PROVE  HashrateInv'
<1>1. CounterShape /\ InOrder /\ TotalExact /\ AveragesDecay /\ LongerHasMore
  BY DEF HashrateInv
<1>2. /\ reader[r].to # {} /\ Counter(r) = i
      /\ reader' = [reader EXCEPT ![r].to = @ \ {i}]
      /\ ema' = [ema EXCEPT ![i] = [lastValue |-> Value(i) + reader[r].diff, lastTime |-> clock]]
      /\ recent' = [recent EXCEPT ![i] = @ + reader[r].diff]
      /\ totalHashes' = totalHashes /\ clock' = clock /\ submits' = submits /\ work' = work
  BY DEF Add, Adds
<1>3. i \in reader[r].to /\ \A j \in reader[r].to \cap Intervals : i <= j
  BY <1>1, <1>2, CounterPicks
<1>4. /\ reader \in ReaderType /\ reader' \in ReaderType
      /\ \A q \in Readers \ {r} : reader'[q] = reader[q]
      /\ reader'[r].diff = reader[r].diff /\ reader'[r].to = reader[r].to \ {i}
  <2>1. reader \in ReaderType
    BY <1>1 DEF CounterShape, ReaderType
  <2>2. reader[r] \in [diff : Diffs \cup {0}, to : SUBSET (Intervals \cup {Total})]
    BY <2>1 DEF ReaderType
  <2>3. PICK d \in Diffs \cup {0}, s \in SUBSET (Intervals \cup {Total}) : reader[r] = [diff |-> d, to |-> s]
    BY <2>2
  <2>4. reader' = [reader EXCEPT ![r] = [diff |-> d, to |-> s \ {i}]]
    <3>1. reader[r].to = s
      BY <2>3
    <3>2. [reader[r] EXCEPT !.to = s \ {i}] = [diff |-> d, to |-> s \ {i}]
      BY <2>3
    <3>3. reader' = [reader EXCEPT ![r] = [reader[r] EXCEPT !.to = s \ {i}]]
      BY <1>2, <2>1, <3>1 DEF ReaderType
    <3> QED BY <3>2, <3>3
  <2>5. [diff |-> d, to |-> s \ {i}] \in [diff : Diffs \cup {0}, to : SUBSET (Intervals \cup {Total})]
    BY <2>3
  <2> QED BY <2>1, <2>3, <2>4, <2>5 DEF ReaderType
<1>5. PICK d \in Nat : d = reader[r].diff
  <2>1. reader[r].diff \in Diffs \cup {0}
    BY <1>4 DEF ReaderType
  <2> QED BY <2>1, Diverse
<1>6. /\ \A j \in Intervals : Value(j) \in Nat /\ recent[j] \in Nat
      /\ clock \in Nat /\ work \in Nat
  BY <1>1, ValueTicks DEF CounterShape
<1>7. CounterShape'
  <2>1. Value(i) + d \in Nat /\ recent[i] + d \in Nat
    BY <1>5, <1>6
  <2>2. ema' \in [Intervals -> [lastValue : Nat, lastTime : Nat]] /\ recent' \in [Intervals -> Nat]
    BY <1>1, <1>2, <1>5, <1>6, <2>1 DEF CounterShape
  <2>3. \A j \in Intervals : ema'[j].lastTime <= clock'
    BY <1>1, <1>2, <1>6 DEF CounterShape
  <2> QED BY <1>1, <1>2, <1>4, <2>2, <2>3 DEF CounterShape, ReaderType
<1>8. ASSUME NEW j \in Intervals \cup {Total}, j # i PROVE Pending(j)' = Pending(j)
  <2>1. Owing(reader, j)[r] = Owing(reader', j)[r]
    BY <1>4, <1>8 DEF Owing
  <2>2. Owed(reader', j) = Owed(reader, j) - Owing(reader, j)[r] + Owing(reader', j)[r]
    BY <1>4, OwedChanges
  <2>3. Owed(reader, j) \in Nat /\ Owing(reader, j)[r] \in Nat
    BY <1>4, OwedNat, OwingNat
  <2> QED BY <2>1, <2>2, <2>3 DEF Pending
<1>9. Pending(i)' = Pending(i) - d /\ Pending(i)' \in Nat
  <2>1. Owing(reader, i)[r] = d /\ Owing(reader', i)[r] = 0
    BY <1>3, <1>4, <1>5 DEF Owing
  <2>2. Owed(reader', i) = Owed(reader, i) - Owing(reader, i)[r] + Owing(reader', i)[r]
    BY <1>4, OwedChanges
  <2>3. Owed(reader, i) \in Nat /\ Owed(reader', i) \in Nat
    BY <1>4, OwedNat
  <2> QED BY <1>5, <2>1, <2>2, <2>3 DEF Pending
<1>10. Value(i)' = Value(i) + d /\ recent'[i] = recent[i] + d
  <2>1. ema'[i].lastValue = Value(i) + d /\ ema'[i].lastTime = clock
    BY <1>1, <1>2, <1>5 DEF CounterShape
  <2>2. clock' - ema'[i].lastTime = 0
    BY <1>2, <1>6, <2>1
  <2>3. valueAfter(Value(i) + d, 0, i) = Value(i) + d
    <3>1. Value(i) + d \in Nat /\ i \in Nat \ {0}
      BY <1>5, <1>6, Diverse
    <3> QED BY <3>1, ValueNow
  <2>4. Value(i)' = valueAfter(ema'[i].lastValue, clock' - ema'[i].lastTime, i)
    BY DEF Value
  <2> QED BY <1>1, <1>2, <1>5, <2>1, <2>2, <2>3, <2>4 DEF CounterShape
<1>11. ASSUME NEW j \in Intervals, j # i PROVE Value(j)' = Value(j) /\ recent'[j] = recent[j]
  <2>1. ema'[j] = ema[j] /\ recent'[j] = recent[j]
    BY <1>1, <1>2, <1>11 DEF CounterShape
  <2> QED BY <1>2, <2>1 DEF Value
<1>12. InOrder'
  <2>1. ASSUME NEW q \in Readers
        PROVE  /\ reader'[q].to # {} => Total \in reader'[q].to
               /\ \A j, k \in Intervals : j \in reader'[q].to /\ j < k => k \in reader'[q].to
    <3>1. CASE q = r
      <4>1. Total \in reader'[r].to
        BY <1>1, <1>2, <1>4, Diverse DEF InOrder
      <4>2. ASSUME NEW j \in Intervals, NEW k \in Intervals, j \in reader'[r].to, j < k
            PROVE  k \in reader'[r].to
        <5>1. j \in reader[r].to /\ i <= j /\ k \in reader[r].to
          BY <1>1, <1>3, <1>4, <4>2 DEF InOrder
        <5>2. k # i
          BY <4>2, <5>1, Diverse
        <5> QED BY <1>4, <5>1, <5>2
      <4> QED BY <3>1, <4>1, <4>2
    <3>2. CASE q # r
      BY <1>1, <1>4, <3>2 DEF InOrder
    <3> QED BY <3>1, <3>2
  <2> QED BY <2>1 DEF InOrder
<1>13. TotalExact'
  <2>1. Pending(Total)' = Pending(Total)
    BY <1>8, Diverse
  <2> QED BY <1>1, <1>2, <2>1 DEF TotalExact
<1>14. AveragesDecay'
  <2> SUFFICES ASSUME NEW j \in Intervals
               PROVE  /\ recent'[j] + Pending(j)' <= work' /\ recent'[j] <= Value(j)'
                      /\ Value(j)' <= recent'[j] + Left(work' - recent'[j] - Pending(j)', j)
    BY DEF AveragesDecay
  <2>1. PICK p \in Nat, u \in Nat, v \in Nat : p = Pending(j) /\ u = recent[j] /\ v = Value(j)
    BY <1>1, <1>6, PendingNat
  <2>2. u + p <= work /\ u <= v /\ v <= u + Left(work - u - p, j)
    BY <1>1, <2>1 DEF AveragesDecay
  <2>3. CASE j = i
    <3>1. Pending(j)' = p - d /\ recent'[j] = u + d /\ Value(j)' = v + d
      BY <1>9, <1>10, <2>1, <2>3
    <3>2. work - (u + d) - (p - d) = work - u - p
      BY <1>5, <1>6, <2>1
    <3>3. Left(work - u - p, j) \in Nat
      <4>1. work - u - p \in Nat /\ j \in Nat \ {0}
        BY <1>6, <2>1, <2>2, Diverse
      <4> QED BY <4>1, LeftBounds
    <3>4. v + d <= u + d + Left(work - u - p, j) /\ (u + d) + (p - d) <= work /\ u + d <= v + d
      BY <1>5, <1>6, <2>1, <2>2, <3>3
    <3> QED BY <1>2, <3>1, <3>2, <3>4
  <2>4. CASE j # i
    <3>1. Pending(j)' = p /\ recent'[j] = u /\ Value(j)' = v
      BY <1>8, <1>11, <2>1, <2>4
    <3> QED BY <1>2, <2>2, <3>1
  <2> QED BY <2>3, <2>4
<1>15. \A j \in Intervals : Value(j)' + Pending(j)' = Value(j) + Pending(j)
  <2> SUFFICES ASSUME NEW j \in Intervals PROVE Value(j)' + Pending(j)' = Value(j) + Pending(j)
    OBVIOUS
  <2>1. Value(j) \in Nat /\ Pending(j) \in Nat
    BY <1>1, <1>6, PendingNat
  <2>2. CASE j = i
    BY <1>5, <1>9, <1>10, <2>1, <2>2
  <2>3. CASE j # i
    BY <1>8, <1>11, <2>3
  <2> QED BY <2>2, <2>3
<1>16. LongerHasMore'
  <2> SUFFICES ASSUME NEW j \in Intervals, NEW k \in Intervals, j < k
               PROVE  Value(j)' + Pending(j)' <= Value(k)' + Pending(k)'
    BY DEF LongerHasMore
  <2> QED BY <1>1, <1>15 DEF LongerHasMore
<1> QED
  BY <1>7, <1>12, <1>13, <1>14, <1>16 DEF HashrateInv

\* A share is added to the total.
LEMMA CounterTotals ==
  ASSUME HashrateInv, NEW r \in Readers, AddTotal(r)
  PROVE  HashrateInv'
<1>1. CounterShape /\ InOrder /\ TotalExact /\ AveragesDecay /\ LongerHasMore
  BY DEF HashrateInv
<1>2. /\ reader[r].to = {Total}
      /\ reader' = [reader EXCEPT ![r] = [diff |-> 0, to |-> {}]]
      /\ totalHashes' = (totalHashes + reader[r].diff) % TotalLimit
      /\ ema' = ema /\ clock' = clock /\ submits' = submits /\ recent' = recent /\ work' = work
  BY DEF AddTotal, NoShare
<1>3. /\ reader \in ReaderType /\ reader' \in ReaderType
      /\ \A q \in Readers \ {r} : reader'[q] = reader[q]
      /\ reader'[r] = [diff |-> 0, to |-> {}]
  <2>1. reader \in ReaderType
    BY <1>1 DEF CounterShape, ReaderType
  <2>2. [diff |-> 0, to |-> {}] \in [diff : Diffs \cup {0}, to : SUBSET (Intervals \cup {Total})]
    OBVIOUS
  <2> QED BY <1>2, <2>1, <2>2 DEF ReaderType
<1>4. PICK d \in Nat : d = reader[r].diff
  <2>1. reader[r].diff \in Diffs \cup {0}
    BY <1>3 DEF ReaderType
  <2> QED BY <2>1, Diverse
<1>5. \A j \in Intervals : Pending(j)' = Pending(j)
  <2> SUFFICES ASSUME NEW j \in Intervals PROVE Pending(j)' = Pending(j)
    OBVIOUS
  <2>1. Owing(reader, j)[r] = 0 /\ Owing(reader', j)[r] = 0
    BY <1>2, <1>3, Diverse DEF Owing
  <2>2. Owed(reader', j) = Owed(reader, j) - Owing(reader, j)[r] + Owing(reader', j)[r]
    BY <1>3, OwedChanges
  <2>3. Owed(reader, j) \in Nat
    BY <1>3, OwedNat
  <2> QED BY <2>1, <2>2, <2>3 DEF Pending
<1>6. Pending(Total)' = Pending(Total) - d /\ Pending(Total)' \in Nat /\ Pending(Total) \in Nat
  <2>1. Owing(reader, Total)[r] = d /\ Owing(reader', Total)[r] = 0
    BY <1>2, <1>3, <1>4 DEF Owing
  <2>2. Owed(reader', Total) = Owed(reader, Total) - Owing(reader, Total)[r] + Owing(reader', Total)[r]
    BY <1>3, OwedChanges
  <2>3. Owed(reader, Total) \in Nat /\ Owed(reader', Total) \in Nat
    BY <1>3, OwedNat
  <2> QED BY <1>4, <2>1, <2>2, <2>3 DEF Pending
<1>7. TotalExact'
  <2>1. PICK p \in Nat : p = Pending(Total) /\ Pending(Total)' = p - d /\ p - d \in Nat
    BY <1>6
  <2>2. work \in Nat /\ p <= work /\ totalHashes = (work - p) % TotalLimit
    BY <1>1, <2>1 DEF TotalExact, CounterShape
  <2>3. PICK a \in Nat : a = work - p /\ a + d = work - (p - d) /\ p - d <= work
    <3>1. work - p \in Nat /\ (work - p) + d = work - (p - d) /\ p - d <= work
      BY <1>4, <2>1, <2>2
    <3> QED BY <3>1
  <2>4. ((a % TotalLimit) + d) % TotalLimit = (a + d) % TotalLimit
    BY <1>4, <2>3, Diverse, ModAdds
  <2> QED BY <1>2, <1>4, <2>1, <2>2, <2>3, <2>4 DEF TotalExact
<1>8. CounterShape'
  <2>1. PICK t \in Nat : t = totalHashes + d
    BY <1>1, <1>4 DEF CounterShape
  <2>2. t % TotalLimit \in 0..(TotalLimit - 1)
    BY <2>1, Diverse
  <2>3. totalHashes' \in 0..(TotalLimit - 1)
    BY <1>2, <1>4, <2>1, <2>2
  <2> QED BY <1>1, <1>2, <1>3, <2>3 DEF CounterShape, ReaderType
<1>9. \A j \in Intervals : Value(j)' = Value(j)
  BY <1>2 DEF Value
<1>10. InOrder'
  <2>1. ASSUME NEW q \in Readers
        PROVE  /\ reader'[q].to # {} => Total \in reader'[q].to
               /\ \A j, k \in Intervals : j \in reader'[q].to /\ j < k => k \in reader'[q].to
    <3>1. CASE q = r
      BY <1>3, <3>1
    <3>2. CASE q # r
      BY <1>1, <1>3, <3>2 DEF InOrder
    <3> QED BY <3>1, <3>2
  <2> QED BY <2>1 DEF InOrder
<1>11. AveragesDecay' /\ LongerHasMore'
  BY <1>1, <1>2, <1>5, <1>9 DEF AveragesDecay, LongerHasMore
<1> QED
  BY <1>7, <1>8, <1>10, <1>11 DEF HashrateInv

\* The clock ticks.
LEMMA CounterFades ==
  ASSUME HashrateInv, ClockTicks
  PROVE  HashrateInv'
<1>1. CounterShape /\ InOrder /\ TotalExact /\ AveragesDecay /\ LongerHasMore
  BY DEF HashrateInv
<1>2. /\ clock < MaxTicks /\ clock' = clock + 1 /\ recent' = [i \in Intervals |-> 0]
      /\ ema' = ema /\ totalHashes' = totalHashes /\ reader' = reader /\ submits' = submits /\ work' = work
  BY DEF ClockTicks
<1>3. CounterShape'
  <2>1. clock' \in 0..MaxTicks /\ \A i \in Intervals : ema'[i].lastTime <= clock'
    BY <1>1, <1>2, HashrateAssumption DEF CounterShape
  <2> QED BY <1>1, <1>2, <2>1 DEF CounterShape
<1>4. \A i : Pending(i)' = Pending(i) /\ Pending(i) \in Nat
  BY <1>1, <1>2, PendingNat DEF Pending
<1>5. ASSUME NEW i \in Intervals
      PROVE  /\ Value(i) \in Nat /\ recent[i] \in Nat /\ i \in Nat \ {0}
             /\ Value(i)' = Left(Value(i), i) /\ recent'[i] = 0
  <2>1. Value(i) \in Nat /\ valueAfter(ema[i].lastValue, (clock + 1) - ema[i].lastTime, i) = Left(Value(i), i)
    BY <1>1, ValueTicks
  <2>2. Value(i)' = valueAfter(ema[i].lastValue, (clock + 1) - ema[i].lastTime, i)
    BY <1>2 DEF Value
  <2>3. recent[i] \in Nat /\ i \in Nat \ {0} /\ recent'[i] = 0
    BY <1>1, <1>2, Diverse DEF CounterShape
  <2> QED BY <2>1, <2>2, <2>3
<1>6. InOrder' /\ TotalExact'
  BY <1>1, <1>2, <1>4 DEF InOrder, TotalExact
<1>7. AveragesDecay'
  <2> SUFFICES ASSUME NEW i \in Intervals
               PROVE  /\ recent'[i] + Pending(i)' <= work' /\ recent'[i] <= Value(i)'
                      /\ Value(i)' <= recent'[i] + Left(work' - recent'[i] - Pending(i)', i)
    BY DEF AveragesDecay
  <2>1. PICK p \in Nat, u \in Nat, v \in Nat, w \in Nat :
            p = Pending(i) /\ u = recent[i] /\ v = Value(i) /\ w = work
    BY <1>1, <1>4, <1>5 DEF CounterShape
  <2>2. u + p <= w /\ u <= v /\ v <= u + Left(w - u - p, i)
    BY <1>1, <2>1 DEF AveragesDecay
  <2>3. PICK b \in Nat : b = w - u - p /\ w - p = b + u
    <3>1. w - u - p \in Nat /\ w - p = (w - u - p) + u
      BY <2>1, <2>2
    <3> QED BY <3>1
  <2>4. v <= b + u + 0
    <3>1. Left(b, i) <= b
      BY <1>5, <2>3, LeftLess
    <3>2. Left(b, i) \in Nat
      BY <1>5, <2>3, LeftBounds
    <3> QED BY <2>1, <2>2, <2>3, <3>1, <3>2
  <2>5. Left(v, i) <= Left(b + u, i) + 0
    <3>1. b + u \in Nat /\ 0 \in Nat /\ i <= i
      BY <1>5, <2>1, <2>3
    <3> QED BY <1>5, <2>1, <2>4, <3>1, LeftGrows
  <2>6. Left(v, i) \in Nat /\ Left(b + u, i) \in Nat
    <3>1. b + u \in Nat
      BY <2>1, <2>3
    <3> QED BY <1>5, <2>1, <3>1, LeftBounds
  <2>7. w - 0 - p = b + u
    BY <2>1, <2>3
  <2>8. 0 + p <= w
    BY <2>1, <2>2
  <2>9. recent'[i] = 0 /\ work' = w /\ Pending(i)' = p /\ Value(i)' = Left(v, i)
    BY <1>2, <1>4, <1>5, <2>1
  <2>10. Left(w - 0 - p, i) = Left(b + u, i)
    BY <2>7
  <2> QED BY <2>5, <2>6, <2>8, <2>9, <2>10
<1>8. LongerHasMore'
  <2> SUFFICES ASSUME NEW i \in Intervals, NEW j \in Intervals, i < j
               PROVE  Value(i)' + Pending(i)' <= Value(j)' + Pending(j)'
    BY DEF LongerHasMore
  <2>1. PICK x \in Nat, y \in Nat, p \in Nat, q \in Nat :
            x = Value(i) /\ y = Value(j) /\ p = Pending(i) /\ q = Pending(j)
    BY <1>4, <1>5
  <2>2. p <= q
    <3>1. \A r \in Readers : i \in reader[r].to => j \in reader[r].to
      BY <1>1 DEF InOrder
    <3>2. reader \in ReaderType
      BY <1>1 DEF CounterShape, ReaderType
    <3> QED BY <2>1, <3>1, <3>2, OwedMore DEF Pending
  <2>3. PICK d \in Nat : q = p + d
    <3>1. q - p \in Nat /\ q = p + (q - p)
      BY <2>1, <2>2
    <3> QED BY <3>1
  <2>4. x <= y + d
    <3>1. x + p <= y + q
      BY <1>1, <2>1 DEF LongerHasMore
    <3> QED BY <2>1, <2>3, <3>1
  <2>5. Left(x, i) <= Left(y, j) + d
    <3>1. i \in Nat \ {0} /\ j \in Nat \ {0} /\ i <= j
      BY <1>5
    <3> QED BY <2>1, <2>3, <2>4, <3>1, LeftGrows
  <2>6. Left(x, i) \in Nat /\ Left(y, j) \in Nat
    BY <1>5, <2>1, LeftBounds
  <2>7. Left(x, i) + p <= Left(y, j) + q
    BY <2>1, <2>3, <2>5, <2>6
  <2> QED BY <1>4, <1>5, <2>1, <2>7
<1> QED
  BY <1>3, <1>6, <1>7, <1>8 DEF HashrateInv

LEMMA CounterKept ==
  ASSUME HashrateInv, [HashrateNext]_hashrateVars
  PROVE  HashrateInv'
<1>1. CASE UNCHANGED hashrateVars
  <2>1. /\ ema' = ema /\ totalHashes' = totalHashes /\ clock' = clock /\ reader' = reader
        /\ submits' = submits /\ recent' = recent /\ work' = work
    BY <1>1 DEF hashrateVars
  <2>2. \A i : Value(i)' = Value(i) /\ Pending(i)' = Pending(i)
    BY <2>1 DEF Value, Pending
  <2>3. CounterShape' /\ InOrder' /\ TotalExact'
    BY <2>1, <2>2 DEF HashrateInv, CounterShape, InOrder, TotalExact
  <2>4. AveragesDecay' /\ LongerHasMore'
    BY <2>1, <2>2 DEF HashrateInv, AveragesDecay, LongerHasMore
  <2> QED BY <2>3, <2>4 DEF HashrateInv
<1>2. CASE HashrateNext
  BY <1>2, CounterTakes, CounterAdds, CounterTotals, CounterFades DEF HashrateNext
<1> QED
  BY <1>1, <1>2

\* Rounding twice loses no more than a step of each.
LEMMA RoundedTwice ==
  ASSUME NEW v \in Nat, NEW i \in Nat \ {0}, NEW h \in Nat \ {0}, NEW p \in Nat \ {0}
  PROVE  LET g == ((v \div i) * h) \div p
         IN g * i * p <= v * h /\ v * h < (g + 1) * i * p + i * h
<1>1. PICK a \in Nat : a = v \div i /\ a * i <= v /\ v < (a + 1) * i
  BY Quotient
<1>2. PICK m \in Nat : m = a * h
  <2>1. a * h \in Nat
    OBVIOUS
  <2> QED BY <2>1
<1>3. PICK g \in Nat : g = m \div p /\ g * p <= m /\ m < (g + 1) * p
  BY Quotient
<1>4. g * i * p <= v * h
  <2>1. (g * p) * i <= m * i
    BY <1>3
  <2>2. (a * i) * h <= v * h
    BY <1>1
  <2>3. m * i = (a * i) * h /\ (g * p) * i = g * i * p
    BY <1>2
  <2> QED BY <2>1, <2>2, <2>3
<1>5. v * h < (g + 1) * i * p + i * h
  <2>1. v * h < ((a + 1) * i) * h
    BY <1>1
  <2>2. ((a + 1) * i) * h = m * i + i * h
    BY <1>2
  <2>3. m * i < ((g + 1) * p) * i
    BY <1>3
  <2>4. ((g + 1) * p) * i = (g + 1) * i * p
    OBVIOUS
  <2>5. v * h \in Int /\ m * i \in Int /\ i * h \in Int /\ (g + 1) * i * p \in Int
    OBVIOUS
  <2> QED BY <2>1, <2>2, <2>3, <2>4, <2>5
<1>6. g = ((v \div i) * h) \div p
  BY <1>1, <1>2, <1>3
<1> QED
  BY <1>4, <1>5, <1>6

LEMMA CounterSound ==
  ASSUME HashrateInv
  PROVE  HashrateTypeOK /\ HashrateCounted
<1>1. CounterShape /\ InOrder /\ TotalExact /\ AveragesDecay /\ LongerHasMore
  BY DEF HashrateInv
<1>2. HashrateTypeOK
  <2>1. \A i \in Intervals : ema[i].lastValue \in Nat /\ ema[i].lastTime \in 0..clock
    BY <1>1 DEF CounterShape
  <2>2. \A r \in Readers : reader[r].diff \in Diffs \cup {0} /\ reader[r].to \subseteq Intervals \cup {Total}
    BY <1>1 DEF CounterShape
  <2> QED BY <1>1, <2>1, <2>2 DEF HashrateTypeOK, CounterShape
<1>3. Idle => \A i : Pending(i) = 0
  BY OwedNothing DEF Idle, Pending
<1>4. Idle => totalHashes = work % TotalLimit
  <2> SUFFICES ASSUME Idle PROVE totalHashes = work % TotalLimit
    OBVIOUS
  <2>1. Pending(Total) = 0 /\ work \in Nat
    BY <1>1, <1>3 DEF CounterShape
  <2>2. work - 0 = work
    BY <2>1
  <2> QED BY <1>1, <2>1, <2>2 DEF TotalExact
<1>5. ASSUME NEW i \in Intervals
      PROVE  Value(i) \in Nat /\ recent[i] \in Nat /\ i \in Nat \ {0} /\ Pending(i) \in Nat
  BY <1>1, ValueTicks, Diverse, PendingNat DEF CounterShape
<1>6. ASSUME NEW i \in Intervals
      PROVE  Value(i) >= recent[i] /\ Value(i) <= recent[i] + ((work - recent[i]) * i) \div (i + 1)
  <2>1. PICK p \in Nat, u \in Nat, v \in Nat, w \in Nat :
            p = Pending(i) /\ u = recent[i] /\ v = Value(i) /\ w = work
    BY <1>1, <1>5 DEF CounterShape
  <2>2. u + p <= w /\ u <= v /\ v <= u + Left(w - u - p, i)
    BY <1>1, <2>1 DEF AveragesDecay
  <2>3. PICK b \in Nat : b = w - u - p /\ b + p = w - u
    <3>1. w - u - p \in Nat /\ (w - u - p) + p = w - u
      BY <2>1, <2>2
    <3> QED BY <3>1
  <2>4. Left(b, i) <= Left(b + p, i) + 0
    <3>1. b + p \in Nat /\ 0 \in Nat /\ b <= (b + p) + 0 /\ i <= i
      BY <1>5, <2>1, <2>3
    <3> QED BY <1>5, <2>3, <3>1, LeftGrows
  <2>5. Left(b, i) \in Nat /\ Left(b + p, i) \in Nat
    <3>1. b + p \in Nat
      BY <2>1, <2>3
    <3> QED BY <1>5, <2>3, <3>1, LeftBounds
  <2>6. v >= u /\ v <= u + Left(b + p, i)
    BY <2>1, <2>2, <2>3, <2>4, <2>5
  <2>7. Left(b + p, i) = ((work - recent[i]) * i) \div (i + 1)
    BY <2>1, <2>3 DEF Left
  <2> QED BY <2>1, <2>6, <2>7
<1>7. Idle => \A i, j \in Intervals : i < j => Value(i) <= Value(j)
  <2> SUFFICES ASSUME Idle, NEW i \in Intervals, NEW j \in Intervals, i < j PROVE Value(i) <= Value(j)
    OBVIOUS
  <2>1. Value(i) + 0 <= Value(j) + 0
    BY <1>1, <1>3 DEF LongerHasMore
  <2> QED BY <1>5, <2>1
<1>8. ASSUME NEW i \in Intervals
      PROVE  /\ GetHashrateGHS(i) * i * PerGHS <= Value(i) * HashesPerDiff
             /\ Value(i) * HashesPerDiff < (GetHashrateGHS(i) + 1) * i * PerGHS + i * HashesPerDiff
  <2>1. GetHashrateGHS(i) = ((Value(i) \div i) * HashesPerDiff) \div PerGHS
    BY DEF GetHashrateGHS, averageSubmitDiffToGHS, AveragePerSecond
  <2>2. HashesPerDiff \in Nat \ {0} /\ PerGHS \in Nat \ {0}
    BY HashrateAssumption
  <2> QED BY <1>5, <2>1, <2>2, RoundedTwice
<1> QED
  BY <1>2, <1>4, <1>6, <1>7, <1>8 DEF HashrateCounted
-----------------------------------------------------------------------------
(* The exact search for a subset.                                           *)

\* What becomes of a subset of one half stays in that half; it is the subset itself where
\* the half has at most four numbers.
Owned(s) == Max({k \in {1, 2, 3, 5, 9, 17} : k <= Cardinality(s)})
UpTo(s, i) == {k \in s : k <= i}
Genuine(s) == {i \in s : Cardinality(UpTo(s, i)) <= Owned(s)}

LEMMA KeptParts ==
  ASSUME NEW s
  PROVE  Kept(s) = Genuine(s) \cup {Max(Genuine(s)) + k : k \in 1..(Cardinality(s) - Owned(s))}
BY DEF Kept, Genuine, Owned, UpTo

LEMMA OwnedBounds ==
  ASSUME NEW s, IsFiniteSet(s), s # {}
  PROVE  /\ Cardinality(s) \in Nat \ {0} /\ Owned(s) \in 1..Cardinality(s)
         /\ Cardinality(s) <= 3 => Owned(s) = Cardinality(s)
         /\ Cardinality(s) = 4 => Owned(s) = 3
<1> DEFINE n == Cardinality(s)
           K == {k \in {1, 2, 3, 5, 9, 17} : k <= n}
<1>1. n \in Nat /\ n # 0
  BY FS_CardinalityType, FS_EmptySet
<1>2. Owned(s) = Max(K)
  BY DEF Owned
<1> HIDE DEF n
<1>3. K \in SUBSET (1..17) /\ 1 \in K
  BY <1>1
<1>4. \A k \in K : k <= n /\ k >= 1 /\ k \in Nat
  BY <1>1
<1>5. n <= 3 => K = 1..n
  BY <1>1
<1>6. n = 4 => K = 1..3
  BY <1>1
<1> HIDE DEF K
<1>7. Max(K) \in K
  <2>1. 17 \in Nat /\ K # {}
    BY <1>3
  <2> QED BY <1>3, <2>1, MaxOfSome
<1>8. n <= 3 => Max(K) = n
  BY <1>1, <1>5, LastOfPrefix
<1>9. n = 4 => Max(K) = 3
  <2>1. 3 \in Nat \ {0}
    OBVIOUS
  <2> QED BY <1>6, <2>1, LastOfPrefix
<1> QED
  BY <1>1, <1>2, <1>4, <1>7, <1>8, <1>9 DEF n

LEMMA KeptInHalf ==
  ASSUME NEW lo \in Nat, NEW hi \in Nat, NEW s \in SUBSET (lo..hi), s # {}
  PROVE  /\ Kept(s) \in SUBSET (lo..hi) /\ Kept(s) # {}
         /\ hi - lo < 4 => Kept(s) = s
<1> DEFINE n == Cardinality(s)
           own == Owned(s)
           first == Genuine(s)
           m == Max(first)
<1>1. IsFiniteSet(s) /\ s \in SUBSET Nat /\ n <= Cardinality(lo..hi)
  <2>1. lo \in Int /\ hi \in Int /\ lo..hi \subseteq Nat
    OBVIOUS
  <2>2. IsFiniteSet(lo..hi)
    BY <2>1, FS_Interval
  <2> QED BY <2>1, <2>2, FS_Subset
<1>2. /\ n \in Nat \ {0} /\ own \in 1..n
      /\ n <= 3 => own = n
      /\ n = 4 => own = 3
  BY <1>1, OwnedBounds
<1>3. \A i \in s : UpTo(s, i) \in SUBSET s /\ IsFiniteSet(UpTo(s, i))
                   /\ Cardinality(UpTo(s, i)) \in Nat /\ Cardinality(UpTo(s, i)) <= n
  <2>1. \A i : UpTo(s, i) \in SUBSET s
    BY DEF UpTo
  <2> QED BY <1>1, <2>1, FS_Subset, FS_CardinalityType
<1>4. first \in SUBSET s /\ first # {}
  <2>1. PICK w \in s : \A y \in s : w <= y
    BY <1>1, LeastInteger
  <2>2. UpTo(s, w) = {w}
    <3>1. w \in Nat /\ w \in s /\ \A y \in s : y \in Nat /\ w <= y
      BY <1>1, <2>1
    <3>2. \A y \in s : y <= w <=> y = w
      BY <3>1
    <3>3. \A y : y \in UpTo(s, w) <=> y = w
      BY <3>1, <3>2 DEF UpTo
    <3> QED BY <3>3
  <2>3. Cardinality(UpTo(s, w)) = 1
    BY <2>2, FS_Singleton
  <2>4. w \in first
    BY <1>2, <2>3 DEF Genuine
  <2> QED BY <2>4 DEF Genuine
<1>5. m \in first /\ m \in s /\ m \in Nat /\ lo <= m /\ m <= hi
  <2>1. IsFiniteSet(first) /\ first \in SUBSET Nat
    BY <1>1, <1>4, FS_Subset
  <2> HIDE DEF first
  <2>2. m \in first
    BY <1>4, <2>1, MaxOfFinite
  <2>3. m \in s /\ m \in lo..hi
    BY <1>4, <2>2
  <2> QED BY <2>2, <2>3
<1>6. Kept(s) = first \cup {m + k : k \in 1..(n - own)}
  BY KeptParts
<1>7. n - own <= hi - m
  <2> DEFINE rest == s \ UpTo(s, m)
  <2>1. Cardinality(UpTo(s, m)) <= own
    BY <1>5 DEF Genuine
  <2>2. Cardinality(rest) = n - Cardinality(UpTo(s, m)) /\ Cardinality(rest) \in Nat
    <3>1. s \cap UpTo(s, m) = UpTo(s, m)
      BY DEF UpTo
    <3>2. IsFiniteSet(rest)
      BY <1>1, FS_Subset
    <3> HIDE DEF m
    <3> QED BY <1>1, <3>1, <3>2, FS_Difference, FS_CardinalityType
  <2>3. rest \in SUBSET ((m + 1)..hi)
    <3>1. ASSUME NEW k \in rest PROVE k \in (m + 1)..hi
      <4>1. k \in s /\ k \in lo..hi /\ ~(k <= m)
        BY DEF UpTo
      <4> HIDE DEF m
      <4> QED BY <1>5, <4>1
    <3> QED BY <3>1
  <2> HIDE DEF rest, m, own, n
  <2>4. IsFiniteSet((m + 1)..hi) /\ Cardinality((m + 1)..hi) = hi - m
    <3>1. m + 1 \in Int /\ hi \in Int
      BY <1>5
    <3>2. /\ IsFiniteSet((m + 1)..hi)
          /\ Cardinality((m + 1)..hi) = IF m + 1 > hi THEN 0 ELSE hi - (m + 1) + 1
      BY <3>1, FS_Interval
    <3> QED BY <1>5, <3>2
  <2>5. Cardinality(rest) <= hi - m
    BY <2>3, <2>4, FS_Subset
  <2> QED BY <1>2, <1>3, <1>5, <2>1, <2>2, <2>5
<1> HIDE DEF m, own, n
<1>8. Kept(s) \in SUBSET (lo..hi)
  <2>1. \A k \in 1..(n - own) : m + k \in lo..hi
    BY <1>2, <1>5, <1>7
  <2> HIDE DEF first
  <2> QED BY <1>4, <1>6, <2>1
<1>9. Kept(s) # {}
  BY <1>4, <1>6
<1>10. ASSUME hi - lo < 4 PROVE Kept(s) = s
  <2>1. n <= 4
    <3>1. Cardinality(lo..hi) = IF lo > hi THEN 0 ELSE hi - lo + 1
      BY FS_Interval
    <3> QED BY <1>1, <1>2, <1>10, <3>1 DEF n
  <2>2. CASE n <= 3
    <3>1. own = n
      BY <1>2, <2>2
    <3>2. \A i \in s : i \in first
      BY <1>2, <1>3, <3>1 DEF Genuine, own, n
    <3>3. 1..(n - own) = {}
      BY <1>2, <3>1
    <3> HIDE DEF first
    <3> QED BY <1>4, <1>6, <3>2, <3>3
  <2>3. CASE n = 4
    <3>1. s = lo..hi /\ hi = lo + 3
      <4>1. IsFiniteSet(lo..hi) /\ Cardinality(lo..hi) = IF lo > hi THEN 0 ELSE hi - lo + 1
        BY FS_Interval
      <4>2. Cardinality(lo..hi) = 4 /\ hi = lo + 3
        BY <1>1, <1>10, <2>3, <4>1
      <4> QED BY <2>3, <4>1, <4>2, FS_Subset DEF n
    <3>2. own = 3
      BY <1>2, <2>3
    <3>3. \A i \in s : Cardinality(UpTo(s, i)) = i - lo + 1
      <4> SUFFICES ASSUME NEW i \in s PROVE Cardinality(UpTo(s, i)) = i - lo + 1
        OBVIOUS
      <4>1. i \in Nat /\ lo <= i /\ i <= hi
        BY <3>1
      <4>2. UpTo(s, i) = lo..i
        BY <3>1, <4>1 DEF UpTo
      <4>3. Cardinality(lo..i) = IF lo > i THEN 0 ELSE i - lo + 1
        BY <4>1, FS_Interval
      <4> QED BY <4>1, <4>2, <4>3
    <3>4. first = lo..(lo + 2)
      <4>1. \A i \in s : i \in first <=> i - lo + 1 <= 3
        BY <3>2, <3>3 DEF Genuine, own
      <4>2. \A i : i \in first => i \in s
        BY <1>4
      <4>3. \A i : i \in first <=> i \in lo..hi /\ i - lo + 1 <= 3
        BY <3>1, <4>1, <4>2
      <4>4. \A i : i \in lo..(lo + 2) <=> i \in lo..hi /\ i - lo + 1 <= 3
        BY <3>1
      <4> HIDE DEF first
      <4> QED BY <4>3, <4>4
    <3>5. m = lo + 2
      <4>1. lo + 2 \in lo..(lo + 2) /\ \A y \in lo..(lo + 2) : lo + 2 >= y
        OBVIOUS
      <4>2. \A z \in lo..(lo + 2) : (\A y \in lo..(lo + 2) : z >= y) => z = lo + 2
        BY <4>1
      <4> QED BY <3>4, <4>1, <4>2 DEF Max, m
    <3>6. {m + k : k \in 1..(n - own)} = {lo + 3}
      <4>1. 1..(n - own) = {1} /\ m + 1 = lo + 3
        BY <2>3, <3>2, <3>5
      <4> QED BY <4>1
    <3> HIDE DEF first
    <3>7. lo..hi = lo..(lo + 2) \cup {lo + 3}
      BY <3>1
    <3> QED BY <1>6, <3>1, <3>4, <3>6, <3>7
  <2> QED BY <1>2, <2>1, <2>2, <2>3
<1> QED
  BY <1>8, <1>9, <1>10

\* The sorted list of a half: what the subsets with an element end up as, one for each sum.
SumList(L, lo, hi, numbers) ==
    /\ Len(L) \in Nat /\ L \in [1..Len(L) -> SUBSET (lo..hi)]
    /\ \A k \in 1..Len(L) : \E s \in SUBSET (lo..hi) : s # {} /\ L[k] = Kept(s)
    /\ \A k, l \in 1..Len(L) :
          k < l => sumIndexed(L[k], numbers) < sumIndexed(L[l], numbers)
    /\ \A s \in SUBSET (lo..hi) :
          s # {} => \E k \in 1..Len(L) :
                       sumIndexed(L[k], numbers) = sumIndexed(Kept(s), numbers)

LEMMA SumLists ==
  ASSUME NEW lo \in Nat, NEW hi \in Nat, NEW numbers, \A y \in lo..hi : numbers[y] \in Int
  PROVE  SumList(getAllSumArr(lo..hi, numbers), lo, hi, numbers)
<1> DEFINE half == lo..hi
           subsets == {Kept(s) : s \in (SUBSET half) \ {{}}}
           sums == {sumIndexed(s, numbers) : s \in subsets}
           n == Cardinality(sums)
           sorted(k) == CHOOSE v \in sums : Cardinality({u \in sums : u < v}) = k - 1
           L == getAllSumArr(half, numbers)
<1>1. subsets \in SUBSET (SUBSET half)
  BY KeptInHalf
<1>2. IsFiniteSet(half) /\ IsFiniteSet(subsets)
  <2>1. lo \in Int /\ hi \in Int
    OBVIOUS
  <2>2. IsFiniteSet(half)
    BY <2>1, FS_Interval
  <2> HIDE DEF half
  <2>3. IsFiniteSet(SUBSET half)
    BY <2>2, FS_SUBSET
  <2>4. IsFiniteSet(subsets)
    BY <1>1, <2>3, FS_Subset
  <2> QED BY <2>2, <2>4
<1>3. ASSUME NEW s \in SUBSET half PROVE sumIndexed(s, numbers) \in Int
  <2>1. IsFiniteSet(s) /\ \A y \in s : numbers[y] \in Int
    BY <1>2, FS_Subset
  <2> QED BY <2>1, SumType DEF sumIndexed
<1>4. IsFiniteSet(sums) /\ sums \in SUBSET Int
  <2> DEFINE f == [s \in subsets |-> sumIndexed(s, numbers)]
  <2>1. sums = {f[s] : s \in subsets}
    OBVIOUS
  <2>2. IsFiniteSet({f[s] : s \in subsets})
    <3> HIDE DEF f, subsets
    <3> QED BY <1>2, FiniteImage
  <2>3. sums \in SUBSET Int
    BY <1>1, <1>3
  <2> QED BY <2>1, <2>2, <2>3
<1>5. /\ n \in Nat
      /\ \A v \in sums : Rank(sums, v) \in 0..(n - 1)
      /\ \A v, w \in sums : v < w => Rank(sums, v) < Rank(sums, w)
      /\ \A k \in 0..(n - 1) : \E v \in sums : Rank(sums, v) = k
  <2> HIDE DEF sums
  <2> QED BY <1>4, Ranks
<1>6. ASSUME NEW k \in 1..n
      PROVE  sorted(k) \in sums /\ Rank(sums, sorted(k)) = k - 1
  <2>1. k - 1 \in 0..(n - 1)
    BY <1>5
  <2>2. PICK v \in sums : Cardinality({u \in sums : u < v}) = k - 1
    BY <1>5, <2>1 DEF Rank
  <2> HIDE DEF sums
  <2> QED BY <2>2 DEF Rank
<1>7. /\ L = [k \in 1..n |-> CHOOSE s \in subsets : sumIndexed(s, numbers) = sorted(k)]
  BY DEF getAllSumArr
<1>8. ASSUME NEW k \in 1..n
      PROVE  L[k] \in subsets /\ sumIndexed(L[k], numbers) = sorted(k)
  <2>1. \E s \in subsets : sumIndexed(s, numbers) = sorted(k)
    BY <1>6
  <2>2. L[k] = CHOOSE s \in subsets : sumIndexed(s, numbers) = sorted(k)
    BY <1>7
  <2> HIDE DEF L, subsets, sorted
  <2> QED BY <2>1, <2>2
<1>9. L \in [1..n -> SUBSET half] /\ Len(L) = n
  <2>1. \A k \in 1..n : L[k] \in SUBSET half
    BY <1>1, <1>8
  <2>2. DOMAIN L = 1..n /\ L = [k \in 1..n |-> L[k]]
    BY <1>7
  <2> HIDE DEF L, n
  <2>3. L \in [1..n -> SUBSET half]
    BY <2>1, <2>2
  <2>4. L \in Seq(SUBSET half)
    BY <1>5, <2>3, SeqDef
  <2>5. Len(L) \in Nat /\ DOMAIN L = 1..Len(L)
    BY <2>4, LenProperties
  <2> QED BY <1>5, <2>2, <2>3, <2>5
<1> HIDE DEF L, n, sorted, subsets
<1>10. \A v \in sums : v \in Int
  BY <1>4
<1>11. ASSUME NEW k \in 1..n, NEW l \in 1..n, k < l
       PROVE  sumIndexed(L[k], numbers) < sumIndexed(L[l], numbers)
  <2> DEFINE v == sorted(k)
             w == sorted(l)
  <2>1. /\ v \in sums /\ w \in sums /\ Rank(sums, v) = k - 1 /\ Rank(sums, w) = l - 1
        /\ v \in Int /\ w \in Int
    BY <1>6, <1>10
  <2>2. v < w
    <3> HIDE DEF v, w, sums
    <3>1. ~(w < v)
      <4> SUFFICES ASSUME w < v PROVE FALSE
        OBVIOUS
      <4>1. l - 1 < k - 1
        BY <1>5, <2>1
      <4> QED BY <1>5, <1>11, <4>1
    <3>2. v # w
      BY <1>5, <1>11, <2>1
    <3> QED BY <2>1, <3>1, <3>2
  <2> QED BY <1>8, <2>2
<1>12. ASSUME NEW s \in SUBSET half, s # {}
       PROVE  \E k \in 1..n : sumIndexed(L[k], numbers) = sumIndexed(Kept(s), numbers)
  <2> DEFINE v == sumIndexed(Kept(s), numbers)
             k == Rank(sums, v) + 1
  <2>1. v \in sums
    BY <1>12 DEF subsets
  <2>2. Rank(sums, v) \in 0..(n - 1) /\ v \in Int
    BY <1>5, <1>10, <2>1
  <2>3. k \in 1..n /\ k - 1 = Rank(sums, v)
    BY <1>5, <2>2
  <2> HIDE DEF k
  <2> DEFINE w == sorted(k)
  <2>4. w \in sums /\ Rank(sums, w) = Rank(sums, v) /\ w \in Int /\ sumIndexed(L[k], numbers) = w
    BY <1>6, <1>8, <1>10, <2>3
  <2>5. w = v
    <3> HIDE DEF v, w, sums
    <3>1. ~(w < v) /\ ~(v < w)
      BY <1>5, <2>1, <2>2, <2>4
    <3> QED BY <2>2, <2>4, <3>1
  <2> QED BY <2>3, <2>4, <2>5
<1>13. ASSUME NEW k \in 1..n PROVE \E s \in SUBSET half : s # {} /\ L[k] = Kept(s)
  BY <1>8 DEF subsets
<1> QED
  BY <1>5, <1>9, <1>11, <1>12, <1>13 DEF SumList, L

\* The loop along two lists of subsets of D: what it has kept, and where it stands.
Loops(a, b, D) == [i : 1..(a + 1), j : 0..b, indexes : SUBSET D, delta : 0..MaxInt]
Begun(b) == [i |-> 1, j |-> b, indexes |-> {}, delta |-> MaxInt]

\* The lists as the search gets them: subsets of D in the order of their sums.
Ordered(list, n, D, numbers) ==
    /\ list \in [1..n -> SUBSET D]
    /\ \A x \in 1..n : sumIndexed(list[x], numbers) \in Int
    /\ \A x, y \in 1..n : x < y => sumIndexed(list[x], numbers) < sumIndexed(list[y], numbers)

LEMMA OrderedLen ==
  ASSUME NEW D, NEW numbers, NEW n \in Nat, NEW list, Ordered(list, n, D, numbers)
  PROVE  Len(list) = n
<1>1. list \in Seq(SUBSET D) /\ DOMAIN list = 1..n
  BY SeqDef DEF Ordered
<1>2. Len(list) \in Nat /\ DOMAIN list = 1..Len(list)
  BY <1>1, LenProperties
<1> QED
  BY <1>1, <1>2

\* One turn: the loop stays one over these lists, and says how it has changed.
PairSum(x, y, left, right, numbers) ==
    sumIndexed(left[x], numbers) + sumIndexed(right[y], numbers)
Steps(loop, next, a, b, D, left, right, numbers, goal) ==
    LET sumx == PairSum(loop.i, loop.j, left, right, numbers)
    IN /\ next \in Loops(a, b, D)
       /\ loop.i > a \/ loop.j = 0 => next = loop
       /\ loop.i <= a /\ loop.j # 0 =>
             /\ loop.i \in 1..a /\ loop.j \in 1..b /\ sumx \in Int
             /\ IF sumx >= goal /\ sumx - goal < loop.delta
                THEN /\ next.indexes = left[loop.i] \cup right[loop.j]
                     /\ next.delta = sumx - goal
                ELSE next.indexes = loop.indexes /\ next.delta = loop.delta
             /\ next.i = IF sumx < goal THEN loop.i + 1 ELSE loop.i
             /\ next.j = IF sumx > goal THEN loop.j - 1 ELSE loop.j

LEMMA TurnEffect ==
  ASSUME NEW D, NEW numbers, NEW a \in Nat, NEW b \in Nat, NEW left, NEW right, NEW goal \in Int,
         Ordered(left, a, D, numbers), Ordered(right, b, D, numbers), MaxInt \in Nat,
         NEW loop \in Loops(a, b, D)
  PROVE  Steps(loop, Turn(loop, left, right, numbers, goal), a, b, D, left, right, numbers, goal)
<1> DEFINE sumx == PairSum(loop.i, loop.j, left, right, numbers)
           next == Turn(loop, left, right, numbers, goal)
           closer == IF sumx >= goal /\ sumx - goal < loop.delta
                     THEN [loop EXCEPT !.indexes = left[loop.i] \cup right[loop.j],
                                       !.delta = sumx - goal]
                     ELSE loop
<1>1. /\ loop.i \in Nat /\ 1 <= loop.i /\ loop.i <= a + 1 /\ loop.j \in Nat /\ loop.j <= b
      /\ loop.delta \in Nat /\ loop.delta <= MaxInt
  BY DEF Loops
<1>2. next = IF loop.i > a \/ loop.j = 0 THEN loop
             ELSE IF sumx < goal THEN [closer EXCEPT !.i = @ + 1]
                  ELSE IF sumx > goal THEN [closer EXCEPT !.j = @ - 1] ELSE closer
  BY OrderedLen DEF Turn, PairSum
<1>3. CASE loop.i > a \/ loop.j = 0
  BY <1>1, <1>2, <1>3 DEF Steps
<1>4. CASE loop.i <= a /\ loop.j # 0
  <2>1. loop.i \in 1..a /\ loop.j \in 1..b
    BY <1>1, <1>4
  <2>2. sumx \in Int /\ left[loop.i] \cup right[loop.j] \in SUBSET D
    BY <2>1 DEF Ordered, PairSum
  <2> HIDE DEF sumx, next
  <2>3. /\ closer \in Loops(a, b, D) /\ closer.i = loop.i /\ closer.j = loop.j
        /\ IF sumx >= goal /\ sumx - goal < loop.delta
           THEN closer.indexes = left[loop.i] \cup right[loop.j] /\ closer.delta = sumx - goal
           ELSE closer.indexes = loop.indexes /\ closer.delta = loop.delta
    <3>1. CASE sumx >= goal /\ sumx - goal < loop.delta
      <4>1. sumx - goal \in 0..MaxInt
        BY <1>1, <2>2, <3>1
      <4> QED BY <2>2, <3>1, <4>1 DEF Loops
    <3>2. CASE ~(sumx >= goal /\ sumx - goal < loop.delta)
      BY <3>2
    <3> QED BY <3>1, <3>2
  <2> HIDE DEF closer
  <2>4. next = IF sumx < goal THEN [closer EXCEPT !.i = @ + 1]
               ELSE IF sumx > goal THEN [closer EXCEPT !.j = @ - 1] ELSE closer
    BY <1>1, <1>2, <1>4
  <2>5. loop.i + 1 \in 1..(a + 1) /\ loop.j - 1 \in 0..b
    BY <1>1, <1>4
  <2>6. /\ next \in Loops(a, b, D) /\ next.indexes = closer.indexes /\ next.delta = closer.delta
        /\ next.i = IF sumx < goal THEN loop.i + 1 ELSE loop.i
        /\ next.j = IF sumx > goal THEN loop.j - 1 ELSE loop.j
    <3>1. CASE sumx < goal
      BY <2>2, <2>3, <2>4, <2>5, <3>1 DEF Loops
    <3>2. CASE sumx > goal
      BY <2>2, <2>3, <2>4, <2>5, <3>2 DEF Loops
    <3>3. CASE sumx = goal
      BY <2>2, <2>3, <2>4, <3>3
    <3> QED BY <2>2, <3>1, <3>2, <3>3
  <2> QED BY <1>1, <1>4, <2>1, <2>2, <2>3, <2>6 DEF sumx, next, Steps
<1> QED
  BY <1>1, <1>3, <1>4

\* The fold is where the turns lead.
TurnsTo(tr, res, a, b, D, left, right, numbers, goal) ==
    /\ tr \in [0..(a + b) -> Loops(a, b, D)]
    /\ tr[0] = Begun(b)
    /\ \A k \in 1..(a + b) : tr[k] = Turn(tr[k - 1], left, right, numbers, goal)
    /\ res = tr[a + b]

LEMMA LoopTurns ==
  ASSUME NEW D, NEW numbers, NEW a \in Nat, NEW b \in Nat, NEW left, NEW right, NEW goal \in Int,
         Ordered(left, a, D, numbers), Ordered(right, b, D, numbers), MaxInt \in Nat
  PROVE  \E tr : TurnsTo(tr, getMinValArr(left, right, numbers, goal),
                         a, b, D, left, right, numbers, goal)
<1> DEFINE n == a + b
           S == 1..n
           M == Loops(a, b, D)
           base == Begun(b)
           T(loop) == Turn(loop, left, right, numbers, goal)
           Rec(h) == h = [s \in SUBSET S |-> IF s = {} THEN base ELSE T(h[s \ {Max(s)}])]
           t == CHOOSE h : Rec(h)
           step == [q \in M \X S |-> T(q[1])]
<1>1. getMinValArr(left, right, numbers, goal) = t[S]
  <2>1. Len(left) = a /\ Len(right) = b
    BY OrderedLen
  <2> QED BY <2>1 DEF getMinValArr, FoldLeft, MapThenFoldSet, Begun
<1>2. n \in Nat /\ base \in M
  <2>1. 1 \in 1..(a + 1) /\ b \in 0..b /\ MaxInt \in 0..MaxInt /\ {} \in SUBSET D
    OBVIOUS
  <2> QED BY <2>1 DEF Loops, Begun
<1>3. \A loop \in M : T(loop) \in M
  BY TurnEffect DEF Steps
<1> HIDE DEF T, M, base, n
<1>4. \A m \in M, k \in S : step[<<m, k>>] = T(m)
  OBVIOUS
<1> HIDE DEF step
<1>5. ClosedOver(step, M, n)
  BY <1>3, <1>4 DEF ClosedOver
<1>6. \A s \in SUBSET S : s # {} => Max(s) \in S
  BY <1>2, MaxOfSome
<1>7. PICK tr : IsTrace(tr, step, base, M, n)
  BY <1>2, <1>5, TraceExists
<1>8. PICK g : IsTable(g, step, base, M, n)
  BY <1>2, <1>5, FoldTable
<1>9. Rec(g)
  <2>1. ASSUME NEW s \in SUBSET S, s # {} PROVE g[s] = T(g[s \ {Max(s)}])
    BY <1>4, <1>6, <1>8, <2>1 DEF IsTable
  <2> QED BY <1>8, <2>1, ZenonT(30) DEF IsTable
<1>10. Rec(t)
  BY <1>9
<1> HIDE DEF t
<1>11. t[{}] = base /\ \A s \in SUBSET S : s # {} => t[s] = T(t[s \ {Max(s)}])
  BY <1>10
<1>12. Follows(t, step, M, n)
  BY <1>4, <1>6, <1>11 DEF Follows
<1>13. t[S] = tr[n]
  <2>1. IsTrace(tr, step, t[{}], M, n)
    BY <1>7, <1>11
  <2> HIDE DEF Rec
  <2> QED BY <1>2, <1>12, <2>1, FoldAlong
<1>14. \A k \in S : tr[k] = T(tr[k - 1])
  <2>1. \A k \in S : k - 1 \in 0..n
    BY <1>2
  <2> QED BY <1>4, <1>7, <2>1 DEF IsTrace
<1> QED
  BY <1>1, <1>7, <1>13, <1>14 DEF IsTrace, TurnsTo, T, M, base, n

\* What is kept is a pair of the lists, if anything; and no pair that fits better has been
\* passed: it is still ahead of the loop.
KeepsPair(loop, a, b, left, right, numbers, goal) ==
    \/ loop.indexes = {} /\ loop.delta = MaxInt
    \/ \E x \in 1..a, y \in 1..b : /\ loop.indexes = left[x] \cup right[y]
                                   /\ loop.delta = PairSum(x, y, left, right, numbers) - goal
MissesNone(loop, a, b, left, right, numbers, goal) ==
    \A x \in 1..a, y \in 1..b :
       LET sumx == PairSum(x, y, left, right, numbers)
       IN sumx >= goal => \/ x >= loop.i /\ y <= loop.j
                          \/ loop.delta <= sumx - goal
\* After k turns the loop is k steps further, or over.
Over(loop, a) == loop.i > a \/ loop.j = 0 \/ loop.delta = 0
OnItsWay(loop, a, b, k) == Over(loop, a) \/ (loop.i - 1) + (b - loop.j) = k

LEMMA TurnFinds ==
  ASSUME NEW D, NEW numbers, NEW a \in Nat, NEW b \in Nat, NEW left, NEW right, NEW goal \in Int,
         Ordered(left, a, D, numbers), Ordered(right, b, D, numbers), MaxInt \in Nat,
         NEW loop \in Loops(a, b, D), NEW next, next = Turn(loop, left, right, numbers, goal),
         KeepsPair(loop, a, b, left, right, numbers, goal),
         MissesNone(loop, a, b, left, right, numbers, goal),
         NEW k \in Nat, OnItsWay(loop, a, b, k)
  PROVE  /\ KeepsPair(next, a, b, left, right, numbers, goal)
         /\ MissesNone(next, a, b, left, right, numbers, goal)
         /\ OnItsWay(next, a, b, k + 1)
<1> DEFINE P(x, y) == PairSum(x, y, left, right, numbers)
           sumx == P(loop.i, loop.j)
<1>1. /\ loop.i \in Nat /\ 1 <= loop.i /\ loop.i <= a + 1 /\ loop.j \in Nat /\ loop.j <= b
      /\ loop.delta \in Nat
  BY DEF Loops
<1>2. /\ next \in Loops(a, b, D)
      /\ loop.i > a \/ loop.j = 0 => next = loop
      /\ loop.i <= a /\ loop.j # 0 =>
            /\ loop.i \in 1..a /\ loop.j \in 1..b /\ sumx \in Int
            /\ IF sumx >= goal /\ sumx - goal < loop.delta
               THEN /\ next.indexes = left[loop.i] \cup right[loop.j]
                    /\ next.delta = sumx - goal
               ELSE next.indexes = loop.indexes /\ next.delta = loop.delta
            /\ next.i = IF sumx < goal THEN loop.i + 1 ELSE loop.i
            /\ next.j = IF sumx > goal THEN loop.j - 1 ELSE loop.j
  <2>1. Steps(loop, next, a, b, D, left, right, numbers, goal)
    BY TurnEffect
  <2> QED BY <2>1 DEF Steps
<1>3. CASE loop.i > a \/ loop.j = 0
  <2>1. next = loop
    BY <1>2, <1>3
  <2>2. Over(loop, a)
    BY <1>3 DEF Over
  <2> QED BY <2>1, <2>2 DEF OnItsWay
<1>4. CASE loop.i <= a /\ loop.j # 0
  <2>1. KeepsPair(next, a, b, left, right, numbers, goal)
    BY <1>2, <1>4 DEF KeepsPair
  <2>2. next.delta <= loop.delta /\ (sumx >= goal => next.delta <= sumx - goal) /\ next.delta \in Nat
    <3>1. next.delta \in Nat
      BY <1>2 DEF Loops
    <3> HIDE DEF sumx
    <3> QED BY <1>1, <1>2, <1>4, <3>1
  <2>3. \A x, y \in 1..a : x < y => sumIndexed(left[x], numbers) < sumIndexed(left[y], numbers)
    BY DEF Ordered
  <2>4. \A x, y \in 1..b : x < y => sumIndexed(right[x], numbers) < sumIndexed(right[y], numbers)
    BY DEF Ordered
  <2>5. /\ \A x \in 1..a : sumIndexed(left[x], numbers) \in Int
        /\ \A y \in 1..b : sumIndexed(right[y], numbers) \in Int
    BY DEF Ordered
  <2>6. ASSUME NEW x \in 1..a, NEW y \in 1..b, P(x, y) >= goal
        PROVE  (x >= next.i /\ y <= next.j) \/ next.delta <= P(x, y) - goal
    <3>1. (x >= loop.i /\ y <= loop.j) \/ loop.delta <= P(x, y) - goal
      BY <2>6 DEF MissesNone
    <3>2. P(x, y) \in Int /\ P(loop.i, y) \in Int /\ P(x, loop.j) \in Int
      BY <1>2, <1>4, <2>5 DEF PairSum
    <3>3. CASE loop.delta <= P(x, y) - goal
      <4> HIDE DEF P
      <4> QED BY <1>1, <2>2, <3>2, <3>3
    <3>4. CASE x >= loop.i /\ y <= loop.j
      <4>1. CASE sumx < goal
        <5>1. x # loop.i
          <6> SUFFICES ASSUME x = loop.i PROVE FALSE
            OBVIOUS
          <6>1. P(x, y) <= sumx
            BY <1>2, <1>4, <2>4, <2>5, <3>4 DEF PairSum
          <6> HIDE DEF P, sumx
          <6> QED BY <1>2, <1>4, <2>6, <3>2, <4>1, <6>1
        <5>2. next.i = loop.i + 1 /\ next.j = loop.j
          <6> HIDE DEF sumx
          <6> QED BY <1>2, <1>4, <4>1
        <5> QED BY <1>1, <3>4, <5>1, <5>2
      <4>2. CASE sumx > goal
        <5>1. next.i = loop.i /\ next.j = loop.j - 1
          <6> HIDE DEF sumx
          <6> QED BY <1>2, <1>4, <4>2
        <5>2. CASE y = loop.j
          <6>1. sumx <= P(x, y)
            BY <1>2, <1>4, <2>3, <2>5, <3>4, <5>2 DEF PairSum
          <6> HIDE DEF P, sumx
          <6> QED BY <1>2, <1>4, <2>2, <3>2, <4>2, <6>1
        <5>3. CASE y # loop.j
          BY <1>1, <3>4, <5>1, <5>3
        <5> QED BY <5>2, <5>3
      <4>3. CASE sumx = goal
        <5> HIDE DEF sumx
        <5>1. next.i = loop.i /\ next.j = loop.j
          BY <1>2, <1>4, <4>3
        <5> QED BY <3>4, <5>1
      <4> HIDE DEF sumx
      <4> QED BY <1>2, <1>4, <4>1, <4>2, <4>3
    <3> QED BY <3>1, <3>3, <3>4
  <2>7. MissesNone(next, a, b, left, right, numbers, goal)
    BY <2>6 DEF MissesNone
  <2>8. OnItsWay(next, a, b, k + 1)
    <3> HIDE DEF sumx
    <3>1. CASE loop.delta = 0
      BY <1>1, <2>2, <3>1 DEF OnItsWay, Over
    <3>2. CASE sumx = goal
      BY <1>2, <1>4, <2>2, <3>2 DEF OnItsWay, Over
    <3>3. CASE sumx # goal /\ loop.delta # 0
      <4>1. (loop.i - 1) + (b - loop.j) = k
        BY <1>1, <1>4, <3>3 DEF OnItsWay, Over
      <4> QED BY <1>1, <1>2, <1>4, <3>3, <4>1 DEF OnItsWay
    <3> QED BY <3>1, <3>2, <3>3
  <2> QED BY <2>1, <2>7, <2>8
<1> QED
  BY <1>1, <1>3, <1>4

\* What the walk along the lists returns: a pair of them, if any overshoots by less than
\* MaxInt, and the least overshoot of all.
LEMMA WalkFinds ==
  ASSUME NEW D, NEW numbers, NEW a \in Nat, NEW b \in Nat, NEW left, NEW right, NEW goal \in Int,
         Ordered(left, a, D, numbers), Ordered(right, b, D, numbers), MaxInt \in Nat
  PROVE  LET res == getMinValArr(left, right, numbers, goal)
         IN /\ res.delta \in 0..MaxInt
            /\ KeepsPair(res, a, b, left, right, numbers, goal)
            /\ \A x \in 1..a, y \in 1..b :
                  PairSum(x, y, left, right, numbers) >= goal =>
                     res.delta <= PairSum(x, y, left, right, numbers) - goal
<1> DEFINE res == getMinValArr(left, right, numbers, goal)
           n == a + b
           Fine(loop) == /\ KeepsPair(loop, a, b, left, right, numbers, goal)
                         /\ MissesNone(loop, a, b, left, right, numbers, goal)
<1>0. PICK tr : TurnsTo(tr, res, a, b, D, left, right, numbers, goal)
  BY LoopTurns
<1>1. /\ tr \in [0..n -> Loops(a, b, D)] /\ tr[0] = Begun(b)
      /\ \A k \in 1..n : tr[k] = Turn(tr[k - 1], left, right, numbers, goal)
      /\ res = tr[n]
  BY <1>0 DEF TurnsTo
<1> HIDE DEF res
<1> DEFINE H == {k \in 0..n : Fine(tr[k]) /\ OnItsWay(tr[k], a, b, k)}
<1>2. 0 \in H
  <2>1. /\ tr[0].i = 1 /\ tr[0].j = b /\ tr[0].indexes = {} /\ tr[0].delta = MaxInt
    BY <1>1 DEF Begun
  <2> QED BY <2>1 DEF KeepsPair, MissesNone, OnItsWay
<1>3. ASSUME NEW k \in 0..n, k \in H, k < n PROVE k + 1 \in H
  <2>1. k + 1 \in 1..n /\ k + 1 \in 0..n /\ (k + 1) - 1 = k /\ k \in Nat
    BY <1>3
  <2>2. tr[k + 1] = Turn(tr[k], left, right, numbers, goal) /\ tr[k] \in Loops(a, b, D)
    BY <1>1, <2>1
  <2>3. Fine(tr[k]) /\ OnItsWay(tr[k], a, b, k)
    BY <1>3
  <2>4. Fine(tr[k + 1]) /\ OnItsWay(tr[k + 1], a, b, k + 1)
    BY <2>1, <2>2, <2>3, TurnFinds
  <2> QED BY <2>1, <2>4
<1>4. n \in Nat
  OBVIOUS
<1>5. Fine(res) /\ OnItsWay(res, a, b, n) /\ res \in Loops(a, b, D)
  <2>1. n \in H
    <3>1. \A k \in 0..n : k \in H /\ k < n => k + 1 \in H
      BY <1>3
    <3> HIDE DEF H, n
    <3> QED BY <1>2, <1>4, <3>1, Induction
  <2> QED BY <1>1, <1>4, <2>1
<1>6. /\ res.i \in Nat /\ 1 <= res.i /\ res.j \in Nat /\ res.j <= b
      /\ res.delta \in 0..MaxInt /\ res.delta \in Nat
  BY <1>5 DEF Loops
<1>7. Over(res, a)
  BY <1>5, <1>6 DEF OnItsWay, Over
<1>8. ASSUME NEW x \in 1..a, NEW y \in 1..b, PairSum(x, y, left, right, numbers) >= goal
      PROVE  res.delta <= PairSum(x, y, left, right, numbers) - goal
  <2>1. \/ x >= res.i /\ y <= res.j
        \/ res.delta <= PairSum(x, y, left, right, numbers) - goal
    BY <1>5, <1>8 DEF MissesNone
  <2>2. PairSum(x, y, left, right, numbers) \in Int
    BY DEF PairSum, Ordered
  <2> QED BY <1>6, <1>7, <1>8, <2>1, <2>2 DEF Over
<1> QED
  BY <1>5, <1>6, <1>8 DEF res

\* The two halves of a list are intervals of its positions.
LEMMA Halves ==
  ASSUME NEW n \in Nat, NEW numbers \in [1..n -> Int]
  PROVE  \E mid \in Nat : /\ 2 * mid <= n /\ n <= 2 * mid + 1
                          /\ LeftHalf(numbers) = 1..mid /\ RightHalf(numbers) = (mid + 1)..n
<1> DEFINE mid == n \div 2
<1>1. Len(numbers) = n
  <2>1. numbers \in Seq(Int) /\ DOMAIN numbers = 1..n
    BY SeqDef
  <2>2. Len(numbers) \in Nat /\ DOMAIN numbers = 1..Len(numbers)
    BY <2>1, LenProperties
  <2> QED BY <2>1, <2>2
<1>2. mid \in Nat /\ 2 * mid <= n /\ n <= 2 * mid + 1
  OBVIOUS
<1>3. LeftHalf(numbers) = 1..mid /\ RightHalf(numbers) = (1..n) \ (1..mid)
  BY <1>1 DEF LeftHalf, RightHalf
<1> HIDE DEF mid
<1>4. (1..n) \ (1..mid) = (mid + 1)..n
  BY <1>2
<1> QED
  BY <1>2, <1>3, <1>4

\* What the search returns for any list: nothing and MaxInt, or a subset whose sum is the
\* goal and the delta; and for a list of at most eight numbers no subset with a part in both
\* halves overshoots the goal by less (ClosestSubsetSum, closest_subset_sum.go:15-83).
THEOREM SearchFinds ==
  ASSUME NEW n \in Nat, NEW numbers \in [1..n -> Int], NEW goal \in Int, MaxInt \in Nat
  PROVE  /\ DeltaFits(numbers, goal)
         /\ n <= 8 => LET over == {sumIndexed(s, numbers) - goal : s \in FromBoth(numbers)} \cap Nat
                      IN ClosestSubsetSum(numbers, goal).delta = Min(over \cup {MaxInt})
<1> DEFINE D == 1..n
           Sum(s) == sumIndexed(s, numbers)
<1>1. PICK mid \in Nat : /\ 2 * mid <= n /\ n <= 2 * mid + 1
                         /\ LeftHalf(numbers) = 1..mid /\ RightHalf(numbers) = (mid + 1)..n
  BY Halves
<1> DEFINE A == 1..mid
           B == (mid + 1)..n
           left == getAllSumArr(A, numbers)
           right == getAllSumArr(B, numbers)
           a == Len(left)
           b == Len(right)
           res == ClosestSubsetSum(numbers, goal)
           P(x, y) == PairSum(x, y, left, right, numbers)
<1>2. A \cup B = D /\ A \cap B = {} /\ DOMAIN numbers = D
  BY <1>1
<1>3. SumList(left, 1, mid, numbers) /\ SumList(right, mid + 1, n, numbers)
  <2>1. 1 \in Nat /\ mid + 1 \in Nat /\ \A y \in D : numbers[y] \in Int
    OBVIOUS
  <2>2. (\A y \in A : numbers[y] \in Int) /\ (\A y \in B : numbers[y] \in Int)
    BY <1>2, <2>1
  <2> QED BY <2>1, <2>2, SumLists
<1>4. res = getMinValArr(left, right, numbers, goal)
  BY <1>1 DEF ClosestSubsetSum
<1>5. IsFiniteSet(D) /\ \A y \in D : numbers[y] \in Int
  BY FS_Interval
<1>6. ASSUME NEW s \in SUBSET D PROVE Sum(s) \in Int
  <2>1. IsFiniteSet(s) /\ \A y \in s : numbers[y] \in Int
    BY <1>5, FS_Subset
  <2> QED BY <2>1, SumType DEF sumIndexed
<1>7. ASSUME NEW s \in SUBSET A, NEW t \in SUBSET B PROVE Sum(s \cup t) = Sum(s) + Sum(t)
  <2>1. s \in SUBSET D /\ t \in SUBSET D /\ s \cap t = {}
    BY <1>2
  <2> HIDE DEF D
  <2>2. \A u, v \in SUBSET D : u \cap v = {} =>
           SumFunctionOnSet(numbers, u \cup v)
             = SumFunctionOnSet(numbers, u) + SumFunctionOnSet(numbers, v)
    BY <1>5, SumUnion
  <2> QED BY <2>1, <2>2 DEF sumIndexed
<1>8. /\ a \in Nat /\ b \in Nat
      /\ Ordered(left, a, D, numbers) /\ Ordered(right, b, D, numbers)
  <2>1. /\ a \in Nat /\ left \in [1..a -> SUBSET A]
        /\ \A x, y \in 1..a : x < y => Sum(left[x]) < Sum(left[y])
    BY <1>3 DEF SumList
  <2>2. /\ b \in Nat /\ right \in [1..b -> SUBSET B]
        /\ \A x, y \in 1..b : x < y => Sum(right[x]) < Sum(right[y])
    BY <1>3 DEF SumList
  <2>3. A \in SUBSET D /\ B \in SUBSET D
    BY <1>2
  <2> HIDE DEF A, B, D, left, right, a, b
  <2>4. Ordered(left, a, D, numbers)
    BY <1>6, <2>1, <2>3 DEF Ordered
  <2>5. Ordered(right, b, D, numbers)
    BY <1>6, <2>2, <2>3 DEF Ordered
  <2> QED BY <2>1, <2>2, <2>4, <2>5
<1>9. /\ res.delta \in 0..MaxInt
      /\ KeepsPair(res, a, b, left, right, numbers, goal)
      /\ \A x \in 1..a, y \in 1..b : P(x, y) >= goal => res.delta <= P(x, y) - goal
  <2> HIDE DEF a, b, left, right, D, res
  <2> QED BY <1>4, <1>8, WalkFinds
<1>10. ASSUME NEW x \in 1..a, NEW y \in 1..b
       PROVE  /\ left[x] \in SUBSET A /\ left[x] # {} /\ right[y] \in SUBSET B /\ right[y] # {}
              /\ P(x, y) = Sum(left[x] \cup right[y]) /\ P(x, y) \in Int
  <2>1. left[x] \in SUBSET A /\ right[y] \in SUBSET B
    BY <1>3, <1>10 DEF SumList
  <2>2. left[x] # {} /\ right[y] # {}
    <3>1. \E s \in SUBSET A : s # {} /\ left[x] = Kept(s)
      BY <1>3 DEF SumList
    <3>2. \E s \in SUBSET B : s # {} /\ right[y] = Kept(s)
      BY <1>3 DEF SumList
    <3>3. 1 \in Nat /\ mid + 1 \in Nat
      OBVIOUS
    <3> HIDE DEF left, right
    <3>4. \A s \in SUBSET A : s # {} => Kept(s) # {}
      BY <3>3, KeptInHalf
    <3>5. \A s \in SUBSET B : s # {} => Kept(s) # {}
      BY <3>3, KeptInHalf
    <3> QED BY <3>1, <3>2, <3>4, <3>5
  <2>3. P(x, y) = Sum(left[x]) + Sum(right[y])
    BY DEF PairSum
  <2>4. P(x, y) = Sum(left[x] \cup right[y])
    BY <1>7, <2>1, <2>3
  <2>5. left[x] \cup right[y] \in SUBSET D
    BY <1>2, <2>1
  <2>6. P(x, y) \in Int
    BY <1>6, <2>4, <2>5
  <2> QED BY <2>1, <2>2, <2>4, <2>6
<1> HIDE DEF left, right, a, b, res, P
<1>11. res.delta \in Nat /\ res.delta <= MaxInt
  BY <1>9
<1>12. DeltaFits(numbers, goal)
  <2>1. IF res.indexes = {} THEN res.delta = MaxInt
        ELSE res.delta >= 0 /\ sumIndexed(res.indexes, numbers) = goal + res.delta
    <3>1. CASE res.indexes = {}
      <4>1. \A x \in 1..a, y \in 1..b : res.indexes # left[x] \cup right[y]
        BY <1>10, <3>1
      <4> QED BY <1>9, <3>1, <4>1 DEF KeepsPair
    <3>2. CASE res.indexes # {}
      <4>1. PICK x \in 1..a, y \in 1..b : /\ res.indexes = left[x] \cup right[y]
                                          /\ res.delta = P(x, y) - goal
        BY <1>9, <3>2 DEF KeepsPair, P
      <4>2. sumIndexed(res.indexes, numbers) = P(x, y) /\ P(x, y) \in Int
        BY <1>10, <4>1
      <4> QED BY <1>11, <3>2, <4>1, <4>2
    <3> QED BY <3>1, <3>2
  <2> QED BY <2>1 DEF DeltaFits, res
<1>13. ASSUME n <= 8
       PROVE  LET over == {sumIndexed(s, numbers) - goal : s \in FromBoth(numbers)} \cap Nat
              IN ClosestSubsetSum(numbers, goal).delta = Min(over \cup {MaxInt})
  <2> DEFINE over == {sumIndexed(s, numbers) - goal : s \in FromBoth(numbers)} \cap Nat
             found == over \cup {MaxInt}
  <2>1. mid - 1 < 4 /\ n - (mid + 1) < 4 /\ 1 \in Nat /\ mid + 1 \in Nat
    BY <1>1, <1>13
  <2>2. FromBoth(numbers) = {s \in SUBSET D : s \cap A # {} /\ s \cap B # {}}
    BY <1>1, <1>2 DEF FromBoth
  <2>3. res.delta \in found
    <3>1. CASE res.delta = MaxInt
      BY <3>1
    <3>2. CASE res.delta # MaxInt
      <4>1. PICK x \in 1..a, y \in 1..b : /\ res.indexes = left[x] \cup right[y]
                                          /\ res.delta = P(x, y) - goal
        BY <1>9, <3>2 DEF KeepsPair, P
      <4> DEFINE s == left[x] \cup right[y]
      <4>2. s \in SUBSET D /\ s \cap A # {} /\ s \cap B # {}
        <5> HIDE DEF A, B, D
        <5> QED BY <1>2, <1>10
      <4>3. res.delta = sumIndexed(s, numbers) - goal
        BY <1>10, <4>1
      <4> QED BY <1>11, <2>2, <4>2, <4>3
    <3> QED BY <3>1, <3>2
  <2>4. ASSUME NEW d \in found PROVE res.delta <= d
    <3>1. CASE d = MaxInt
      BY <1>11, <3>1
    <3>2. CASE d # MaxInt
      <4>1. PICK s \in FromBoth(numbers) : d = sumIndexed(s, numbers) - goal /\ d \in Nat
        BY <3>2
      <4> DEFINE sl == s \cap A
                 sr == s \cap B
      <4>2. /\ s \in SUBSET D /\ sl \in SUBSET A /\ sr \in SUBSET B
            /\ sl # {} /\ sr # {} /\ s = sl \cup sr
        <5> HIDE DEF A, B, D
        <5> QED BY <1>2, <2>2
      <4> HIDE DEF sl, sr
      <4>3. PICK x \in 1..a : Sum(left[x]) = Sum(sl)
        <5>1. \E x \in 1..a : Sum(left[x]) = Sum(Kept(sl))
          BY <1>3, <4>2 DEF SumList, a
        <5>2. Kept(sl) = sl
          BY <2>1, <4>2, KeptInHalf
        <5> QED BY <5>1, <5>2
      <4>4. PICK y \in 1..b : Sum(right[y]) = Sum(sr)
        <5>1. \E y \in 1..b : Sum(right[y]) = Sum(Kept(sr))
          BY <1>3, <4>2 DEF SumList, b
        <5>2. Kept(sr) = sr
          BY <2>1, <4>2, KeptInHalf
        <5> QED BY <5>1, <5>2
      <4>5. P(x, y) = sumIndexed(s, numbers) /\ P(x, y) \in Int
        <5>1. P(x, y) = Sum(sl) + Sum(sr)
          BY <4>3, <4>4 DEF P, PairSum
        <5>2. Sum(sl \cup sr) = Sum(sl) + Sum(sr)
          BY <1>7, <4>2
        <5> QED BY <1>10, <4>2, <5>1, <5>2
      <4>6. P(x, y) >= goal /\ d = P(x, y) - goal
        BY <4>1, <4>5
      <4> QED BY <1>9, <4>6
    <3> QED BY <3>1, <3>2
  <2>5. \A d \in found : d \in Nat
    OBVIOUS
  <2> HIDE DEF found
  <2>6. \A d \in found : (\A c \in found : d <= c) => d = res.delta
    BY <1>11, <2>3, <2>4, <2>5
  <2>7. Min(found) = res.delta
    BY <2>3, <2>4, <2>6 DEF Min
  <2> QED BY <2>7 DEF found, res
<1> QED
  BY <1>12, <1>13

\* The exact search keeps its promise for every list that is tried.
LEMMA SearchSound == FindsClosest
<1>1. MaxInt \in Nat
  BY HalfAssumption
<1>2. ASSUME NEW n \in HalfSizes, NEW numbers \in [1..n -> HalfRates], NEW goal \in HalfGoals
      PROVE  LET over == {sumIndexed(s, numbers) - goal : s \in FromBoth(numbers)} \cap Nat
             IN /\ DeltaFits(numbers, goal)
                /\ ClosestSubsetSum(numbers, goal).delta = Min(over \cup {MaxInt})
  <2>1. n \in 0..8 /\ goal \in Int /\ HalfRates \subseteq Int
    BY HalfAssumption
  <2>2. \A k \in 1..n : numbers[k] \in HalfRates
    OBVIOUS
  <2>3. \A k \in 1..n : numbers[k] \in Int
    BY <2>1, <2>2
  <2>4. n \in Nat /\ n <= 8 /\ numbers \in [1..n -> Int]
    BY <2>1, <2>3
  <2> QED BY <1>1, <2>1, <2>4, SearchFinds
<1>3. ASSUME NEW numbers \in LongLists, NEW goal \in HalfGoals
      PROVE  DeltaFits(numbers, goal)
  <2>1. numbers \in Seq(Int) /\ goal \in Int
    BY HalfAssumption
  <2>2. Len(numbers) \in Nat /\ numbers \in [1..Len(numbers) -> Int]
    BY <2>1, LenProperties
  <2> QED BY <1>1, <2>1, <2>2, SearchFinds
<1> QED
  BY <1>2, <1>3 DEF FindsClosest

-----------------------------------------------------------------------------
(* The root of a Merkle tree in an array.                                   *)

\* The powers of two up to the n-th.
Powers(pow, n) == /\ pow \in [0..n -> Nat] /\ pow[0] = 1
                  /\ \A e \in 1..n : pow[e] = 2 * pow[e - 1]
Doubles(pow, n) ==
    pow = [exponent \in 0..n |-> IF exponent = 0 THEN 1 ELSE 2 * pow[exponent - 1]]

LEMMA PowersExist ==
  ASSUME NEW n \in Nat
  PROVE  /\ \E pow : Doubles(pow, n)
         /\ \A pow : Doubles(pow, n) => Powers(pow, n) /\ \A e \in 0..n : pow[e] > e
<1> DEFINE step == [q \in Nat \X (1..n) |-> 2 * q[1]]
<1>1. \A m \in Nat, k \in 1..n : step[<<m, k>>] = 2 * m
  OBVIOUS
<1> HIDE DEF step
<1>2. ClosedOver(step, Nat, n)
  <2>1. \A m \in Nat : 2 * m \in Nat
    OBVIOUS
  <2>2. \A m \in Nat, k \in 1..n : step[<<m, k>>] \in Nat
    BY <1>1, <2>1, ZenonT(30)
  <2> QED BY <2>2 DEF ClosedOver
<1>3. PICK tr : IsTrace(tr, step, 1, Nat, n)
  <2>1. 1 \in Nat
    OBVIOUS
  <2> QED BY <1>2, <2>1, TraceExists
<1>4. \A e \in 1..n : e - 1 \in 0..n /\ tr[e] = 2 * tr[e - 1]
  <2>1. \A e \in 1..n : e - 1 \in 0..n /\ tr[e - 1] \in Nat
    BY <1>3 DEF IsTrace
  <2> QED BY <1>1, <1>3, <2>1 DEF IsTrace
<1>5. Doubles(tr, n)
  BY <1>3, <1>4 DEF IsTrace, Doubles
<1>6. ASSUME NEW pow, Doubles(pow, n) PROVE Powers(pow, n) /\ \A e \in 0..n : pow[e] > e
  <2>1. /\ DOMAIN pow = 0..n /\ pow = [e \in 0..n |-> pow[e]]
        /\ pow[0] = 1 /\ \A e \in 1..n : pow[e] = 2 * pow[e - 1]
    BY <1>6 DEF Doubles
  <2> DEFINE H == {e \in 0..n : pow[e] \in Nat /\ pow[e] > e}
  <2>2. 0 \in H
    BY <2>1
  <2>3. ASSUME NEW e \in 0..n, e \in H, e < n PROVE e + 1 \in H
    <3>1. e + 1 \in 1..n /\ (e + 1) - 1 = e
      BY <2>3
    <3>2. pow[e + 1] = 2 * pow[e]
      BY <2>1, <3>1
    <3> QED BY <2>3, <3>1, <3>2
  <2>4. 0..n \subseteq H
    <3>1. \A e \in 0..n : e \in H /\ e < n => e + 1 \in H
      BY <2>3
    <3> HIDE DEF H
    <3> QED BY <2>2, <3>1, Induction
  <2>5. \A e \in 0..n : pow[e] \in Nat /\ pow[e] > e
    BY <2>4
  <2>6. pow \in [0..n -> Nat]
    BY <2>1, <2>5
  <2> QED BY <2>1, <2>5, <2>6 DEF Powers
<1> QED
  BY <1>5, <1>6

\* How many leaves there is room for: a power of two, at least n and less than 2n.
LEMMA NextPower ==
  ASSUME NEW n \in Nat, n # 0
  PROVE  \E pow, height : /\ Powers(pow, n) /\ height \in 0..n
                          /\ nextPowerOfTwo(n) = pow[height]
                          /\ pow[height] \in Nat /\ pow[height] >= n /\ pow[height] < 2 * n
<1> DEFINE pow == CHOOSE g : Doubles(g, n)
           C == {pow[exponent] : exponent \in 0..n} \ (0..(n - 1))
<1>1. nextPowerOfTwo(n) = Min(C)
  BY DEF nextPowerOfTwo, Doubles
<1>2. Doubles(pow, n)
  BY PowersExist
<1> HIDE DEF pow
<1>3. Powers(pow, n) /\ \A e \in 0..n : pow[e] \in Nat /\ pow[e] > e
  BY <1>2, PowersExist DEF Powers
<1>4. \A v \in C : v \in Nat /\ v >= n
  BY <1>3
<1>5. C \in SUBSET Nat /\ C # {}
  <2>1. n \in 0..n /\ pow[n] \notin 0..(n - 1)
    BY <1>3
  <2> QED BY <1>4, <2>1
<1>6. PICK v \in C : \A w \in C : v <= w
  <2> HIDE DEF C
  <2> QED BY <1>5, Least
<1>7. Min(C) = v
  <2>1. \A w \in C : w \in Nat /\ ((\A u \in C : w <= u) => w = v)
    <3>1. \A w \in C : w \in Nat
      BY <1>5
    <3> HIDE DEF C
    <3> QED BY <1>6, <3>1
  <2> HIDE DEF C
  <2> QED BY <1>6, <2>1 DEF Min
<1>8. PICK height \in 0..n : v = pow[height]
  BY <1>6
<1>9. v < 2 * n
  <2>1. CASE height = 0
    BY <1>3, <1>8, <2>1 DEF Powers
  <2>2. CASE height # 0
    <3>1. height \in 1..n /\ height - 1 \in 0..n
      BY <2>2
    <3>2. v = 2 * pow[height - 1] /\ pow[height - 1] \in Nat /\ pow[height - 1] > 0
      BY <1>3, <1>8, <3>1 DEF Powers
    <3>3. pow[height - 1] \notin C
      <4>1. ~(v <= pow[height - 1])
        BY <3>2
      <4> HIDE DEF C
      <4> QED BY <1>6, <4>1
    <3>4. pow[height - 1] < n
      BY <3>1, <3>2, <3>3
    <3> QED BY <3>2, <3>4
  <2> QED BY <2>1, <2>2
<1> QED
  BY <1>1, <1>3, <1>4, <1>6, <1>7, <1>8, <1>9

\* The levels of the definition, and the array of the code.
Levels(level, n) ==
    level = [h \in 0..n |-> IF h = 0 THEN [k \in 1..n |-> <<k - 1>>] ELSE LevelAbove(level[h - 1])]
NodeOver(node, n, leaves, k) ==
    IF k < n THEN <<k>>
    ELSE IF k < leaves THEN Nil
         ELSE Parent(node[2 * (k - leaves)], node[2 * (k - leaves) + 1])
Nodes(node, n, leaves) ==
    node = [k \in 0..(2 * leaves - 2) |->
              IF k < n THEN <<k>>
              ELSE IF k < leaves THEN Nil
                   ELSE Parent(node[2 * (k - leaves)], node[2 * (k - leaves) + 1])]

LEMMA LevelsExist ==
  ASSUME NEW n \in Nat
  PROVE  \E level : Levels(level, n)
<1> DEFINE base == [k \in 1..n |-> <<k - 1>>]
           Upto(f, j) == /\ DOMAIN f = 0..j
                         /\ \A h \in 0..j : f[h] = IF h = 0 THEN base ELSE LevelAbove(f[h - 1])
           H == {j \in 0..n : \E f : Upto(f, j)}
<1>1. 0 \in H
  <2> DEFINE f == [h \in 0..0 |-> base]
  <2>1. Upto(f, 0) /\ 0 \in 0..n
    OBVIOUS
  <2> HIDE DEF f, base
  <2> QED BY <2>1
<1>2. ASSUME NEW j \in 0..n, j \in H, j < n PROVE j + 1 \in H
  <2>1. PICK f : Upto(f, j)
    BY <1>2
  <2> DEFINE g == [h \in 0..(j + 1) |-> IF h <= j THEN f[h] ELSE LevelAbove(f[j])]
  <2>2. ASSUME NEW h \in 0..(j + 1)
        PROVE  g[h] = IF h = 0 THEN base ELSE LevelAbove(g[h - 1])
    <3>1. CASE h <= j
      <4>1. h \in 0..j /\ g[h] = f[h] /\ (h # 0 => h - 1 \in 0..j /\ g[h - 1] = f[h - 1])
        BY <3>1
      <4> HIDE DEF g, base
      <4> QED BY <2>1, <4>1
    <3>2. CASE h = j + 1
      <4>1. j \in 0..j /\ h # 0 /\ h - 1 = j /\ g[j] = f[j] /\ g[h] = LevelAbove(f[j])
        BY <3>2
      <4> HIDE DEF g, base
      <4> QED BY <4>1
    <3> QED BY <3>1, <3>2
  <2>3. DOMAIN g = 0..(j + 1)
    OBVIOUS
  <2> HIDE DEF g
  <2>4. Upto(g, j + 1) /\ j + 1 \in 0..n
    BY <1>2, <2>2, <2>3
  <2> HIDE DEF Upto
  <2> QED BY <2>4
<1>3. n \in H
  <2>1. \A j \in 0..n : j \in H /\ j < n => j + 1 \in H
    BY <1>2
  <2> HIDE DEF H
  <2> QED BY <1>1, <2>1, Induction
<1>4. PICK f : DOMAIN f = 0..n
              /\ \A h \in 0..n : f[h] = IF h = 0 THEN base ELSE LevelAbove(f[h - 1])
  BY <1>3
<1> DEFINE g == [h \in 0..n |-> f[h]]
<1>5. \A h \in 0..n : g[h] = IF h = 0 THEN base ELSE LevelAbove(g[h - 1])
  <2> SUFFICES ASSUME NEW h \in 0..n PROVE g[h] = IF h = 0 THEN base ELSE LevelAbove(g[h - 1])
    OBVIOUS
  <2>1. g[h] = f[h] /\ (h # 0 => g[h - 1] = f[h - 1])
    OBVIOUS
  <2> HIDE DEF g, base
  <2> QED BY <1>4, <2>1
<1>6. g = [h \in 0..n |-> g[h]]
  OBVIOUS
<1> HIDE DEF g
<1>7. Levels(g, n)
  BY <1>5, <1>6 DEF Levels
<1> QED
  BY <1>7

LEMMA NodesExist ==
  ASSUME NEW n \in Nat, NEW leaves \in Nat, leaves # 0
  PROVE  \E node : Nodes(node, n, leaves)
<1> DEFINE last == 2 * leaves - 2
           Upto(f, j) == \A k \in 0..j : f[k] = NodeOver(f, n, leaves, k)
           H == {j \in 0..last : \E f : Upto(f, j)}
<1>1. ASSUME NEW k \in 0..last, NEW f, NEW g, \A c \in 0..last : c < k => f[c] = g[c]
      PROVE  NodeOver(f, n, leaves, k) = NodeOver(g, n, leaves, k)
  <2>1. CASE k < leaves
    BY <2>1 DEF NodeOver
  <2>2. CASE k >= leaves
    <3>1. /\ 2 * (k - leaves) \in 0..last /\ 2 * (k - leaves) < k
          /\ 2 * (k - leaves) + 1 \in 0..last /\ 2 * (k - leaves) + 1 < k
      BY <2>2
    <3>2. /\ f[2 * (k - leaves)] = g[2 * (k - leaves)]
          /\ f[2 * (k - leaves) + 1] = g[2 * (k - leaves) + 1]
      BY <1>1, <3>1
    <3> QED BY <3>2 DEF NodeOver
  <2> QED BY <2>1, <2>2
<1>2. 0 \in H
  <2> DEFINE f == [k \in 0..0 |-> IF n = 0 THEN Nil ELSE <<0>>]
  <2>1. f[0] = NodeOver(f, n, leaves, 0)
    BY DEF NodeOver
  <2> HIDE DEF f
  <2>2. Upto(f, 0) /\ 0 \in 0..last
    BY <2>1
  <2> QED BY <2>2
<1>3. ASSUME NEW j \in 0..last, j \in H, j < last PROVE j + 1 \in H
  <2>1. PICK f : Upto(f, j)
    BY <1>3
  <2> DEFINE g == [k \in 0..(j + 1) |-> IF k <= j THEN f[k] ELSE NodeOver(f, n, leaves, j + 1)]
  <2>2. \A c \in 0..j : g[c] = f[c]
    OBVIOUS
  <2>3. g[j + 1] = NodeOver(f, n, leaves, j + 1)
    OBVIOUS
  <2> HIDE DEF g
  <2>4. ASSUME NEW k \in 0..(j + 1) PROVE g[k] = NodeOver(g, n, leaves, k)
    <3>1. k \in 0..last /\ \A c \in 0..last : c < k => f[c] = g[c]
      BY <1>3, <2>2
    <3>2. NodeOver(f, n, leaves, k) = NodeOver(g, n, leaves, k)
      BY <1>1, <3>1
    <3>3. g[k] = NodeOver(f, n, leaves, k)
      <4>1. k = j + 1 \/ k \in 0..j
        OBVIOUS
      <4> QED BY <2>1, <2>2, <2>3, <4>1
    <3> QED BY <3>2, <3>3
  <2>5. Upto(g, j + 1) /\ j + 1 \in 0..last
    BY <1>3, <2>4
  <2> HIDE DEF Upto
  <2> QED BY <2>5
<1>4. last \in Nat
  OBVIOUS
<1>5. last \in H
  <2>1. \A j \in 0..last : j \in H /\ j < last => j + 1 \in H
    BY <1>3
  <2> HIDE DEF H, last
  <2> QED BY <1>2, <1>4, <2>1, Induction
<1>6. PICK f : Upto(f, last)
  BY <1>5
<1> DEFINE g == [k \in 0..last |-> f[k]]
<1>7. \A k \in 0..last : g[k] = f[k]
  OBVIOUS
<1>8. g = [k \in 0..last |-> g[k]]
  OBVIOUS
<1> HIDE DEF g
<1>9. \A k \in 0..last : g[k] = NodeOver(g, n, leaves, k)
  <2> SUFFICES ASSUME NEW k \in 0..last PROVE g[k] = NodeOver(g, n, leaves, k)
    OBVIOUS
  <2>1. NodeOver(f, n, leaves, k) = NodeOver(g, n, leaves, k)
    BY <1>1, <1>7
  <2> QED BY <1>6, <1>7, <2>1
<1>10. Nodes(g, n, leaves)
  BY <1>8, <1>9 DEF Nodes, NodeOver
<1> QED
  BY <1>10

\* A level of m nodes, and the one above it.
IsLevel(level, m) == /\ m \in Nat /\ m # 0 /\ level = [k \in 1..m |-> level[k]]
                     /\ \A k \in 1..m : level[k] # Nil

LEMMA AboveLevel ==
  ASSUME NEW m, NEW level, IsLevel(level, m)
  PROVE  /\ m = 1 => LevelAbove(level) = level
         /\ m # 1 => /\ IsLevel(LevelAbove(level), (m + 1) \div 2)
                     /\ \A k \in 1..((m + 1) \div 2) :
                           LevelAbove(level)[k] =
                              <<level[2 * k - 1], IF 2 * k <= m THEN level[2 * k]
                                                  ELSE level[2 * k - 1]>>
<1>1. m \in Nat /\ m # 0 /\ Len(level) = m
  BY LenOfFunction DEF IsLevel
<1>2. CASE m = 1
  BY <1>1, <1>2 DEF LevelAbove
<1>3. CASE m # 1
  <2> DEFINE half == (m + 1) \div 2
             above == [k \in 1..half |->
                         <<level[2 * k - 1], IF 2 * k <= m THEN level[2 * k]
                                             ELSE level[2 * k - 1]>>]
  <2>1. LevelAbove(level) = above
    BY <1>1, <1>3 DEF LevelAbove
  <2>2. half \in Nat /\ half # 0
    BY <1>1
  <2>3. \A k \in 1..half : above[k] # Nil
    BY DEF Nil
  <2>4. above = [k \in 1..half |-> above[k]]
    OBVIOUS
  <2>5. IsLevel(above, half)
    <3> HIDE DEF above, half
    <3> QED BY <2>2, <2>3, <2>4 DEF IsLevel
  <2> QED BY <1>3, <2>1, <2>5
<1> QED
  BY <1>2, <1>3

\* Row h of the array: w places, the first m of them the nodes of level h.
RowOf(h, m, w, leaves, level, node) ==
    /\ IsLevel(level[h], m) /\ m <= w /\ w < 2 * m /\ w <= leaves
    /\ \A i \in 0..(w - 1) :
          node[2 * leaves - 2 * w + i] = IF i < m THEN level[h][i + 1] ELSE Nil

LEMMA NextRow ==
  ASSUME NEW n \in Nat, NEW leaves \in Nat, n <= leaves, NEW level, NEW node,
         Nodes(node, n, leaves), NEW h, NEW up, level[up] = LevelAbove(level[h]),
         NEW m, NEW w \in Nat, NEW v \in Nat, v # 0, w = 2 * v,
         RowOf(h, m, w, leaves, level, node)
  PROVE  RowOf(up, (m + 1) \div 2, v, leaves, level, node)
<1> DEFINE half == (m + 1) \div 2
<1>1. /\ m \in Nat /\ m <= w /\ w < 2 * m /\ w <= leaves /\ m # 1
  BY DEF RowOf, IsLevel
<1>2. /\ IsLevel(level[up], half)
      /\ \A k \in 1..half :
            level[up][k] = <<level[h][2 * k - 1],
                             IF 2 * k <= m THEN level[h][2 * k] ELSE level[h][2 * k - 1]>>
  <2>1. IsLevel(level[h], m)
    BY DEF RowOf
  <2> QED BY <1>1, <2>1, AboveLevel
<1>3. half \in Nat /\ 2 * half >= m /\ 2 * half <= m + 1
  BY <1>1
<1> HIDE DEF half
<1>4. half <= v /\ v < 2 * half /\ v <= leaves
  BY <1>1, <1>3
<1>5. ASSUME NEW i \in 0..(v - 1)
      PROVE  node[2 * leaves - 2 * v + i] = IF i < half THEN level[up][i + 1] ELSE Nil
  <2> DEFINE k == 2 * leaves - 2 * v + i
             c == 2 * leaves - 2 * w + 2 * i
             l == node[c]
             r == node[c + 1]
  <2>1. /\ k \in 0..(2 * leaves - 2) /\ ~(k < n) /\ ~(k < leaves)
        /\ 2 * (k - leaves) = c
    BY <1>1
  <2>2. node[k] = Parent(l, r)
    <3> HIDE DEF k, c
    <3>1. node[k] = Parent(node[2 * (k - leaves)], node[2 * (k - leaves) + 1])
      BY <2>1 DEF Nodes
    <3> QED BY <2>1, <3>1
  <2>3. 2 * i \in 0..(w - 1) /\ 2 * i + 1 \in 0..(w - 1)
    BY <1>1
  <2>4. /\ l = IF 2 * i < m THEN level[h][2 * i + 1] ELSE Nil
        /\ r = IF 2 * i + 1 < m THEN level[h][2 * i + 2] ELSE Nil
    <3>1. node[2 * leaves - 2 * w + 2 * i] = IF 2 * i < m THEN level[h][2 * i + 1] ELSE Nil
      BY <2>3 DEF RowOf
    <3>2. node[2 * leaves - 2 * w + (2 * i + 1)]
            = IF 2 * i + 1 < m THEN level[h][(2 * i + 1) + 1] ELSE Nil
      BY <2>3 DEF RowOf
    <3>3. 2 * leaves - 2 * w + (2 * i + 1) = c + 1 /\ (2 * i + 1) + 1 = 2 * i + 2
      BY <1>1
    <3> QED BY <3>1, <3>2, <3>3
  <2> HIDE DEF k, c, l, r
  <2>5. \A j \in 1..m : level[h][j] # Nil
    BY DEF RowOf, IsLevel
  <2>6. CASE i < half
    <3>1. i + 1 \in 1..half /\ 2 * (i + 1) - 1 = 2 * i + 1 /\ 2 * (i + 1) = 2 * i + 2
          /\ 2 * i + 1 \in 1..m /\ 2 * i < m
      BY <1>1, <1>3, <2>6
    <3>2. level[up][i + 1] = <<level[h][2 * i + 1],
                               IF 2 * i + 2 <= m THEN level[h][2 * i + 2]
                               ELSE level[h][2 * i + 1]>>
      BY <1>2, <3>1
    <3>3. l = level[h][2 * i + 1] /\ l # Nil
      BY <2>4, <2>5, <3>1
    <3>4. CASE 2 * i + 2 <= m
      <4>1. 2 * i + 2 \in 1..m /\ 2 * i + 1 < m
        BY <1>1, <3>4
      <4>2. r = level[h][2 * i + 2] /\ r # Nil
        BY <2>4, <2>5, <4>1
      <4> QED BY <2>2, <2>6, <3>2, <3>3, <3>4, <4>2 DEF Parent, k
    <3>5. CASE ~(2 * i + 2 <= m)
      <4>1. r = Nil
        BY <1>1, <2>4, <3>5
      <4> QED BY <2>2, <2>6, <3>2, <3>3, <3>5, <4>1 DEF Parent, k
    <3> QED BY <3>4, <3>5
  <2>7. CASE ~(i < half)
    <3>1. ~(2 * i < m)
      BY <1>1, <1>3, <2>7
    <3>2. l = Nil
      BY <2>4, <3>1
    <3> QED BY <2>2, <2>7, <3>2 DEF Parent, k
  <2> QED BY <2>6, <2>7
<1> QED
  BY <1>2, <1>4, <1>5 DEF RowOf, half

\* The last place of the array is the root.
LEMMA TreeInArray ==
  ASSUME NEW n \in Nat, n # 0, NEW pow, NEW height \in 0..n, Powers(pow, n),
         NEW leaves \in Nat, leaves = pow[height], n <= leaves, leaves < 2 * n,
         NEW level, Levels(level, n), NEW node, Nodes(node, n, leaves)
  PROVE  node[2 * leaves - 2] = level[n][1]
<1> DEFINE H == {h \in 0..height :
                    \E m : RowOf(h, m, pow[height - h], leaves, level, node)}
           base == [k \in 1..n |-> <<k - 1>>]
<1>1. \A h \in 0..n : level[h] = IF h = 0 THEN base ELSE LevelAbove(level[h - 1])
  BY DEF Levels
<1>2. 0 \in H
  <2>1. level[0] = base
    <3>1. 0 \in 0..n
      OBVIOUS
    <3> HIDE DEF base
    <3> QED BY <1>1, <3>1
  <2>2. \A k \in 1..n : level[0][k] = <<k - 1>>
    BY <2>1
  <2>3. IsLevel(level[0], n)
    <3>1. level[0] = [k \in 1..n |-> level[0][k]]
      BY <2>1
    <3>2. ASSUME NEW k \in 1..n PROVE level[0][k] # Nil
      <4>1. <<k - 1>> # <<>>
        OBVIOUS
      <4> QED BY <2>2, <4>1 DEF Nil
    <3> QED BY <3>1, <3>2 DEF IsLevel
  <2>4. ASSUME NEW i \in 0..(leaves - 1)
        PROVE  node[2 * leaves - 2 * leaves + i] = IF i < n THEN level[0][i + 1] ELSE Nil
    <3>1. i \in 0..(2 * leaves - 2) /\ i < leaves /\ 2 * leaves - 2 * leaves + i = i
      OBVIOUS
    <3>2. node[i] = IF i < n THEN <<i>> ELSE Nil
      BY <3>1 DEF Nodes
    <3>3. CASE i < n
      <4>1. i + 1 \in 1..n /\ (i + 1) - 1 = i
        BY <3>3
      <4>2. level[0][i + 1] = <<i>>
        BY <2>2, <4>1
      <4> QED BY <3>1, <3>2, <3>3, <4>2
    <3>4. CASE ~(i < n)
      BY <3>1, <3>2, <3>4
    <3> QED BY <3>3, <3>4
  <2>5. pow[height - 0] = leaves
    OBVIOUS
  <2>6. RowOf(0, n, leaves, leaves, level, node)
    BY <2>3, <2>4 DEF RowOf
  <2> QED BY <2>5, <2>6
<1>3. ASSUME NEW h \in 0..height, h \in H, h < height PROVE h + 1 \in H
  <2>1. PICK m : RowOf(h, m, pow[height - h], leaves, level, node)
    BY <1>3
  <2> DEFINE e == height - h
             up == h + 1
  <2>2. e \in 1..n /\ up \in 0..n /\ up # 0 /\ up - 1 = h /\ e - 1 = height - up
        /\ up \in 0..height /\ e - 1 \in 0..n
    BY <1>3
  <2> HIDE DEF e, up
  <2>3. pow[e] = 2 * pow[e - 1] /\ pow[e - 1] \in Nat /\ pow[e] \in Nat
    <3>1. e \in 0..n
      BY <2>2
    <3> QED BY <2>2, <3>1 DEF Powers
  <2>4. level[up] = LevelAbove(level[h])
    BY <1>1, <2>2
  <2>5. pow[e - 1] # 0
    <3>1. m \in Nat /\ m # 0 /\ m <= pow[e]
      BY <2>1 DEF RowOf, IsLevel, e
    <3> QED BY <2>3, <3>1
  <2>6. RowOf(h, m, pow[e], leaves, level, node)
    BY <2>1 DEF e
  <2>7. RowOf(up, (m + 1) \div 2, pow[e - 1], leaves, level, node)
    BY <2>3, <2>4, <2>5, <2>6, NextRow
  <2> QED BY <2>2, <2>7 DEF up
<1>4. height \in H
  <2>1. \A h \in 0..height : h \in H /\ h < height => h + 1 \in H
    BY <1>3
  <2>2. height \in Nat
    OBVIOUS
  <2> HIDE DEF H
  <2> QED BY <1>2, <2>1, <2>2, Induction
<1>5. IsLevel(level[height], 1) /\ node[2 * leaves - 2] = level[height][1]
  <2>1. pow[height - height] = 1
    BY DEF Powers
  <2>2. PICK m : RowOf(height, m, 1, leaves, level, node)
    BY <1>4, <2>1
  <2>3. m = 1
    BY <2>2 DEF RowOf, IsLevel
  <2>4. 0 \in 0..(1 - 1) /\ 2 * leaves - 2 * 1 + 0 = 2 * leaves - 2 /\ 0 < 1 /\ 0 + 1 = 1
    OBVIOUS
  <2>5. node[2 * leaves - 2 * 1 + 0] = IF 0 < m THEN level[height][0 + 1] ELSE Nil
    BY <2>2, <2>4 DEF RowOf
  <2> QED BY <2>2, <2>3, <2>4, <2>5 DEF RowOf
<1> DEFINE rest == n - height
           K == {j \in 0..rest : level[height + j] = level[height]}
<1>6. 0 \in K /\ rest \in Nat
  <2>1. height + 0 = height
    OBVIOUS
  <2> QED BY <2>1
<1>7. ASSUME NEW j \in 0..rest, j \in K, j < rest PROVE j + 1 \in K
  <2>1. height + (j + 1) \in 0..n /\ height + (j + 1) # 0 /\ (height + (j + 1)) - 1 = height + j
        /\ j + 1 \in 0..rest
    BY <1>7
  <2>2. level[height + (j + 1)] = LevelAbove(level[height])
    BY <1>1, <1>7, <2>1
  <2>3. LevelAbove(level[height]) = level[height]
    BY <1>5, AboveLevel
  <2> QED BY <2>1, <2>2, <2>3
<1>8. rest \in K
  <2>1. \A j \in 0..rest : j \in K /\ j < rest => j + 1 \in K
    BY <1>7
  <2> HIDE DEF K, rest
  <2> QED BY <1>6, <2>1, Induction
<1>9. level[n] = level[height]
  <2>1. height + rest = n
    OBVIOUS
  <2> QED BY <1>8, <2>1
<1> QED
  BY <1>5, <1>9

\* The array's last place is the root of the definition, for any number of branches: no
\* node is missed or made of the wrong two (ConvertMerkleBranchesToRoot, utils.go:10-53).
THEOREM RootFound ==
  ASSUME NEW n \in Nat
  PROVE  ConvertMerkleBranchesToRoot(n) = RootOf(n)
<1>1. CASE n = 0
  BY <1>1 DEF ConvertMerkleBranchesToRoot, RootOf
<1>2. CASE n # 0
  <2> DEFINE leaves == nextPowerOfTwo(n)
             node == CHOOSE f : Nodes(f, n, leaves)
             level == CHOOSE f : Levels(f, n)
  <2>1. PICK pow, height : /\ Powers(pow, n) /\ height \in 0..n /\ leaves = pow[height]
                           /\ leaves \in Nat /\ leaves >= n /\ leaves < 2 * n
    BY <1>2, NextPower
  <2>2. ConvertMerkleBranchesToRoot(n) = node[2 * leaves - 2]
    BY <1>2 DEF ConvertMerkleBranchesToRoot, Nodes
  <2>3. RootOf(n) = level[n][1]
    BY <1>2 DEF RootOf, Levels
  <2> HIDE DEF leaves
  <2>4. Nodes(node, n, leaves)
    BY <1>2, <2>1, NodesExist
  <2>5. Levels(level, n)
    BY LevelsExist
  <2> HIDE DEF node, level
  <2>6. node[2 * leaves - 2] = level[n][1]
    BY <1>2, <2>1, <2>4, <2>5, TreeInArray
  <2> QED BY <2>2, <2>3, <2>6
<1> QED
  BY <1>1, <1>2
-----------------------------------------------------------------------------
(* The services together.                                                   *)

ServicesInv == WorkerInv /\ ApiInv /\ HashrateInv /\ ConfigInv

LEMMA ServicesStart == ServicesInit => ServicesInv
BY InitWorker, ApiStarts, CounterStarts, ConfigStarts DEF ServicesInit, ServicesInv

\* A step of the services is a step of one of them, and the others stand still.
LEMMA OneAtATime ==
  ASSUME [ServicesNext]_services
  PROVE  [Next]_vars /\ [ApiNext]_apiVars /\ [HashrateNext]_hashrateVars /\ [ConfigNext]_configVars
<1>1. CASE UNCHANGED services
  BY <1>1 DEF services
<1>2. CASE CloseoutStep
  <2>1. UNCHANGED <<apiVars, hashrateVars, configVars>>
    BY <1>2 DEF CloseoutStep, Closes
  <2>2. Next
    BY <1>2 DEF CloseoutStep, Next, Work
  <2> QED BY <2>1, <2>2
<1>3. CASE ApiStep
  <2>1. UNCHANGED <<vars, hashrateVars, configVars>>
    BY <1>3 DEF ApiStep, Serves
  <2>2. ApiNext
    BY <1>3 DEF ApiStep, ApiNext
  <2> QED BY <2>1, <2>2
<1>4. CASE CounterStep
  <2>1. UNCHANGED <<vars, apiVars, configVars>>
    BY <1>4 DEF CounterStep, Counts
  <2>2. HashrateNext
    BY <1>4 DEF CounterStep, HashrateNext
  <2> QED BY <2>1, <2>2
<1>5. CASE ConfigStep
  <2>1. UNCHANGED <<vars, apiVars, hashrateVars>>
    BY <1>5 DEF ConfigStep, Loads
  <2>2. ConfigNext
    BY <1>5 DEF ConfigStep, ConfigNext
  <2> QED BY <2>1, <2>2
<1> QED
  BY <1>1, <1>2, <1>3, <1>4, <1>5 DEF ServicesNext

LEMMA ServicesKeep == ServicesInv /\ [ServicesNext]_services => ServicesInv'
<1> SUFFICES ASSUME ServicesInv, [ServicesNext]_services PROVE ServicesInv'
  OBVIOUS
<1>1. [Next]_vars /\ [ApiNext]_apiVars /\ [HashrateNext]_hashrateVars /\ [ConfigNext]_configVars
  BY OneAtATime
<1>2. WorkerInv'
  BY <1>1, WorkerStep DEF ServicesInv
<1>3. ApiInv'
  BY <1>1, ApiKept DEF ServicesInv
<1>4. HashrateInv'
  BY <1>1, CounterKept DEF ServicesInv
<1>5. ConfigInv'
  BY <1>1, ConfigKept DEF ServicesInv
<1> QED
  BY <1>2, <1>3, <1>4, <1>5 DEF ServicesInv

\* What the services promise beside the closeout worker, and the types of all of them: what an HTTP answer reports has
\* been done and a list is sorted and whole (controller.go); a counter loses no share and
\* counts none twice, whichever goroutines add to it, and its longer averages forget less
\* (hashrate.go); the program runs with what its flags and environment say
\* (config/loader.go); and a wait between attempts never shrinks (lib/retry.go).
THEOREM ServicesCorrect == ServicesSpec => []ServicesSound
<1>1. ServicesInv => ServicesSound
  <2> SUFFICES ASSUME ServicesInv PROVE ServicesSound
    OBVIOUS
  <2>1. ApiTypeOK /\ ApiReports
    BY ApiSound DEF ServicesInv
  <2>2. HashrateTypeOK /\ HashrateCounted
    BY CounterSound DEF ServicesInv
  <2>3. ConfigTypeOK /\ ConfigFollows
    BY DEF ServicesInv, ConfigInv
  <2>4. TypeOK
    BY DEF ServicesInv, WorkerInv
  <2> QED BY <2>1, <2>2, <2>3, <2>4, Waits DEF ServicesSound
<1> QED
  BY <1>1, ServicesStart, ServicesKeep, PTL DEF ServicesSpec

\* Among the services the closeout worker is what it is alone, so all that is proved of
\* it holds: its invariant, that no closeout displaces another (ethereum_gateway.go:265)
\* and that it implements the atomic service.
THEOREM WorkerAmongServices ==
  ServicesSpec => []CloseoutInv /\ NoCloseoutDisplaced /\ ImplementsService
<1>1. ServicesInit => Init
  BY DEF ServicesInit
<1>2. [ServicesNext]_services => [Next]_vars
  BY OneAtATime
<1>3. ServicesSpec => Spec
  BY <1>1, <1>2, PTL DEF ServicesSpec, Spec
<1> QED
  BY <1>3, Serialised, NeverDisplaced, Refinement

\* The two functions agree with their definitions, whatever the lists and the branches that
\* are tried: the exact search finds the least overshoot (closest_subset_sum.go:15-83), the
\* array holds the root of the Merkle tree (hashrate/utils.go:10-53).
THEOREM FunctionsCorrect == ServicesSpec => []FunctionsSound
<1>1. FindsClosest
  BY SearchSound
<1>2. RootIsDefined
  <2>1. ASSUME NEW n \in Branches PROVE ConvertMerkleBranchesToRoot(n) = RootOf(n)
    BY BranchesAssumption, RootFound
  <2> QED BY <2>1 DEF RootIsDefined
<1>3. FunctionsSound
  BY <1>1, <1>2 DEF FunctionsSound
<1> QED
  BY <1>3, PTL

=============================================================================
