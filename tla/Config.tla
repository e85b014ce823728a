------------------------------- MODULE Config --------------------------------
(***************************************************************************)
(* config/config.go, loader.go, with what is made of the configuration     *)
(* before anything runs: the wallet (blockchain/ethereum_wallet.go) and    *)
(* the fractions of the global scheduler.  Each field is set from its      *)
(* environment variable, then from its flag if it has one; the result is   *)
(* validated.  One field stands for the fields of its kind: proxy for the  *)
(* addresses, isBuyer for the switches; a duration is a small integer.     *)
(***************************************************************************)
EXTENDS Integers, FiniteSets

CONSTANTS Minima, Maxima   \* what may be written for the two durations

Fields == {"isBuyer", "proxy", "poolMin", "poolMax", "walletKey", "mnemonic"}
HasFlag == {"isBuyer", "proxy"}
Nothing == "absent"
Garbled == "garbled"

\* The durations that texts stand for; other texts do not stand for any.
ParseDuration == [negative |-> -2, zero |-> 0, short |-> 2, long |-> 3]

ASSUME ConfigAssumption == Minima \cup Maxima \subseteq {Nothing, Garbled} \cup DOMAIN ParseDuration

Texts == [isBuyer |-> {Nothing, Garbled, "true", "false"}, proxy |-> {Nothing, Garbled, "sound"},
          poolMin |-> Minima, poolMax |-> Maxima,
          walletKey |-> {Nothing, "sound"}, mnemonic |-> {Garbled, "sound"}]

VARIABLES env, flag,   \* what the operator has written
          loader,      \* what is done next, or "loaded" or "failed"
          cfg,         \* the text each field was set to, Nothing if none
          wallet,      \* where the account's key and its address come from
          fractions    \* poolMinFraction and poolMaxFraction: numerators, denominator

configVars == <<env, flag, loader, cfg, wallet, fractions>>

TextsOf(fields) == {t \in [fields -> UNION {Texts[f] : f \in fields}] :
                       \A f \in fields : t[f] \in Texts[f]}

ConfigTypeOK ==
    /\ loader \in {"write", "env", "flags", "validate", "wallet", "scheduler", "loaded",
                   "failed"}
    /\ \A f \in Fields : cfg[f] \in Texts[f] \cup {Nothing}
    /\ wallet \in {"none", "derived", "given"}

ConfigInit ==
    /\ env = [f \in Fields |-> Nothing] /\ flag = [f \in HasFlag |-> Nothing]
    /\ loader = "write" /\ cfg = [f \in Fields |-> Nothing]
    /\ wallet = "none" /\ fractions = <<0, 0, 0>>

LoaderGoes(from, to) == loader = from /\ loader' = to
Configure == /\ LoaderGoes("write", "env")
             /\ env' \in TextsOf(Fields) /\ flag' \in TextsOf(HasFlag)
             /\ UNCHANGED <<cfg, wallet, fractions>>

writtenUnchanged == UNCHANGED <<env, flag>>

\* What is not a bool or a duration cannot be parsed as one; every text is taken.
Parses(f, text) == CASE f = "isBuyer" -> text \in {"true", "false"}
                     [] f \in {"poolMin", "poolMax"} -> text \in DOMAIN ParseDuration
                     [] OTHER -> TRUE

\* field.Set with the variable; its error is dropped and leaves the field empty.
LoadEnv == /\ LoaderGoes("env", "flags")
           /\ cfg' = [f \in Fields |-> IF Parses(f, env[f]) THEN env[f] ELSE Nothing]
           /\ UNCHANGED <<wallet, fractions>> /\ writtenUnchanged

FlagGarbled == \E f \in HasFlag : flag[f] # Nothing /\ ~Parses(f, flag[f])

\* Flags override the variables; one that cannot be parsed ends the program.
ParseFlags ==
    /\ LoaderGoes("flags", IF FlagGarbled THEN "failed" ELSE "validate")
    /\ cfg' = [f \in Fields |-> IF f \in HasFlag /\ flag[f] # Nothing THEN flag[f] ELSE cfg[f]]
    /\ UNCHANGED <<wallet, fractions>> /\ writtenUnchanged

\* The value of the field, zero if it was not set.
Duration(f) == IF cfg[f] = Nothing THEN 0 ELSE ParseDuration[cfg[f]]

\* The validation tags: an address is required and well-formed, a duration is not zero.
Valid == cfg["proxy"] = "sound" /\ Duration("poolMin") # 0 /\ Duration("poolMax") # 0

ValidateConfig == /\ LoaderGoes("validate", IF Valid THEN "wallet" ELSE "failed")
                  /\ UNCHANGED <<cfg, wallet, fractions>> /\ writtenUnchanged

\* A configured key is taken as it is, with the configured address; only without one is
\* the account derived from the mnemonic, if that is one.
NewEthereumWallet ==
    /\ LET given == cfg["walletKey"] # Nothing
           sound == cfg["mnemonic"] = "sound"
       IN /\ LoaderGoes("wallet", IF given \/ sound THEN "scheduler" ELSE "failed")
          /\ wallet' = IF given THEN "given" ELSE IF sound THEN "derived" ELSE "none"
    /\ UNCHANGED <<cfg, fractions>> /\ writtenUnchanged

setPoolDurationConstraints ==
    /\ LoaderGoes("scheduler", "loaded")
    /\ fractions' = <<Duration("poolMin"), Duration("poolMax"),
                      Duration("poolMin") + Duration("poolMax")>>
    /\ UNCHANGED <<cfg, wallet>> /\ writtenUnchanged

ConfigNext == \/ Configure \/ LoadEnv \/ ParseFlags \/ ValidateConfig
              \/ NewEthereumWallet \/ setPoolDurationConstraints
-----------------------------------------------------------------------------
Says(f) == IF f \in HasFlag /\ flag[f] # Nothing THEN flag[f] ELSE env[f]
Positive(f) == Says(f) \in DOMAIN ParseDuration /\ ParseDuration[Says(f)] > 0
Nonzero(f) == Says(f) \in DOMAIN ParseDuration /\ ParseDuration[Says(f)] # 0

\* The program starts if what it was told last of every address and duration is sound, no
\* flag is garbled and there is an account, and otherwise ends.  It is a buyer if, and only
\* if, it was told so: by a variable that it cannot read it is made a seller (loader.go:54).
\* The fractions of the pool durations lie between 0 and 1 unless a duration is negative,
\* which is not validated (loader.go:107).
ConfigFollows ==
    LET sound == /\ Says("proxy") = "sound" /\ flag["isBuyer"] # Garbled
                 /\ Nonzero("poolMin") /\ Nonzero("poolMax")
                 /\ env["walletKey"] = "sound" \/ env["mnemonic"] = "sound"
    IN /\ loader = "failed" => ~sound
       /\ loader = "loaded" =>
             /\ sound
             /\ cfg["isBuyer"] = "true" <=> Says("isBuyer") = "true"
             /\ wallet = "given" <=> env["walletKey"] # Nothing
             /\ Positive("poolMin") /\ Positive("poolMax") =>
                   {fractions[1], fractions[2]} \subseteq 1..fractions[3]
=============================================================================
