------------------------------ MODULE TLSCert -------------------------------
(***************************************************************************)
(* The certificate of the gateway (llmgateway/proxy_tls.go).  A goroutine  *)
(* looks at it once per interval and makes a new one when it is about to   *)
(* expire.  The CA file is written after the new certificate is served, by *)
(* overwriting the one there is, or, when that cannot be opened, as a new  *)
(* one under another name.  Agents are given the name once, at startup     *)
(* (server.go:172-175, 510), so they keep to the "first" file.  Time is    *)
(* counted in check intervals.                                             *)
(***************************************************************************)
EXTENDS Integers

CONSTANTS
    Lifetime,   \* of a certificate, in intervals (144 in the code)
    Threshold,  \* intervals before expiry at which renewal begins (6 in the code)
    MaxCerts    \* bound on the certificates made

ASSUME TLSAssumption ==
    Lifetime \in Nat /\ Threshold \in Nat \ {0} /\ Threshold < Lifetime /\ MaxCerts \in Nat

VARIABLES
    remaining,  \* intervals until the served certificate expires
    cert,       \* number of the certificate served
    caFilePath, \* the file the manager writes: "first", made at startup, "later", or "none"
    caFile,     \* number of the certificate in each file; 0 for none, or a part of one
    renew,      \* where the goroutine is: "idle", "check", "generate", "write", "stopped"
    failures    \* failed attempts to make a certificate since the last good one

tlsVars == <<remaining, cert, caFilePath, caFile, renew, failures>>
caVars == <<caFilePath, caFile>>

\* GenerateAndLoad and WriteCACertFile at startup, then Start.
TLSInit ==
    /\ remaining = Lifetime /\ cert = 1
    /\ caFilePath = "first" /\ caFile = [first |-> 1, later |-> 0]
    /\ renew = "idle" /\ failures = 0

\* The ticker fires once per interval; the goroutine is much faster than that.
Tick ==
    /\ renew = "idle" /\ remaining >= 0
    /\ remaining' = remaining - 1 /\ renew' = "check"
    /\ UNCHANGED <<cert, caVars, failures>>

\* A check that begins only when the certificate has expired.
CheckExpired ==
    /\ renew = "check"
    /\ renew' = IF remaining <= 0 THEN "generate" ELSE "idle"
    /\ UNCHANGED <<remaining, cert, caVars, failures>>

Check ==
    /\ renew = "check"
    /\ renew' = IF remaining <= Threshold THEN "generate" ELSE "idle"
    /\ UNCHANGED <<remaining, cert, caVars, failures>>

\* tryAutoRenew: GenerateAndLoad swaps the certificate under the lock ...
GenerateAndLoad(ok) ==
    /\ renew = "generate" /\ (ok => cert < MaxCerts)
    /\ IF ok
       THEN cert' = cert + 1 /\ remaining' = Lifetime /\ failures' = 0 /\ renew' = "write"
       ELSE failures' = failures + 1 /\ renew' = "idle" /\ UNCHANGED <<cert, remaining>>
    /\ UNCHANGED caVars

\* ... and WriteCACertFile opens the file of before, truncating it, or else makes a new one,
\* and writes it.  Without either it returns an error, and has forgotten the file of before.
\* A write that fails leaves the file empty or cut.  tryAutoRenew only logs the errors.
WriteCACertFile(opened, made, written) ==
    /\ renew = "write"
    /\ caFilePath' = CASE opened /\ caFilePath # "none" -> caFilePath
                       [] ~(opened /\ caFilePath # "none") /\ made -> "later"
                       [] OTHER -> "none"
    /\ caFile' = IF caFilePath' = "none" THEN caFile
                 ELSE [caFile EXCEPT ![caFilePath'] = IF written THEN cert ELSE 0]
    /\ renew' = "idle"
    /\ UNCHANGED <<remaining, cert, failures>>

Stop ==
    /\ renew = "idle" /\ renew' = "stopped"
    /\ UNCHANGED <<remaining, cert, caVars, failures>>

IsExpired == remaining < 0

-----------------------------------------------------------------------------

\* GetCertificate hands out an expired certificate only after a renewal was tried and failed
\* at every check of the last Threshold intervals, the one at expiry included.
ExpiredOnlyAfterFailures == IsExpired => failures > Threshold

\* Whenever the goroutine of Start rests, the file that CACertFilePath names holds the
\* certificate that is served or, after a failed write, none: who asks for the path then never
\* trusts an old certificate.  So does the file that agents were given at startup, unless a
\* renewal could not open it: the manager has then left it behind, with whatever is in it.
FileMatchesServed ==
    renew \in {"idle", "check", "generate"} /\ caFilePath # "none" => caFile[caFilePath] \in {cert, 0}
=============================================================================
