---------------------------- MODULE TrustConfig -----------------------------
(***************************************************************************)
(* How the hub comes to a spoke's credential: a TrustConfig and the Secret *)
(* it names, the reconciler that reports whether they resolve              *)
(* (internal/hub/trustconfig_controller.go), and the part of a mint that   *)
(* resolves them again (trustFor and ValidateTrust in broker/broker.go,    *)
(* restConfigFor in broker/kubernetes.go).                                 *)
(*                                                                         *)
(* Both read the TrustConfig from an informer cache and the Secret from    *)
(* the API server.  Nobody watches Secrets.  An Update carries the version *)
(* it read, so a reconcile is one step after its reads: a change between   *)
(* them shows as a conflict.                                               *)
(***************************************************************************)
EXTENDS Naturals

CONSTANTS
  Specs,        \* the TrustConfig specs that operators write, of SpecType
  TrustBudget,  \* bound: edits, failed reads, mints and restarts, together
  Nil

Providers == {"kubernetes", "aws", "other"}

\* TrustConfigSpec: the kubernetes block is absent, lacks a name, or is whole;
\* secretRef is Nil, names nothing, or names the Secret.
SpecType ==
  [provider : Providers, block : {"absent", "unnamed", "whole"},
   inCluster : BOOLEAN, secretRef : {Nil, "nameless", "spoke"}]

ASSUME SpecsAssumption ==
  /\ Specs \subseteq SpecType /\ Nil \notin {"nameless", "spoke"}
  /\ TrustBudget \in Nat

\* The Secret: its key holds nothing, no kubeconfig, or one.
Secrets == {"missing", "keyless", "garbled", "kubeconfig"}

Reasons == {"Valid", "ProviderNotImplemented", "InvalidConfiguration",
            "CredentialMissing"}

\* The Ready condition: its reason, and the part of its message that tells
\* one missing credential from another.
Verdict == [reason : Reasons, about : Secrets \cup {"plain", "unreadable"}]
Status == Verdict \cup {Nil}

VARIABLES
  trust,   \* the TrustConfig, or Nil: [uid, gen, writes, spec, status, at]
  secret,
  cached,  \* the TrustConfig in the informer cache
  queued,  \* the TrustConfig waits to be reconciled
  mint,    \* the last mint: [pc, trust, outcome]
  judged,  \* history: the Secret as read for the status
  trustSpent

trustVars == <<trust, secret, cached, queued, mint, judged, trustSpent>>

TrustType ==
  [uid : Nat, gen : Nat, writes : Nat, spec : Specs, status : Status, at : Nat]

Outcomes == {"none", "TrustConfigMissing", "ProviderNotImplemented",
             "TrustConfigInvalid", "CredentialMissing", "Unreadable",
             "Unparsable", "Connected"}

TrustTypeOK ==
  /\ trust \in TrustType \cup {Nil} /\ cached \in TrustType \cup {Nil}
  /\ secret \in Secrets /\ judged \in Secrets \cup {"unreadable"}
  /\ queued \in BOOLEAN
  /\ mint \in [pc : {"idle", "connect"}, trust : TrustType \cup {Nil},
               outcome : Outcomes]
  /\ trustSpent \in 0..TrustBudget

TrustInit ==
  /\ trust = Nil /\ cached = Nil
  /\ secret \in Secrets /\ judged = secret
  /\ queued = FALSE
  /\ mint = [pc |-> "idle", trust |-> Nil, outcome |-> "none"]
  /\ trustSpent = 0

SpendTrust == trustSpent < TrustBudget /\ trustSpent' = trustSpent + 1

-----------------------------------------------------------------------------
(***************************************************************************)
(* What a configuration resolves to.                                       *)
(***************************************************************************)
\* ValidateTrust: no error, ErrProviderNotImplemented or
\* ErrTrustConfigInvalid.
ValidateTrust(s) ==
  IF s.provider = "aws" THEN "ProviderNotImplemented"
  ELSE IF /\ s.provider = "kubernetes" /\ s.block = "whole"
          /\ s.inCluster # (s.secretRef # Nil) /\ s.secretRef # "nameless"
  THEN "none" ELSE "TrustConfigInvalid"

\* checkSecret, on what the read of the Secret returned.
CheckSecret(found) ==
  IF found \in {"missing", "unreadable", "keyless"}
  THEN [reason |-> "CredentialMissing", about |-> found]
  ELSE [reason |-> "Valid", about |-> "plain"]

\* evaluate
Evaluate(s, found) ==
  CASE ValidateTrust(s) = "ProviderNotImplemented" ->
         [reason |-> "ProviderNotImplemented", about |-> "plain"]
    [] ValidateTrust(s) = "TrustConfigInvalid" ->
         [reason |-> "InvalidConfiguration", about |-> "plain"]
    [] ValidateTrust(s) = "none" /\ s.secretRef # Nil -> CheckSecret(found)
    [] OTHER -> [reason |-> "Valid", about |-> "plain"]

\* restConfigFor, on what the read of the Secret returned; the hub has a
\* configuration of its own cluster.
RestConfigFor(s, found) ==
  CASE s.inCluster -> "Connected"
    [] ~s.inCluster /\ s.secretRef = Nil -> "TrustConfigInvalid"
    [] ~s.inCluster /\ s.secretRef # Nil ->
         CASE found \in {"missing", "keyless"} -> "CredentialMissing"
           [] found = "unreadable" -> "Unreadable"
           [] found = "garbled" -> "Unparsable"
           [] found = "kubeconfig" -> "Connected"

\* What a read of the Secret that s names returns; a failed one is paid for.
Read(s, found) ==
  \/ found = secret /\ UNCHANGED trustSpent
  \/ s.secretRef # Nil /\ found = "unreadable" /\ SpendTrust

-----------------------------------------------------------------------------
(***************************************************************************)
(* Operators, at the API server, and the informer.                         *)
(***************************************************************************)
Create(s) ==
  /\ trust = Nil /\ SpendTrust
  /\ trust' = [uid |-> trustSpent, gen |-> 1, writes |-> 0, spec |-> s,
               status |-> Nil, at |-> 0]
  /\ UNCHANGED <<secret, cached, queued, mint, judged>>

EditTrust(s) ==
  /\ trust # Nil /\ SpendTrust
  /\ s # trust.spec
  /\ trust' = [trust EXCEPT !.spec = s, !.gen = @ + 1]
  /\ UNCHANGED <<secret, cached, queued, mint, judged>>

DeleteTrust ==
  /\ trust # Nil /\ SpendTrust
  /\ trust' = Nil
  /\ UNCHANGED <<secret, cached, queued, mint, judged>>

EditSecret(s) ==
  /\ s # secret /\ SpendTrust
  /\ secret' = s
  /\ UNCHANGED <<trust, cached, queued, mint, judged>>

\* A watch event puts the TrustConfig in the queue.
SyncTrust ==
  /\ cached # trust
  /\ cached' = trust /\ queued' = TRUE
  /\ UNCHANGED <<trust, secret, mint, judged, trustSpent>>

-----------------------------------------------------------------------------
(***************************************************************************)
(* TrustConfigReconciler.                                                  *)
(***************************************************************************)
SameTrust(a, b) ==
  /\ a # Nil /\ b # Nil
  /\ <<a.uid, a.gen, a.writes>> = <<b.uid, b.gen, b.writes>>

\* trustStatusEqual: the condition with its message, and the generation.
TrustStatusEqual(verdict) == cached.status = verdict /\ cached.at = cached.gen

\* The status update, without the version it read.
PublishTrustUnlocked(verdict, found, requeue) ==
  IF TrustStatusEqual(verdict) \/ trust = Nil
  THEN queued' = requeue /\ UNCHANGED <<trust, judged>>
  ELSE /\ trust' = [trust EXCEPT !.status = verdict, !.at = cached.gen,
                                 !.writes = @ + 1]
       /\ judged' = found /\ queued' = requeue

\* The status update: done, refused as a conflict, or not needed.  The item
\* is tried again after a conflict, and after recheckInterval when requeued.
PublishTrust(verdict, found, requeue) ==
  IF TrustStatusEqual(verdict)
  THEN queued' = requeue /\ UNCHANGED <<trust, judged>>
  ELSE IF SameTrust(cached, trust)
  THEN /\ trust' = [trust EXCEPT !.status = verdict, !.at = cached.gen,
                                 !.writes = @ + 1]
       /\ judged' = found /\ queued' = requeue
  ELSE queued' = TRUE /\ UNCHANGED <<trust, judged>>

\* Reconcile with no RequeueAfter.
ReconcileOnce ==
  /\ queued
  /\ IF cached = Nil
     THEN queued' = FALSE /\ UNCHANGED <<trust, judged, trustSpent>>
     ELSE \E found \in Secrets \cup {"unreadable"} :
            /\ Read(cached.spec, found)
            /\ PublishTrust(Evaluate(cached.spec, found), found, FALSE)
  /\ UNCHANGED <<secret, cached, mint>>

\* Reconcile: whatever is not Valid comes back.
Reconcile ==
  /\ queued
  /\ IF cached = Nil
     THEN queued' = FALSE /\ UNCHANGED <<trust, judged, trustSpent>>
     ELSE \E found \in Secrets \cup {"unreadable"} :
            LET verdict == Evaluate(cached.spec, found) IN
            /\ Read(cached.spec, found)
            /\ PublishTrust(verdict, found, verdict.reason # "Valid")
  /\ UNCHANGED <<secret, cached, mint>>

\* The elected replica is replaced: what the informer lists is reconciled.
RestartTrust ==
  /\ SpendTrust
  /\ cached' = trust /\ queued' = (trust # Nil)
  /\ mint' = [pc |-> "idle", trust |-> Nil, outcome |-> "none"]
  /\ UNCHANGED <<trust, secret, judged>>

-----------------------------------------------------------------------------
(***************************************************************************)
(* Broker.Mint, up to the connection to the cell.                          *)
(***************************************************************************)
\* trustFor, and the provider.
TrustFor ==
  /\ mint.pc = "idle" /\ SpendTrust
  /\ mint' = LET error == IF cached = Nil THEN "TrustConfigMissing"
                          ELSE ValidateTrust(cached.spec) IN
             [pc |-> IF error = "none" THEN "connect" ELSE "idle",
              trust |-> cached, outcome |-> error]
  /\ UNCHANGED <<trust, secret, cached, queued, judged>>

\* SecretConnector.Connect
Connect ==
  /\ mint.pc = "connect"
  /\ \E found \in Secrets \cup {"unreadable"} :
       /\ Read(mint.trust.spec, found)
       /\ mint' = [mint EXCEPT !.pc = "idle",
                     !.outcome = RestConfigFor(mint.trust.spec, found)]
  /\ UNCHANGED <<trust, secret, cached, queued, judged>>

-----------------------------------------------------------------------------
TrustNext ==
  \/ \E s \in Specs : Create(s) \/ EditTrust(s)
  \/ DeleteTrust
  \/ \E s \in Secrets : EditSecret(s)
  \/ SyncTrust \/ Reconcile \/ RestartTrust
  \/ TrustFor \/ Connect

TrustSpec == TrustInit /\ [][TrustNext]_trustVars

\* The watch delivers, and the elected replica works through its queue,
\* retries and rechecks included.
TrustFairness == WF_trustVars(SyncTrust) /\ WF_trustVars(Reconcile)

-----------------------------------------------------------------------------
\* What the status says of the spec it was written for.
Reported(reasons) ==
  trust # Nil /\ trust.status # Nil /\ trust.at = trust.gen
    /\ trust.status.reason \in reasons

\* The mint works on the configuration that the status is about.
OfThisMint == mint.trust # Nil /\ trust # Nil
  /\ mint.trust.uid = trust.uid /\ mint.trust.gen = trust.gen

\* A mint that ends with this step does as the status led to expect.
Foretold ==
  mint'.outcome # "none" /\ mint' # mint /\ OfThisMint' =>
    /\ Reported({"Valid"}) /\ (secret = judged \/ trust.spec.secretRef = Nil) =>
         mint'.outcome \in {"Connected", "Unparsable", "Unreadable"}
    /\ Reported({"InvalidConfiguration", "ProviderNotImplemented"}) =>
         mint'.outcome # "Connected"

\* The status foretells the mint: with one that says Valid, and the Secret as
\* it was when that was found, a mint with that configuration gets past it,
\* or fails on a kubeconfig that does not parse or a Secret that cannot be
\* read just then; and no mint connects with a configuration that the status
\* calls invalid or not implemented (evaluate and checkSecret against
\* ValidateTrust and restConfigFor, each with reads of its own).
StatusForetellsMint == [][Foretold]_trustVars

\* A trust configuration that is in order comes to be reported Ready, though
\* nothing tells the controller that the Secret has appeared
\* (recheckInterval).
TrustBecomesReady ==
  \A s \in Specs :
    <>[](trust # Nil /\ trust.spec = s /\ Evaluate(s, secret).reason = "Valid")
      => <>[](Reported({"Valid"}))
=============================================================================
