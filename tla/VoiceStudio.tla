---------------------------- MODULE VoiceStudio ----------------------------
(***************************************************************************)
(* The Voice City service of one organization                              *)
(* (backend/services/voice_city/service.py): voices and their versions,    *)
(* candidates generated, mutated and bred, accepted and rejected, with the *)
(* similarity screen of safety_classifier.py.  Every operation is one      *)
(* transaction.  The optimizer is VoiceVersions.                           *)
(***************************************************************************)
EXTENDS VoiceParameters, FiniteSets

CONSTANTS Patches,        \* what a description or a request changes
          Saves,          \* documents a client sends to save
          LockSets,       \* sets of locked controls
          Weights,        \* the first parent's share when breeding
          Protected,      \* profiles the registry refuses
          StudioProviders,
          VoiceCap, StudioVersionCap, CandidateCap

\* A control has a number, the placement five.
Sparse(d) == /\ DOMAIN d \subseteq Control
             /\ \A c \in DOMAIN d \ {"resonance"} : d[c] \in Int
ASSUME StudioAssumption ==
    /\ \A d \in Patches \union Saves : Sparse(d)
    /\ \A ls \in LockSets : ls \subseteq Control
    /\ Weights \subseteq 0..1000

VARIABLES sVoices, sVersions, sCandidates
studioVars == <<sVoices, sVersions, sCandidates>>

Document == [Control -> Int \union Seq(Int)]
Candidate == [doc : Document, provider : StudioProviders, locked : SUBSET Control,
              held : Document, parents : SUBSET Nat,
              status : {"candidate", "blocked", "accepted", "rejected"}]

StudioTypeOK ==
    /\ \A v \in DOMAIN sVoices :
         /\ sVoices[v].status \in {"ready", "revoked", "deleted"}
         /\ sVoices[v].current \in DOMAIN sVersions
         /\ sVoices[v].provider \in StudioProviders
    /\ \A n \in DOMAIN sVersions :
         /\ DOMAIN sVersions[n].doc = Control
         /\ sVersions[n].voice \in DOMAIN sVoices
         /\ sVersions[n].provider \in StudioProviders
    /\ \A k \in DOMAIN sCandidates :
         /\ DOMAIN sCandidates[k].doc = Control
         /\ sCandidates[k].status \in
              {"candidate", "blocked", "accepted", "rejected"}

StudioInit == sVoices = <<>> /\ sVersions = <<>> /\ sCandidates = <<>>

Clear(doc) == doc \notin Protected
Found(v) == sVoices[v].status # "deleted"
VersionFound(n) == Found(sVersions[n].voice)
OfVoice(v) == {n \in DOMAIN sVersions : sVersions[n].voice = v}

-----------------------------------------------------------------------------
(* Versions.                                                               *)

\* Slip: trust the screen the candidate went through.
AddVersionUnscreened(v, parameters, provider, voices) ==
    LET doc == Normalize(parameters)
    IN  /\ Len(sVersions) < StudioVersionCap
        /\ sVersions' = Append(sVersions,
             [voice |-> v, number |-> Cardinality(OfVoice(v)) + 1,
              doc |-> doc, provider |-> provider])
        /\ sVoices' = [voices EXCEPT ![v].current = Len(sVersions) + 1,
                                     ![v].provider = provider]

\* Slip: store the document as the candidate has it.
AddVersionAsIs(v, parameters, provider, voices) ==
    /\ Clear(Normalize(parameters))
    /\ Len(sVersions) < StudioVersionCap
    /\ sVersions' = Append(sVersions,
         [voice |-> v, number |-> Cardinality(OfVoice(v)) + 1,
          doc |-> Patched(Defaults, parameters), provider |-> provider])
    /\ sVoices' = [voices EXCEPT ![v].current = Len(sVersions) + 1,
                                 ![v].provider = provider]

\* _create_version: normalizes and screens what it is given once more.
AddVersion(v, parameters, provider, voices) ==
    LET doc == Normalize(parameters)
    IN  /\ Clear(doc)
        /\ Len(sVersions) < StudioVersionCap
        /\ sVersions' = Append(sVersions,
             [voice |-> v, number |-> Cardinality(OfVoice(v)) + 1,
              doc |-> doc, provider |-> provider])
        /\ sVoices' = [voices EXCEPT ![v].current = Len(sVersions) + 1,
                                     ![v].provider = provider]

AddVoice(parameters, provider) ==
    LET v == Len(sVoices) + 1
    IN  /\ Len(sVoices) < VoiceCap
        /\ AddVersion(v, parameters, provider,
                      Append(sVoices, [status |-> "ready", current |-> 0,
                                       provider |-> provider]))

CreateVoice(patch, provider) ==
    AddVoice(Described(patch), provider) /\ UNCHANGED sCandidates

SaveVersion(v, parameters) ==
    /\ Found(v) /\ sVoices[v].status # "revoked"
    /\ AddVersion(v, parameters, sVoices[v].provider, sVoices)
    /\ UNCHANGED sCandidates

RollBack(v, n) ==
    /\ Found(v) /\ VersionFound(n) /\ sVersions[n].voice = v
    /\ sVoices' = [sVoices EXCEPT ![v].current = n,
                                  ![v].provider = sVersions[n].provider]
    /\ UNCHANGED <<sVersions, sCandidates>>

Revoke(v) ==
    /\ Found(v) /\ sVoices' = [sVoices EXCEPT ![v].status = "revoked"]
    /\ UNCHANGED <<sVersions, sCandidates>>

DeleteVoice(v) ==
    /\ Found(v) /\ sVoices' = [sVoices EXCEPT ![v].status = "deleted"]
    /\ UNCHANGED <<sVersions, sCandidates>>

-----------------------------------------------------------------------------
(* Candidates.                                                             *)

Specified(doc, provider, locked, held, parents) ==
    [doc |-> doc, provider |-> provider, locked |-> locked, held |-> held,
     parents |-> parents,
     status |-> IF Clear(doc) THEN "candidate" ELSE "blocked"]

StoreCandidate(c) ==
    /\ Len(sCandidates) < CandidateCap
    /\ sCandidates' = Append(sCandidates, c)
    /\ UNCHANGED <<sVoices, sVersions>>

\* One candidate of the set: the description's own document or a variation.
Generate(patch, jitter, locked, provider) ==
    LET center == Described(patch)
    IN  StoreCandidate(Specified(VariedSpec(center, jitter, locked), provider,
                                 locked, center, {}))

\* The generator normalizes its base once more and locks against that: rounding
\* may have moved a value by a unit.
Mutate(n, patch, locked) ==
    /\ VersionFound(n)
    /\ LET base == Normalize(sVersions[n].doc)
       IN  StoreCandidate(Specified(MutatedSpec(base, patch, locked),
                            sVersions[n].provider, locked, Normalize(base), {n}))

Breed(a, b, weight, locked) ==
    /\ \A n \in {a, b} : VersionFound(n) /\ sVoices[sVersions[n].voice].status # "revoked"
    /\ LET da == sVersions[a].doc
       IN  StoreCandidate(Specified(BredSpec(da, sVersions[b].doc, weight, locked),
                            sVersions[a].provider, locked, Normalize(da), {a, b}))

Judged(k, status) == sCandidates' = [sCandidates EXCEPT ![k].status = status]

AcceptAsNew(k) ==
    /\ sCandidates[k].status # "blocked"
    /\ AddVoice(sCandidates[k].doc, sCandidates[k].provider)
    /\ Judged(k, "accepted")

\* Slip: take a candidate of any provider.
AcceptAny(k, v) ==
    /\ sCandidates[k].status # "blocked" /\ Found(v)
    /\ AddVersion(v, sCandidates[k].doc, sCandidates[k].provider, sVoices)
    /\ Judged(k, "accepted")

AcceptInto(k, v) ==
    /\ sCandidates[k].status # "blocked" /\ Found(v)
    /\ sVersions[sVoices[v].current].provider = sCandidates[k].provider
    /\ AddVersion(v, sCandidates[k].doc, sCandidates[k].provider, sVoices)
    /\ Judged(k, "accepted")

Reject(k) == Judged(k, "rejected") /\ UNCHANGED <<sVoices, sVersions>>

StudioNext ==
    \/ \E patch \in Patches, p \in StudioProviders : CreateVoice(patch, p)
    \/ \E v \in DOMAIN sVoices :
         \/ \E d \in Saves : SaveVersion(v, d)
         \/ \E n \in DOMAIN sVersions : RollBack(v, n)
         \/ Revoke(v) \/ DeleteVoice(v)
    \/ \E patch, jitter \in Patches, ls \in LockSets, p \in StudioProviders :
         Generate(patch, jitter, ls, p)
    \/ \E n \in DOMAIN sVersions, patch \in Patches, ls \in LockSets :
         Mutate(n, patch, ls)
    \/ \E a, b \in DOMAIN sVersions, w \in Weights, ls \in LockSets :
         Breed(a, b, w, ls)
    \/ \E k \in DOMAIN sCandidates :
         \/ AcceptAsNew(k) \/ Reject(k)
         \/ \E v \in DOMAIN sVoices : AcceptInto(k, v)

StudioSpec == StudioInit /\ [][StudioNext]_studioVars

-----------------------------------------------------------------------------
\* No saved version has a protected profile, whatever was blocked, rejected
\* and accepted after all, or held by a lock against the constraints
\* (service._create_version).
NothingProtectedSaved ==
    \A n \in DOMAIN sVersions : Clear(sVersions[n].doc)

\* A voice's current version is one of its own and of its provider, as are all
\* its versions (service.rollback, accept_candidate).
VoicesCoherent ==
    \A v \in DOMAIN sVoices :
      /\ sVersions[sVoices[v].current].voice = v
      /\ \A n \in OfVoice(v) : sVersions[n].provider = sVoices[v].provider

\* A lock holds: the candidate has the value of every locked control that the
\* reference has which its generation started from, whatever the constraints
\* say (generator._enforce_locks).
LocksHeld ==
    \A k \in DOMAIN sCandidates : \A c \in sCandidates[k].locked :
      sCandidates[k].doc[c] = sCandidates[k].held[c]

\* A saved version never joins breath to pressure, though a candidate whose
\* lock overrode the constraint may (parameter_schema.normalize_parameters).
NeverAiryAndPressed ==
    \A n \in DOMAIN sVersions :
      sVersions[n].doc.breath > 750 =>
        sVersions[n].doc.effort <= 650 /\ sVersions[n].doc.closure <= 700

\* What the studio owes a listener at every moment: a saved version can be
\* spoken, is the voice's own, and a control that was locked did not move.
StudioSound ==
    NothingProtectedSaved /\ NeverAiryAndPressed /\ VoicesCoherent /\ LocksHeld

=============================================================================
