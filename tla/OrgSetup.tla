------------------------------- MODULE OrgSetup -------------------------------
(***************************************************************************)
(* What the replay harness does before its first submission                *)
(* (harness.run, preflight, createOrg, inviteMember, the epoch lookup and  *)
(* bootstrapFixtureVocabulary in scripts/empirical_replay/main.go): check  *)
(* that the services answer, found the organisation, invite its members    *)
(* and register the fixtures' vocabulary.                                  *)
(*                                                                         *)
(* Every request goes through doJSON, which takes a 2xx answer WITHOUT a   *)
(* body for success and leaves the result at its zero value.  Whether a    *)
(* request that was answered like that took effect is therefore unknown to *)
(* the harness, and to this model.                                         *)
(***************************************************************************)
CONSTANT Vocabulary   (* fixtureVocabulary: the keywords of the fixtures.  *)

ASSUME VocabularyAssumption == Vocabulary # {}

VARIABLES
  setup,        (* What the harness does next.                             *)
  role,         (* The hub's roles of the harness's four identities.       *)
  keywordSet,   (* h.keywordSet: keywords it takes to be registered.       *)
  registered,   (* The keywords the hub has registered.                    *)
  unlisted      (* History: the hub listed no keyword at all.              *)

setupVars == <<setup, role, keywordSet, registered, unlisted>>

SetupPhases == {"preflight", "org", "moderator", "contributor", "consumer",
                "epoch", "vocabulary", "ready", "failed"}
Identity == {"leader", "moderator", "contributor", "consumer"}
Role == {"none", "leader", "moderator", "member"}

(* How doJSON returns: the body, success without one, or an error.  An     *)
(* answer with a body is given by a hub that did what it was asked.        *)
Answer == {"body", "empty", "error"}
DoJSON(answer, done) == answer = "body" => done

SetupInit ==
  /\ setup = "preflight"
  /\ role = [i \in Identity |-> "none"]
  /\ keywordSet = {}
  /\ registered = {}
  /\ unlisted = FALSE

-----------------------------------------------------------------------------
(* ensureWithinWatchdog before each step, and an error in any of them, end *)
(* the run.                                                                *)
SetupFails ==
  /\ setup \notin {"ready", "failed"}
  /\ setup' = "failed"
  /\ UNCHANGED <<role, keywordSet, registered, unlisted>>

(* The hub and the chain answer, and the hub says "connected": an answer   *)
(* without a body does not.                                                *)
Preflight ==
  /\ setup = "preflight"
  /\ setup' = "org"
  /\ UNCHANGED <<role, keywordSet, registered, unlisted>>

(* The answer must carry the org_id, or the run fails - with or without an *)
(* organisation in the hub.                                                *)
CreateOrg ==
  /\ setup = "org"
  /\ \E answer \in Answer, done \in BOOLEAN :
       /\ DoJSON(answer, done)
       /\ role' = IF done THEN [role EXCEPT !["leader"] = "leader"] ELSE role
       /\ setup' = IF answer = "body" THEN "moderator" ELSE "failed"
  /\ UNCHANGED <<keywordSet, registered, unlisted>>

(* An invitation's answer is not looked at.                                *)
InviteMember(who, as, next) ==
  /\ setup = who
  /\ \E answer \in Answer, done \in BOOLEAN :
       /\ DoJSON(answer, done)
       /\ role' = IF done THEN [role EXCEPT ![who] = as] ELSE role
       /\ setup' = IF answer = "error" THEN "failed" ELSE next
  /\ UNCHANGED <<keywordSet, registered, unlisted>>

InviteMembers ==
  \/ InviteMember("moderator", "moderator", "contributor")
  \/ InviteMember("contributor", "member", "consumer")
  \/ InviteMember("consumer", "member", "epoch")

(* getOrgCurrentEpoch finds the leader's organisation.                     *)
ResolveSeedEpoch ==
  /\ setup = "epoch"
  /\ role["leader"] = "leader"
  /\ setup' = "vocabulary"
  /\ UNCHANGED <<role, keywordSet, registered, unlisted>>

(* A keyword is posted once; nothing in the answer is looked at.           *)
EnsureKeyword(k) ==
  /\ setup = "vocabulary"
  /\ k \notin keywordSet
  /\ \E answer \in Answer, done \in BOOLEAN :
       /\ DoJSON(answer, done)
       /\ registered' = IF done THEN registered \cup {k} ELSE registered
       /\ IF answer = "error"
          THEN setup' = "failed" /\ UNCHANGED keywordSet
          ELSE keywordSet' = keywordSet \cup {k} /\ UNCHANGED setup
  /\ UNCHANGED <<role, unlisted>>

(* Faulty variant: the check after the registration asks h.keywordSet.     *)
ListOrgKeywordsOwn ==
  /\ setup = "vocabulary"
  /\ keywordSet = Vocabulary
  /\ setup' = "ready"
  /\ UNCHANGED <<role, keywordSet, registered, unlisted>>

(* The registration is checked against the hub's own listing.  A listing   *)
(* of nothing is taken for a hub that lists keywords late; a partial one   *)
(* ends the run (and so does an answer without a body, which cannot be     *)
(* decoded here: SetupFails).                                              *)
ListOrgKeywords ==
  /\ setup = "vocabulary"
  /\ keywordSet = Vocabulary
  /\ \E listed \in {registered, {}} :
       /\ unlisted' = (listed = {})
       /\ setup' = IF listed = {} \/ Vocabulary \subseteq listed
                   THEN "ready" ELSE "failed"
  /\ UNCHANGED <<role, keywordSet, registered>>

(* The setup up to the epoch lookup, and after it.                         *)
FoundOrg == Preflight \/ CreateOrg \/ InviteMembers
BootstrapVocabulary == (\E k \in Vocabulary : EnsureKeyword(k)) \/ ListOrgKeywords

-----------------------------------------------------------------------------
(* Properties.                                                             *)

SetupTypeOK ==
  /\ setup \in SetupPhases
  /\ role \in [Identity -> Role]
  /\ keywordSet \subseteq Vocabulary
  /\ registered \subseteq Vocabulary
  /\ unlisted \in BOOLEAN

(* bootstrapFixtureVocabulary, "missing fixture keywords after             *)
(* registration": when the first fixture is submitted the hub knows every  *)
(* keyword a fixture can name, also if it answered a registration it never *)
(* made - unless it lists no keyword at all, which the harness tolerates.  *)
VocabularyRegistered ==
  setup = "ready" => registered = Vocabulary \/ unlisted
=============================================================================
