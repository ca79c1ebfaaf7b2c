------------------------ MODULE ParticipantCompliance ------------------------
(***************************************************************************)
(* Whether a participant may trade: the restriction and jurisdiction set   *)
(* by staff, the risk profile computed from them, proposals that a second  *)
(* person decides, and the check an order makes.                           *)
(*                                                                         *)
(* A placement and a change of the restriction lock the participant's      *)
(* user row.  Assessments, decisions about the risk profile and identity   *)
(* checks do not.  One participant, whose age and country are eligible.    *)
(***************************************************************************)
EXTENDS Integers, FiniteSets, Sequences

CONSTANTS Staff, MaxProposals, MaxChanges, None

Kyc == {"VERIFIED", "REJECTED", "EXPIRED"}
Restrictions == {"CLEAR", "RESTRICTED", "SUSPENDED"}
Jurisdictions == {"NONE", "ALLOW", "BLOCK"}
Bands == {"LOW", "MEDIUM", "HIGH", "CRITICAL"}
Recommendations == {"NONE", "MONITOR", "REVIEW", "BLOCK"}
Overrides == {"NONE", "CLEAR", "REVIEW", "BLOCK"}
Compliance == [restriction : Restrictions, jurisdiction : Jurisdictions]
Profile == [band : Bands, recommendation : Recommendations, manual : Overrides,
            assessed : BOOLEAN]
Types == {"CLEAR_CRITICAL_RISK_BLOCK", "REMOVE_SUSPENDED_RESTRICTION",
          "JURISDICTION_BLOCK_TO_ALLOW", "APPLY_RISK_OVERRIDE", "CLEAR_RISK_OVERRIDE"}
Proposals == [type : Types, by : Staff, status : {"PENDING", "APPROVED", "REJECTED"},
              manual : Overrides, recommendation : Recommendations,
              decidedBy : Staff \cup {None}]

VARIABLES
    kyc,         \* status of the identity check
    excluded,    \* a self-exclusion or an administrative block is in force
    compliance,  \* MarketParticipantCompliance
    profile,     \* MarketRiskProfile
    assessments, \* inputs that have an assessment, each stored once
    latest,      \* history: the inputs of the latest assessment
    proposals,   \* ComplianceDecisionProposal rows
    placing,     \* a placement has checked and holds the user's row
    placed,      \* what compliance was when an order was created
    changes      \* bound on the changes

vars == <<kyc, excluded, compliance, profile, assessments, latest, proposals,
          placing, placed, changes>>
Change == changes < MaxChanges /\ changes' = changes + 1

TypeOK ==
    /\ kyc \in Kyc /\ excluded \in BOOLEAN /\ placing \in BOOLEAN
    /\ compliance \in Compliance /\ profile \in Profile
    /\ \A p \in DOMAIN proposals : proposals[p] \in Proposals
    /\ latest \subseteq assessments /\ placed \subseteq Compliance
    /\ changes \in 0..MaxChanges

Init ==
    /\ kyc = "VERIFIED" /\ excluded = FALSE /\ placing = FALSE /\ placed = {}
    /\ compliance = [restriction |-> "CLEAR", jurisdiction |-> "NONE"]
    /\ profile = [band |-> "LOW", recommendation |-> "NONE", manual |-> "NONE",
                  assessed |-> FALSE]
    /\ assessments = {} /\ latest = {} /\ proposals = <<>> /\ changes = 0

-----------------------------------------------------------------------------
(* The service of identity checks and the participant's own exclusions.    *)
ChangeOutside ==
    /\ Change
    /\ \/ kyc' \in Kyc \ {kyc} /\ UNCHANGED excluded
       \/ excluded' = ~excluded /\ UNCHANGED kyc
    /\ UNCHANGED <<compliance, profile, assessments, latest, proposals, placing, placed>>

UserFreeAlways == TRUE
UserFree == ~placing

(* MarketComplianceService.update, under the lock of the user.             *)
UpdateTo(c) == UserFree /\ compliance' = c

(* PATCH by one member of the staff; the serializer asks for notes only.   *)
Patch(c) ==
    /\ c # compliance /\ Change /\ UpdateTo(c)
    /\ UNCHANGED <<kyc, excluded, profile, assessments, latest, proposals,
                   placing, placed>>

-----------------------------------------------------------------------------
Inputs == [kyc |-> kyc, compliance |-> compliance, excluded |-> excluded]

(* The rules of MarketRiskService.                                         *)
Score(i) ==
    (CASE i.kyc = "REJECTED" -> 35 [] i.kyc = "EXPIRED" -> 20 [] OTHER -> 0)
    + (CASE i.compliance.restriction = "RESTRICTED" -> 45
         [] i.compliance.restriction = "SUSPENDED" -> 70 [] OTHER -> 0)
    + (IF i.compliance.jurisdiction = "BLOCK" THEN 70 ELSE 0)
    + (IF i.excluded THEN 70 ELSE 0)

Band(i) == CASE Score(i) < 20 -> "LOW" [] Score(i) \in 20..39 -> "MEDIUM"
             [] Score(i) \in 40..69 -> "HIGH" [] OTHER -> "CRITICAL"
Recommendation(b) == CASE b = "LOW" -> "NONE" [] b = "MEDIUM" -> "MONITOR"
                       [] b = "HIGH" -> "REVIEW" [] b = "CRITICAL" -> "BLOCK"

(* assess: the profile follows only an assessment of new inputs.           *)
Assess ==
    /\ assessments' = assessments \cup {Inputs}
    /\ IF Inputs \notin assessments \/ ~profile.assessed
       THEN /\ profile' = [profile EXCEPT !.band = Band(Inputs),
                   !.recommendation = Recommendation(Band(Inputs)),
                   !.assessed = TRUE]
       ELSE UNCHANGED profile
    /\ latest' = {Inputs}
    /\ UNCHANGED <<kyc, excluded, compliance, proposals, placing, placed, changes>>

-----------------------------------------------------------------------------
(* What a proposal of each type requires of the participant.               *)
Proposable(type) ==
    CASE type = "CLEAR_CRITICAL_RISK_BLOCK" -> profile.band = "CRITICAL"
      [] type = "REMOVE_SUSPENDED_RESTRICTION" -> compliance.restriction = "SUSPENDED"
      [] type = "JURISDICTION_BLOCK_TO_ALLOW" -> compliance.jurisdiction = "BLOCK"
      [] OTHER -> TRUE

(* The state of the profile that a proposal asks for.                      *)
Asked(type, state) ==
    CASE type = "CLEAR_CRITICAL_RISK_BLOCK" -> "CLEAR"
      [] type = "APPLY_RISK_OVERRIDE" -> state
      [] type = "CLEAR_RISK_OVERRIDE" -> "NONE"
      [] OTHER -> profile.manual

Propose(s, type, state) ==
    /\ Len(proposals) < MaxProposals /\ Proposable(type)
    /\ state \in (IF type = "APPLY_RISK_OVERRIDE" THEN Overrides \ {"NONE"} ELSE {"NONE"})
    /\ proposals' = Append(proposals,
           [type |-> type, by |-> s, status |-> "PENDING", manual |-> Asked(type, state),
            recommendation |-> IF type = "CLEAR_CRITICAL_RISK_BLOCK" THEN "NONE"
                               ELSE profile.recommendation,
            decidedBy |-> None])
    /\ UNCHANGED <<kyc, excluded, compliance, profile, assessments, latest,
                   placing, placed, changes>>

(* _apply: restriction and jurisdiction through the service, the profile   *)
(* from the snapshot of the proposal.                                      *)
Apply(p) ==
    CASE p.type = "REMOVE_SUSPENDED_RESTRICTION" ->
            /\ UpdateTo([compliance EXCEPT !.restriction = "CLEAR"])
            /\ UNCHANGED profile
      [] p.type = "JURISDICTION_BLOCK_TO_ALLOW" ->
            /\ UpdateTo([compliance EXCEPT !.jurisdiction = "ALLOW"])
            /\ UNCHANGED profile
      [] OTHER ->
            /\ profile' = [profile EXCEPT !.manual = p.manual,
                   !.recommendation = p.recommendation]
            /\ UNCHANGED compliance

MayDecideOwn(p, s) == p.status = "PENDING"
MayDecide(p, s) == p.status = "PENDING" /\ p.by # s

(* decide, under the lock of the proposal.                                 *)
Decide(i, s, approve) ==
    /\ i \in DOMAIN proposals /\ MayDecide(proposals[i], s)
    /\ proposals' = [proposals EXCEPT ![i].decidedBy = s,
           ![i].status = IF approve THEN "APPROVED" ELSE "REJECTED"]
    /\ IF approve THEN Apply(proposals[i]) ELSE UNCHANGED <<compliance, profile>>
    /\ UNCHANGED <<kyc, excluded, assessments, latest, placing, placed, changes>>

-----------------------------------------------------------------------------
(* The risk part of the check: an override before the band.                *)
RiskClear == CASE profile.manual \in {"BLOCK", "REVIEW"} -> FALSE
               [] profile.manual = "CLEAR" -> TRUE
               [] OTHER -> profile.band \notin {"HIGH", "CRITICAL"}

Eligible ==
    /\ kyc = "VERIFIED" /\ RiskClear
    /\ compliance.restriction = "CLEAR" /\ compliance.jurisdiction # "BLOCK"

(* place_order up to its eligibility check, and its commit.                *)
PlaceOrder ==
    /\ UserFree /\ Eligible /\ ~excluded /\ placing' = TRUE
    /\ UNCHANGED <<kyc, excluded, compliance, profile, assessments, latest, proposals,
                   placed, changes>>
OrderPlaced ==
    /\ placing /\ placing' = FALSE /\ placed' = placed \cup {compliance}
    /\ UNCHANGED <<kyc, excluded, compliance, profile, assessments, latest, proposals,
                   changes>>

Next ==
    \/ ChangeOutside \/ Assess \/ PlaceOrder \/ OrderPlaced
    \/ \E c \in Compliance : Patch(c)
    \/ \E s \in Staff, t \in Types, o \in Overrides : Propose(s, t, o)
    \/ \E s \in Staff, i \in 1..MaxProposals, a \in BOOLEAN : Decide(i, s, a)

Spec == Init /\ [][Next]_vars

-----------------------------------------------------------------------------
(* No order is created by a participant who is restricted or whose country *)
(* is blocked at that moment, although the check was made earlier; and an  *)
(* override of the risk goes back to an approval by a second person.       *)
TradesCleared ==
    /\ \A c \in placed : c.restriction = "CLEAR" /\ c.jurisdiction # "BLOCK"
    /\ profile.manual # "NONE" => \E i \in DOMAIN proposals :
        /\ proposals[i].status = "APPROVED" /\ proposals[i].manual = profile.manual
        /\ proposals[i].decidedBy \in Staff \ {proposals[i].by}

(* The profile has the band that the rules give the inputs assessed last,  *)
(* also when the inputs have been seen before.                             *)
AssessmentIsCurrent == \A i \in latest : profile.band = Band(i)

(* A suspension ends only by the decision of a second person.              *)
SuspensionsEndByTwo == [][(compliance.restriction = "SUSPENDED"
    /\ compliance'.restriction # "SUSPENDED") => proposals' # proposals]_vars
=============================================================================
