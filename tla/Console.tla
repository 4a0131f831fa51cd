------------------------------- MODULE Console -------------------------------
(***************************************************************************)
(* The operator's console: one page, whose handlers interleave with each   *)
(* other at every call of the API, and whose calls return in any order.    *)
(* Everything on the page is overwritten by whatever returns last, whether *)
(* or not it belongs to the incident selected by then.  Other people       *)
(* propose plans meanwhile.                                                *)
(***************************************************************************)
EXTENDS Integers, FiniteSets, FiniteSetsExt

CONSTANTS
  Incidents,            \* numbers, in the order they are created
  Plans,                \* numbers, in the order they are created
  IncidentOf,           \* of each plan
  MaxClicks,            \* bound: what the operator does in all
  None,
  Error                 \* a call that was refused, or whose answer was lost

ASSUME ConsoleAssumption ==
  /\ \E last \in Incidents \cup Plans \cup {0} : Incidents \cup Plans \subseteq 1 .. last
  /\ None \notin Nat
  /\ IncidentOf \in [Plans -> Incidents] /\ MaxClicks \in Nat

VARIABLES
  incidents,            \* server: those that exist
  investigated,         \* server: those with an investigation
  status,               \* server: of each plan, "none" before it is proposed
  listed,               \* state.incidents
  selected,             \* state.selected
  shownRun,             \* the incident of state.investigation, or None
  remediationId,        \* state.remediationId
  panel,                \* the plan and status the panel shows, or None
  enabled,              \* the button that investigates
  calls,                \* calls of the API under way
  clicks,               \* so far
  raced,                \* history: something was clicked before all had returned
  decisions             \* history: decisions the service accepted

server == <<incidents, investigated, status>>
page == <<listed, selected, shownRun, remediationId, panel, enabled>>
history == <<clicks, raced, decisions>>
vars == <<server, page, calls, history>>

Kinds == {"list", "detail", "remediation", "decide", "investigate", "create"}

EnableButton == 0

\* nr: the click it follows from. then: what its handler goes on with, an
\* incident to select or the end of investigate. shown: history, the plan the
\* panel showed. reply: None while it is under way.
Call(nr, kind, incident, plan, then) ==
  [nr |-> nr, kind |-> kind, incident |-> incident, plan |-> plan, then |-> then,
   shown |-> IF kind = "decide" THEN panel.plan ELSE None, reply |-> None]

Init ==
  /\ incidents \in SUBSET Incidents
  /\ \E n \in 0 .. Cardinality(Incidents) :
       incidents = {i \in Incidents : Cardinality({j \in Incidents : j <= i}) <= n}
  /\ investigated \in SUBSET incidents
  /\ status = [p \in Plans |-> "none"]
  /\ listed = {} /\ selected = None /\ shownRun = None
  /\ remediationId = None /\ panel = None /\ enabled = FALSE
  /\ clicks = 0 /\ raced = FALSE /\ decisions = {}
  /\ calls = {Call(0, "list", None, None, None)}

---------------------------------------------------------------------------
(* What the operator does *)

Click(kind, incident, plan, then) ==
  /\ clicks < MaxClicks
  /\ clicks' = clicks + 1
  /\ raced' = (raced \/ calls # {})
  /\ calls' = calls \cup {Call(clicks + 1, kind, incident, plan, then)}
  /\ UNCHANGED <<server, decisions>>

Refresh == Click("list", None, None, None) /\ UNCHANGED page

Select(i) ==
  /\ i \in listed
  /\ Click("detail", i, None, None)
  /\ UNCHANGED page

Investigate ==
  /\ selected # None /\ enabled
  /\ enabled' = FALSE
  /\ Click("investigate", selected, None, EnableButton)
  /\ UNCHANGED <<listed, selected, shownRun, remediationId, panel>>

\* Either button of a proposed plan; the prompts block the page.
Decide ==
  /\ panel # None /\ panel.status = "proposed"
  /\ Click("decide", selected, remediationId, None)
  /\ UNCHANGED page

Create == Click("create", None, None, None) /\ UNCHANGED page

---------------------------------------------------------------------------
(* What the service does *)

Answered(c, reply) == calls' = (calls \ {c}) \cup {[c EXCEPT !.reply = reply]}

Proposed(i) == {p \in Plans : IncidentOf[p] = i /\ status[p] # "none"}
Read(p) == [plan |-> p, status |-> status[p]]

\* Mutant: any plan can be decided under any incident.
AcceptsAnywhere(c) == status[c.plan] = "proposed"

\* _required_plan finds the plan by both identifiers.
Accepts(c) == IncidentOf[c.plan] = c.incident /\ status[c.plan] = "proposed"

Serve(c) ==
  /\ c \in calls /\ c.reply = None
  /\ \/ /\ c.kind = "list" /\ Answered(c, incidents)
        /\ UNCHANGED <<server, decisions>>
     \/ /\ c.kind = "detail" /\ Answered(c, c.incident \in investigated)
        /\ UNCHANGED <<server, decisions>>
     \/ /\ c.kind = "remediation" /\ Proposed(c.incident) # {}
        /\ Answered(c, Read(Max(Proposed(c.incident))))
        /\ UNCHANGED <<server, decisions>>
     \/ /\ c.kind = "decide" /\ Accepts(c)
        /\ status' = [status EXCEPT ![c.plan] = "decided"]
        /\ Answered(c, [plan |-> c.plan, status |-> "decided"])
        /\ decisions' = decisions \cup
             {[plan |-> c.plan, shown |-> c.shown, incident |-> c.incident]}
        /\ UNCHANGED <<incidents, investigated>>
     \/ /\ c.kind = "investigate"
        /\ investigated' = investigated \cup {c.incident}
        /\ Answered(c, TRUE)
        /\ UNCHANGED <<incidents, status, decisions>>
     \/ /\ c.kind = "create" /\ Incidents # incidents
        /\ incidents' = incidents \cup {Min(Incidents \ incidents)}
        /\ Answered(c, Min(Incidents \ incidents))
        /\ UNCHANGED <<investigated, status, decisions>>
  /\ UNCHANGED <<page, clicks, raced>>

\* A refusal, an error, or an answer that is lost on its way.
Fails(c) ==
  /\ c \in calls /\ c.reply # Error
  /\ Answered(c, Error)
  /\ UNCHANGED <<server, page, history>>

\* Somebody proposes the next plan for an incident that was investigated.
Propose(p) ==
  /\ status[p] = "none" /\ \A q \in Plans : q < p => status[q] # "none"
  /\ IncidentOf[p] \in investigated
  /\ status' = [status EXCEPT ![p] = "proposed"]
  /\ UNCHANGED <<incidents, investigated, page, calls, history>>

---------------------------------------------------------------------------
(* What the page does with what returns *)

Follow(c) ==
  IF c.then \in Incidents THEN {Call(c.nr, "detail", c.then, None, None)} ELSE {}

\* The call's handler goes on, or is over.
GoOn(c, more) ==
  /\ calls' = (calls \ {c}) \cup Follow(c) \cup more
  /\ enabled' = (enabled \/ c.then = EnableButton)

\* Mutant: of what was decided the panel keeps the identifier it had.
RenderOnly(plan) ==
  /\ panel' = plan
  /\ remediationId' = IF remediationId = None THEN plan.plan ELSE remediationId

RenderRemediation(plan) ==
  /\ panel' = plan
  /\ remediationId' = plan.plan

\* While nothing is selected, the newest incident is.
ListReturns(c) ==
  /\ c.kind = "list"
  /\ \/ c.reply = Error /\ GoOn(c, {}) /\ UNCHANGED listed
     \/ /\ c.reply # Error
        /\ listed' = c.reply
        /\ \/ /\ selected = None /\ c.reply # {}
              /\ calls' = (calls \ {c})
                   \cup {Call(c.nr, "detail", Max(c.reply), None, c.then)}
              /\ UNCHANGED enabled
           \/ (selected # None \/ c.reply = {}) /\ GoOn(c, {})
  /\ UNCHANGED <<selected, shownRun, remediationId, panel>>

\* selectIncident: renderIncident enables the button, renderInvestigation
\* asks for the plan.
DetailReturns(c) ==
  /\ c.kind = "detail"
  /\ \/ c.reply = Error /\ GoOn(c, {}) /\ UNCHANGED <<selected, shownRun>>
     \/ /\ c.reply # Error
        /\ selected' = c.incident
        /\ shownRun' = IF c.reply THEN c.incident ELSE None
        /\ calls' = (calls \ {c}) \cup Follow(c)
             \cup {Call(c.nr, "remediation", c.incident, None, None)}
        /\ enabled' = TRUE
  /\ UNCHANGED <<listed, remediationId, panel>>

\* Mutant: without an answer the panel stays as it is.
RemediationReturnsQuietly(c) ==
  /\ c.kind = "remediation"
  /\ \/ c.reply = Error /\ UNCHANGED <<panel, remediationId>>
     \/ c.reply # Error /\ RenderRemediation(c.reply)
  /\ GoOn(c, {})
  /\ UNCHANGED <<listed, selected, shownRun>>

RemediationReturns(c) ==
  /\ c.kind = "remediation"
  /\ \/ c.reply = Error /\ panel' = None /\ UNCHANGED remediationId
     \/ c.reply # Error /\ RenderRemediation(c.reply)
  /\ GoOn(c, {})
  /\ UNCHANGED <<listed, selected, shownRun>>

DecideReturns(c) ==
  /\ c.kind = "decide"
  /\ \/ c.reply = Error /\ UNCHANGED <<panel, remediationId>>
     \/ c.reply # Error /\ RenderRemediation(c.reply)
  /\ GoOn(c, {})
  /\ UNCHANGED <<listed, selected, shownRun>>

\* Mutant: the button stays disabled when the investigation failed.
InvestigateReturnsOrNot(c) ==
  /\ c.kind = "investigate"
  /\ \/ /\ c.reply = Error
        /\ calls' = calls \ {c}
        /\ UNCHANGED <<shownRun, enabled>>
     \/ /\ c.reply # Error
        /\ shownRun' = c.incident
        /\ calls' = (calls \ {c}) \cup
             {Call(c.nr, "remediation", selected, None, None),
              Call(c.nr, "list", None, None, c.then)}
        /\ UNCHANGED enabled
  /\ UNCHANGED <<listed, selected, remediationId, panel>>

\* The result becomes the page's investigation, the plan of the incident
\* selected by now is asked for, and the list; then the button is enabled.
InvestigateReturns(c) ==
  /\ c.kind = "investigate"
  /\ \/ c.reply = Error /\ GoOn(c, {}) /\ UNCHANGED shownRun
     \/ /\ c.reply # Error
        /\ shownRun' = c.incident
        /\ calls' = (calls \ {c}) \cup
             {Call(c.nr, "remediation", selected, None, None),
              Call(c.nr, "list", None, None, c.then)}
        /\ UNCHANGED enabled
  /\ UNCHANGED <<listed, selected, remediationId, panel>>

\* The list is loaded, then the new incident selected.
CreateReturns(c) ==
  /\ c.kind = "create"
  /\ GoOn(c, IF c.reply = Error THEN {}
             ELSE {Call(c.nr, "list", None, None, c.reply)})
  /\ UNCHANGED <<listed, selected, shownRun, remediationId, panel>>

Returns(c) ==
  /\ c \in calls /\ c.reply # None
  /\ \/ ListReturns(c) \/ DetailReturns(c) \/ RemediationReturns(c)
     \/ DecideReturns(c) \/ InvestigateReturns(c) \/ CreateReturns(c)
  /\ UNCHANGED <<server, history>>

Operate == Refresh \/ Investigate \/ Decide \/ Create \/ \E i \in Incidents : Select(i)
Network == \E c \in calls : Serve(c) \/ Fails(c) \/ Returns(c)

Next == Operate \/ Network \/ \E p \in Plans : Propose(p)

Spec == Init /\ [][Next]_vars

---------------------------------------------------------------------------
(* Properties *)

\* In whatever order calls return: a decision the service accepts is one on
\* the plan the operator saw in the panel, and on a plan of the incident that
\* was selected; where the page mixes two incidents, the service refuses
\* (decideRemediation, renderRemediation and _required_plan).
DecidesWhatIsShown ==
  \A d \in decisions : d.plan = d.shown /\ IncidentOf[d.plan] = d.incident

\* When everything has returned, and the operator never clicked before it had,
\* the page is of one piece: investigation and plan are those of the incident
\* selected, and it can be investigated (selectIncident, loadRemediation and
\* investigate, whose failures leave parts of the page as they were).
QuietPageAgrees ==
  calls = {} /\ ~raced =>
    /\ shownRun \in {selected, None}
    /\ panel # None => IncidentOf[panel.plan] = selected
    /\ enabled <=> selected # None
=============================================================================
