----------------------------- MODULE ConsoleProofs -----------------------------
(***************************************************************************)
(* Proofs about Console, for any incidents, plans and operators.           *)
(*                                                                         *)
(* What the panel shows and what a click decides are tied by remediationId *)
(* whatever else goes wrong.  That a page at rest is of one piece needs    *)
(* what the calls under way are: as long as the operator waits for them,   *)
(* one call leads, and once an incident is selected all others trail it.   *)
(***************************************************************************)
EXTENDS Console, FiniteSetTheorems, WellFoundedInduction, TLAPS

---------------------------------------------------------------------------
(* Least and greatest numbers *)

\* A set of naturals has a least element.
LEMMA LeastNatural ==
  ASSUME NEW S \in SUBSET Nat, S # {}
  PROVE  \E m \in S : \A x \in S : m <= x
<1>1. \A x, y \in Nat : x < y => <<x, y>> \in OpToRel(<, Nat)
  <2>1. OpToRel(<, Nat) = {ss \in Nat \X Nat : ss[1] < ss[2]}
    BY Zenon DEF OpToRel
  <2>2. \A x, y \in Nat : x < y => <<x, y>> \in {ss \in Nat \X Nat : ss[1] < ss[2]}
    OBVIOUS
  <2> QED
    BY Zenon, <2>1, <2>2
<1>2. \E m \in S : \A x \in S : ~ (<<x, m>> \in OpToRel(<, Nat))
  BY Zenon, WFMin, NatLessThanWellFounded
<1>3. \E m \in S : \A x \in S : ~ (x < m)
  BY Zenon, <1>1, <1>2
<1> QED
  BY <1>3

\* What Min finds.
LEMMA MinIs ==
  ASSUME NEW S \in SUBSET Nat, S # {}
  PROVE  Min(S) \in S /\ \A x \in S : Min(S) <= x
  BY LeastNatural DEF Min

\* What Max finds among bounded numbers: what is least below the bound.
LEMMA MaxIs ==
  ASSUME NEW n \in Nat, NEW S \in SUBSET (0 .. n), S # {}
  PROVE  Max(S) \in S /\ \A x \in S : Max(S) >= x
<1> DEFINE Below == {n - x : x \in S}
<1>1. \A x \in S : x \in Nat /\ n - x \in Nat
  OBVIOUS
<1>2. Below \in SUBSET Nat /\ Below # {}
  BY <1>1
<1>3. PICK m \in Below : \A x \in Below : m <= x
  <2> HIDE DEF Below
  <2> QED
    BY <1>2, LeastNatural
<1>4. PICK y \in S : m = n - y
  BY <1>3
<1>5. ASSUME NEW x \in S PROVE y >= x
  <2>1. n - y <= n - x
    BY <1>3, <1>4
  <2> QED
    BY <1>1, <2>1
<1> QED
  BY <1>5 DEF Max

---------------------------------------------------------------------------
(* The inductive invariant *)

TypeOK ==
  /\ incidents \subseteq Incidents /\ listed \subseteq Incidents
  /\ selected \in Incidents \cup {None}
  /\ enabled \in BOOLEAN /\ raced \in BOOLEAN

\* Incidents are created in their order.
Oldest == \A i \in incidents, j \in Incidents : j <= i => j \in incidents

IsCall(c) ==
  c = [nr |-> c.nr, kind |-> c.kind, incident |-> c.incident, plan |-> c.plan,
       then |-> c.then, shown |-> c.shown, reply |-> c.reply]

Answer(c) == c.reply # None /\ c.reply # Error

\* A call and its answer, by themselves.
Proper(c) ==
  /\ IsCall(c)
  /\ c.then \in Incidents \cup {None, EnableButton}
  /\ c.kind = "list" /\ Answer(c) => c.reply \subseteq Incidents
  /\ c.kind = "detail" => c.incident \in Incidents
  /\ c.kind = "remediation" /\ Answer(c) => IncidentOf[c.reply.plan] = c.incident
  /\ c.kind = "decide" =>
       c.plan = c.shown /\ (Answer(c) => IncidentOf[c.reply.plan] = c.incident)
  /\ c.kind = "create" /\ Answer(c) => c.reply \in Incidents

\* A click decides what the panel shows.
PanelIsKept == panel # None => panel.plan = remediationId

\* The button is disabled only while a call is under way that enables it.
Button ==
  /\ enabled => selected # None
  /\ selected # None /\ ~enabled => \E c \in calls : c.then = EnableButton
  /\ \A c \in calls : c.then = EnableButton => selected # None

Newest(i) == i \in incidents /\ \A j \in incidents : j <= i

\* The one call that decides what comes next.
Leads(c) ==
  /\ c.kind # "remediation"
  /\ c.kind = "list" /\ c.then \in Incidents =>
       Newest(c.then) /\ (Answer(c) => c.reply = incidents)
  /\ c.kind = "detail" /\ c.then \in Incidents => c.then = c.incident
  /\ c.kind = "create" => c.then \notin Incidents /\ (Answer(c) => Newest(c.reply))
  /\ c.kind \in {"decide", "investigate"} =>
       c.incident = selected /\ c.then \notin Incidents
  /\ c.kind = "investigate" => selected # None

\* Calls that follow a selection.
Trails(c) ==
  /\ c.kind \in {"list", "detail", "remediation"} /\ c.then \notin Incidents
  /\ c.kind # "list" => c.incident = selected

Course ==
  \/ calls = {}
  \/ \E c \in calls : calls = {c} /\ Leads(c)
  \/ selected \in Incidents /\ \A c \in calls : Trails(c)

\* What the operator who waits can rely on.
Tidy ==
  /\ Course
  /\ shownRun \in {selected, None}
  /\ panel # None => \/ IncidentOf[panel.plan] = selected
                     \/ \E c \in calls : c.kind = "remediation"

IInv ==
  /\ TypeOK /\ Oldest
  /\ \A c \in calls : Proper(c)
  /\ DecidesWhatIsShown /\ PanelIsKept /\ Button
  /\ ~raced => Tidy

---------------------------------------------------------------------------
(* Lemmas about calls *)

\* A call as it is made.
LEMMA CallIs ==
  ASSUME NEW nr, NEW kind, NEW incident, NEW plan, NEW then,
         NEW c, c = Call(nr, kind, incident, plan, then)
  PROVE  /\ IsCall(c) /\ ~Answer(c)
         /\ c.kind = kind /\ c.incident = incident /\ c.plan = plan /\ c.then = then
         /\ kind = "decide" => c.shown = panel.plan
  BY DEF Call, IsCall, Answer

\* A call and its answer are one call.
SameCall(c, d) ==
  /\ IsCall(d)
  /\ d.kind = c.kind /\ d.incident = c.incident /\ d.plan = c.plan
  /\ d.then = c.then /\ d.shown = c.shown

LEMMA AnsweredCall ==
  ASSUME NEW c, IsCall(c), NEW reply, NEW d, d = [c EXCEPT !.reply = reply]
  PROVE  SameCall(c, d) /\ d.reply = reply
<1>1. d = [nr |-> c.nr, kind |-> c.kind, incident |-> c.incident, plan |-> c.plan,
           then |-> c.then, shown |-> c.shown, reply |-> reply]
  BY DEF IsCall
<1> QED
  BY <1>1 DEF SameCall, IsCall

\* None, the button's zero and the incidents are three different things.
LEMMA Targets == EnableButton \notin Incidents /\ None \notin Incidents /\ None # EnableButton
<1>1. 0 \in Nat
  OBVIOUS
<1>2. Incidents \subseteq Nat \ {0} /\ None \notin Nat
  BY ConsoleAssumption
<1> QED
  BY Zenon, <1>1, <1>2 DEF EnableButton

\* What a handler goes on with.
LEMMA FollowIs ==
  ASSUME NEW c, Proper(c)
  PROVE  /\ c.then \notin Incidents => Follow(c) = {}
         /\ c.then \in Incidents =>
              \E d : /\ Follow(c) = {d} /\ Proper(d) /\ d.kind = "detail"
                    /\ d.incident = c.then /\ d.then = None
<1>1. ASSUME c.then \in Incidents
      PROVE  \E d : /\ Follow(c) = {d} /\ Proper(d) /\ d.kind = "detail"
                   /\ d.incident = c.then /\ d.then = None
  <2>1. PICK d : d = Call(c.nr, "detail", c.then, None, None)
    OBVIOUS
  <2>2. Follow(c) = {d}
    BY <1>1, <2>1 DEF Follow
  <2>3. /\ IsCall(d) /\ ~Answer(d) /\ d.kind = "detail" /\ d.incident = c.then
        /\ d.then = None
    BY <2>1, CallIs
  <2>4. Proper(d)
    BY <1>1, <2>3 DEF Proper
  <2> QED
    BY <2>2, <2>3, <2>4
<1> QED
  BY <1>1 DEF Follow

\* The button when a call returns: it is enabled, or left to what follows.
LEMMA ButtonStays ==
  ASSUME IInv, NEW c \in calls, NEW more, calls' = (calls \ {c}) \cup more,
         selected # None => selected' # None,
         \A d \in more : d.then = EnableButton => c.then = EnableButton,
         \/ enabled' = TRUE /\ selected' # None
         \/ /\ enabled' = enabled /\ selected' = selected
            /\ c.then = EnableButton => \E d \in more : d.then = EnableButton
  PROVE  Button'
<1>1. Button
  BY DEF IInv
<1>2. \A d \in calls' : d.then = EnableButton => selected' # None
  BY <1>1 DEF Button
<1>3. CASE enabled' = TRUE /\ selected' # None
  BY <1>2, <1>3 DEF Button
<1>4. CASE /\ enabled' = enabled /\ selected' = selected
           /\ c.then = EnableButton => \E d \in more : d.then = EnableButton
  <2>1. ASSUME selected # None, ~enabled PROVE \E d \in calls' : d.then = EnableButton
    <3>1. PICK d \in calls : d.then = EnableButton
      BY <1>1, <2>1 DEF Button
    <3>2. CASE d = c
      BY <1>4, <3>1, <3>2
    <3>3. CASE d # c
      BY <3>1, <3>3
    <3> QED
      BY <3>2, <3>3
  <2> QED
    BY <1>1, <1>2, <1>4, <2>1 DEF Button
<1> QED
  BY <1>3, <1>4

---------------------------------------------------------------------------
(* Steps *)

\* The operator clicks.
LEMMA ClickStep ==
  ASSUME IInv, NEW kind, NEW incident, NEW plan, NEW then,
         Click(kind, incident, plan, then),
         UNCHANGED <<listed, selected, shownRun, remediationId, panel>>,
         then \in {None, EnableButton}, then = EnableButton => selected # None,
         \/ enabled' = enabled
         \/ enabled' = FALSE /\ then = EnableButton,
         kind # "remediation",
         kind = "detail" => incident \in Incidents,
         kind = "decide" => plan = panel.plan,
         kind \in {"decide", "investigate"} => incident = selected,
         kind = "investigate" => selected # None
  PROVE  IInv'
<1>1. PICK c : c = Call(clicks + 1, kind, incident, plan, then)
  OBVIOUS
<1>2. /\ IsCall(c) /\ ~Answer(c)
      /\ c.kind = kind /\ c.incident = incident /\ c.plan = plan /\ c.then = then
      /\ kind = "decide" => c.shown = panel.plan
  BY <1>1, CallIs
<1>3. /\ calls' = calls \cup {c} /\ raced' = (raced \/ calls # {})
      /\ UNCHANGED <<incidents, decisions>>
  BY <1>1 DEF Click, server
<1>4. TypeOK'
  BY <1>3 DEF IInv, TypeOK
<1>5. Oldest' /\ DecidesWhatIsShown' /\ PanelIsKept'
  BY <1>3 DEF IInv, Oldest, DecidesWhatIsShown, PanelIsKept
<1>6. Proper(c)
  BY <1>2 DEF Proper
<1>7. \A d \in calls' : Proper(d)
  BY <1>3, <1>6 DEF IInv
<1>8. Button'
  BY <1>2, <1>3 DEF IInv, Button
<1>9. ASSUME ~raced' PROVE Tidy'
  <2>1. ~raced /\ calls = {} /\ Tidy
    BY <1>3, <1>9 DEF IInv
  <2>2. calls' = {c}
    BY <1>3, <2>1
  <2>3. Leads(c)'
    BY <1>2, Targets DEF Leads
  <2>4. Course'
    BY <2>2, <2>3 DEF Course
  <2> QED
    BY <2>1, <2>4 DEF Tidy
<1> QED
  BY <1>4, <1>5, <1>7, <1>8, <1>9 DEF IInv

LEMMA OperateStep ==
  ASSUME IInv, Operate
  PROVE  IInv'
<1>1. CASE Refresh
  BY <1>1, ClickStep, Targets DEF Refresh, page
<1>2. ASSUME NEW i \in Incidents, Select(i) PROVE IInv'
  BY <1>2, ClickStep, Targets DEF Select, page
<1>3. CASE Investigate
  BY <1>3, ClickStep, Targets DEF Investigate
<1>4. CASE Decide
  <2>1. remediationId = panel.plan
    BY <1>4 DEF Decide, IInv, PanelIsKept
  <2> QED
    BY <1>4, <2>1, ClickStep, Targets DEF Decide, page
<1>5. CASE Create
  BY <1>5, ClickStep, Targets DEF Create, page
<1> QED
  BY <1>1, <1>2, <1>3, <1>4, <1>5 DEF Operate

\* A call is answered.
LEMMA AnswerStep ==
  ASSUME IInv, NEW c \in calls, NEW d, SameCall(c, d), Proper(d),
         calls' = (calls \ {c}) \cup {d},
         UNCHANGED <<listed, selected, shownRun, remediationId, panel, enabled, raced>>,
         TypeOK', Oldest', DecidesWhatIsShown',
         incidents' = incidents \/ c.kind = "create",
         c.kind = "list" /\ Answer(d) => d.reply = incidents,
         c.kind = "create" /\ Answer(d) => Newest(d.reply)'
  PROVE  IInv'
<1>1. \A e \in calls' : Proper(e)
  BY DEF IInv
<1>2. PanelIsKept'
  BY DEF IInv, PanelIsKept
<1>3. Button'
  BY ButtonStays DEF SameCall
<1>4. ASSUME ~raced' PROVE Tidy'
  <2>1. Tidy
    BY <1>4 DEF IInv
  <2>2. ASSUME calls = {c}, Leads(c) PROVE Course'
    <3>1. calls' = {d}
      BY <2>2
    <3>2. Leads(d)'
      BY <2>2 DEF Leads, SameCall, Newest
    <3> QED
      BY <3>1, <3>2 DEF Course
  <2>3. ASSUME selected \in Incidents, \A e \in calls : Trails(e) PROVE Course'
    <3>1. Trails(d)
      BY <2>3 DEF Trails, SameCall
    <3>2. \A e \in calls' : Trails(e)'
      BY <2>3, <3>1 DEF Trails
    <3> QED
      BY <2>3, <3>2 DEF Course
  <2>4. Course'
    BY <2>1, <2>2, <2>3 DEF Tidy, Course
  <2>5. (\E e \in calls : e.kind = "remediation") =>
          \E e \in calls' : e.kind = "remediation"
    BY DEF SameCall
  <2> QED
    BY <2>1, <2>4, <2>5 DEF Tidy
<1> QED
  BY <1>1, <1>2, <1>3, <1>4 DEF IInv

LEMMA AnsweredIs ==
  ASSUME IInv, NEW c \in calls, NEW reply, Answered(c, reply)
  PROVE  \E d : SameCall(c, d) /\ d.reply = reply /\ calls' = (calls \ {c}) \cup {d}
<1>1. PICK d : d = [c EXCEPT !.reply = reply]
  OBVIOUS
<1>2. IsCall(c)
  BY DEF IInv, Proper
<1>3. SameCall(c, d) /\ d.reply = reply
  BY <1>1, <1>2, AnsweredCall
<1>4. calls' = (calls \ {c}) \cup {d}
  BY <1>1 DEF Answered
<1> QED
  BY <1>3, <1>4

\* Incidents and plans are numbered, and finitely many.
LEMMA NumbersAre ==
  /\ Incidents \subseteq Nat \ {0} /\ Plans \subseteq Nat \ {0} /\ IsFiniteSet(Incidents)
  /\ \E n \in Nat : Incidents \subseteq 0 .. n /\ Plans \subseteq 0 .. n
<1>1. PICK last \in Incidents \cup Plans \cup {0} : Incidents \cup Plans \subseteq 1 .. last
  BY ConsoleAssumption
<1>2. last \in Nat
  BY <1>1
<1>3. IsFiniteSet(1 .. last)
  BY <1>2, FS_Interval
<1>4. IsFiniteSet(Incidents)
  BY <1>1, <1>3, FS_Subset
<1> QED
  BY <1>1, <1>2, <1>4

\* The plan that is read for an incident is a plan of that incident.
LEMMA PlanRead ==
  ASSUME NEW i, Proposed(i) # {}
  PROVE  IncidentOf[Read(Max(Proposed(i))).plan] = i
<1>1. PICK n \in Nat : Plans \subseteq 0 .. n
  BY NumbersAre
<1>2. Proposed(i) \in SUBSET (0 .. n)
  BY <1>1 DEF Proposed
<1>3. Max(Proposed(i)) \in Proposed(i)
  BY <1>2, MaxIs
<1> QED
  BY <1>3 DEF Proposed, Read

\* The next incident is the newest.
LEMMA NextIncident ==
  ASSUME IInv, Incidents # incidents, NEW i, i = Min(Incidents \ incidents),
         incidents' = incidents \cup {i}
  PROVE  i \in Incidents /\ Newest(i)' /\ Oldest' /\ incidents' \subseteq Incidents
<1>1. incidents \subseteq Incidents /\ Incidents \subseteq Nat /\ Oldest
  BY NumbersAre DEF IInv, TypeOK
<1>2. Incidents \ incidents \in SUBSET Nat /\ Incidents \ incidents # {}
  BY <1>1
<1>3. i \in Incidents \ incidents /\ \A x \in Incidents \ incidents : i <= x
  BY <1>2, MinIs
<1>4. ASSUME NEW j \in incidents PROVE j <= i
  <2>1. ~ (i <= j)
    BY <1>1, <1>3 DEF Oldest
  <2> QED
    BY <1>1, <1>3, <2>1
<1>5. ASSUME NEW j \in Incidents, j <= i PROVE j \in incidents'
  <2>1. j \notin incidents => i <= j
    BY <1>3
  <2> QED
    BY <1>1, <1>3, <1>5, <2>1
<1>6. Oldest'
  BY <1>1, <1>5 DEF Oldest
<1>7. Newest(i)'
  BY <1>1, <1>3, <1>4 DEF Newest
<1> QED
  BY <1>1, <1>3, <1>6, <1>7

LEMMA ServeStep ==
  ASSUME IInv, NEW c \in calls, Serve(c)
  PROVE  IInv'
<1>1. /\ c.reply = None /\ Proper(c)
      /\ UNCHANGED <<listed, selected, shownRun, remediationId, panel, enabled, raced>>
  BY DEF Serve, page, IInv
<1>2. CASE c.kind = "list" /\ Answered(c, incidents) /\ UNCHANGED <<server, decisions>>
  <2>1. PICK d : SameCall(c, d) /\ d.reply = incidents /\ calls' = (calls \ {c}) \cup {d}
    BY <1>2, AnsweredIs
  <2>2. Proper(d)
    BY <1>1, <1>2, <2>1 DEF Proper, SameCall, IInv, TypeOK
  <2>3. incidents' = incidents /\ TypeOK' /\ Oldest' /\ DecidesWhatIsShown'
    BY <1>1, <1>2 DEF IInv, TypeOK, Oldest, DecidesWhatIsShown, server
  <2> QED
    BY <1>1, <1>2, <2>1, <2>2, <2>3, AnswerStep
<1>3. CASE /\ c.kind = "detail" /\ Answered(c, c.incident \in investigated)
           /\ UNCHANGED <<server, decisions>>
  <2>1. PICK d : SameCall(c, d) /\ calls' = (calls \ {c}) \cup {d}
    BY <1>3, AnsweredIs
  <2>2. Proper(d)
    BY <1>1, <1>3, <2>1 DEF Proper, SameCall
  <2>3. incidents' = incidents /\ TypeOK' /\ Oldest' /\ DecidesWhatIsShown'
    BY <1>1, <1>3 DEF IInv, TypeOK, Oldest, DecidesWhatIsShown, server
  <2> QED
    BY <1>1, <1>3, <2>1, <2>2, <2>3, AnswerStep
<1>4. CASE /\ c.kind = "remediation" /\ Proposed(c.incident) # {}
           /\ Answered(c, Read(Max(Proposed(c.incident))))
           /\ UNCHANGED <<server, decisions>>
  <2>1. PICK d : /\ SameCall(c, d) /\ calls' = (calls \ {c}) \cup {d}
                 /\ d.reply = Read(Max(Proposed(c.incident)))
    BY <1>4, AnsweredIs
  <2>2. Proper(d)
    BY <1>1, <1>4, <2>1, PlanRead DEF Proper, SameCall
  <2>3. incidents' = incidents /\ TypeOK' /\ Oldest' /\ DecidesWhatIsShown'
    BY <1>1, <1>4 DEF IInv, TypeOK, Oldest, DecidesWhatIsShown, server
  <2> QED
    BY <1>1, <1>4, <2>1, <2>2, <2>3, AnswerStep
<1>5. CASE /\ c.kind = "decide" /\ Accepts(c)
           /\ Answered(c, [plan |-> c.plan, status |-> "decided"])
           /\ decisions' = decisions \cup
                {[plan |-> c.plan, shown |-> c.shown, incident |-> c.incident]}
           /\ UNCHANGED <<incidents, investigated>>
  <2>1. PICK d : /\ SameCall(c, d) /\ calls' = (calls \ {c}) \cup {d}
                 /\ d.reply = [plan |-> c.plan, status |-> "decided"]
    BY <1>5, AnsweredIs
  <2>2. IncidentOf[c.plan] = c.incident /\ c.plan = c.shown
    BY <1>1, <1>5 DEF Accepts, Proper
  <2>3. Proper(d)
    BY <1>1, <1>5, <2>1, <2>2 DEF Proper, SameCall
  <2>4. incidents' = incidents /\ TypeOK' /\ Oldest'
    BY <1>1, <1>5 DEF IInv, TypeOK, Oldest
  <2>5. DecidesWhatIsShown'
    BY <1>5, <2>2 DEF IInv, DecidesWhatIsShown
  <2> QED
    BY <1>1, <1>5, <2>1, <2>3, <2>4, <2>5, AnswerStep
<1>6. CASE /\ c.kind = "investigate" /\ Answered(c, TRUE)
           /\ UNCHANGED <<incidents, status, decisions>>
  <2>1. PICK d : SameCall(c, d) /\ calls' = (calls \ {c}) \cup {d}
    BY <1>6, AnsweredIs
  <2>2. Proper(d)
    BY <1>1, <1>6, <2>1 DEF Proper, SameCall
  <2>3. incidents' = incidents /\ TypeOK' /\ Oldest' /\ DecidesWhatIsShown'
    BY <1>1, <1>6 DEF IInv, TypeOK, Oldest, DecidesWhatIsShown
  <2> QED
    BY <1>1, <1>6, <2>1, <2>2, <2>3, AnswerStep
<1>7. CASE /\ c.kind = "create" /\ Incidents # incidents
           /\ incidents' = incidents \cup {Min(Incidents \ incidents)}
           /\ Answered(c, Min(Incidents \ incidents))
           /\ UNCHANGED <<investigated, status, decisions>>
  <2>1. PICK i : i = Min(Incidents \ incidents)
    OBVIOUS
  <2>2. PICK d : SameCall(c, d) /\ calls' = (calls \ {c}) \cup {d} /\ d.reply = i
    BY <1>7, <2>1, AnsweredIs
  <2>3. i \in Incidents /\ Newest(i)' /\ Oldest' /\ incidents' \subseteq Incidents
    BY <1>7, <2>1, NextIncident
  <2>4. Proper(d)
    BY <1>1, <1>7, <2>2, <2>3 DEF Proper, SameCall
  <2>5. TypeOK' /\ DecidesWhatIsShown'
    BY <1>1, <1>7, <2>3 DEF IInv, TypeOK, DecidesWhatIsShown
  <2> QED
    BY <1>1, <1>7, <2>2, <2>3, <2>4, <2>5, AnswerStep
<1> QED
  BY <1>2, <1>3, <1>4, <1>5, <1>6, <1>7 DEF Serve

LEMMA FailsStep ==
  ASSUME IInv, NEW c \in calls, Fails(c)
  PROVE  IInv'
<1>1. PICK d : SameCall(c, d) /\ d.reply = Error /\ calls' = (calls \ {c}) \cup {d}
  BY AnsweredIs DEF Fails
<1>2. Proper(c) /\ ~Answer(d)
  BY <1>1 DEF IInv, Answer
<1>3. Proper(d)
  BY <1>1, <1>2 DEF Proper, SameCall
<1>4. UNCHANGED <<incidents, listed, selected, shownRun, remediationId, panel, enabled,
                  raced, decisions>>
  BY DEF Fails, page, server, history
<1>5. TypeOK' /\ Oldest' /\ DecidesWhatIsShown'
  BY <1>4 DEF IInv, TypeOK, Oldest, DecidesWhatIsShown
<1> QED
  BY <1>1, <1>2, <1>3, <1>4, <1>5, AnswerStep

\* A handler is over, or goes on to select the incident it was told to.
LEMMA GoOnStep ==
  ASSUME IInv, NEW c \in calls, GoOn(c, {}),
         UNCHANGED <<incidents, selected, raced, decisions>>,
         listed' \subseteq Incidents, PanelIsKept',
         ~raced => shownRun' \in {selected, None},
         ~raced /\ panel' # None =>
           \/ IncidentOf[panel'.plan] = selected
           \/ \E d \in calls \ {c} : d.kind = "remediation"
  PROVE  IInv'
<1>1. /\ calls' = (calls \ {c}) \cup Follow(c) /\ Proper(c)
      /\ enabled' = (enabled \/ c.then = EnableButton)
  BY DEF GoOn, IInv
<1>2. TypeOK' /\ Oldest' /\ DecidesWhatIsShown'
  BY <1>1 DEF IInv, TypeOK, Oldest, DecidesWhatIsShown
<1>3. \A d \in Follow(c) : Proper(d) /\ d.kind = "detail" /\ d.then = None
  BY <1>1, FollowIs
<1>4. \A d \in calls' : Proper(d)
  BY <1>1, <1>3 DEF IInv
<1>5. Button'
  <2>1. \A d \in Follow(c) : d.then # EnableButton
    BY <1>3, Targets
  <2>2. CASE c.then = EnableButton
    <3>1. enabled' = TRUE /\ selected' # None
      BY <1>1, <2>2 DEF IInv, Button
    <3> QED
      BY <1>1, <2>1, <3>1, ButtonStays
  <2>3. CASE c.then # EnableButton
    <3>1. enabled' = enabled
      BY <1>1, <2>3 DEF IInv, TypeOK
    <3> QED
      BY <1>1, <2>1, <2>3, <3>1, ButtonStays
  <2> QED
    BY <2>2, <2>3
<1>6. ASSUME ~raced' PROVE Tidy'
  <2>1. Tidy
    BY <1>6 DEF IInv
  <2>2. ASSUME calls = {c}, Leads(c) PROVE Course'
    <3>1. CASE Follow(c) = {}
      BY <1>1, <2>2, <3>1 DEF Course
    <3>2. ASSUME NEW d, Follow(c) = {d}, d.kind = "detail", d.then = None PROVE Course'
      <4>1. Leads(d)'
        BY <3>2, Targets DEF Leads
      <4> QED
        BY <1>1, <2>2, <3>2, <4>1 DEF Course
    <3> QED
      BY <1>1, <3>1, <3>2, FollowIs
  <2>3. ASSUME selected \in Incidents, \A e \in calls : Trails(e) PROVE Course'
    <3>1. Follow(c) = {}
      BY <1>1, <2>3, FollowIs DEF Trails
    <3>2. \A e \in calls' : Trails(e)'
      BY <1>1, <2>3, <3>1 DEF Trails
    <3> QED
      BY <2>3, <3>2 DEF Course
  <2>4. Course'
    BY <2>1, <2>2, <2>3 DEF Tidy, Course
  <2>5. calls \ {c} \subseteq calls'
    BY <1>1
  <2> QED
    BY <1>6, <2>4, <2>5 DEF Tidy
<1> QED
  BY <1>2, <1>4, <1>5, <1>6 DEF IInv

\* What is not touched by a call that is no remediation still agrees.
LEMMA PanelStays ==
  ASSUME IInv, NEW c \in calls, c.kind # "remediation", UNCHANGED <<panel, remediationId>>
  PROVE  /\ PanelIsKept'
         /\ ~raced /\ panel' # None =>
              \/ IncidentOf[panel'.plan] = selected
              \/ \E d \in calls \ {c} : d.kind = "remediation"
  BY DEF IInv, PanelIsKept, Tidy

\* Calls that a handler makes when it returns, one after or beside another.
LEMMA CallsMade ==
  ASSUME IInv, NEW c \in calls, NEW more, calls' = (calls \ {c}) \cup more,
         \A d \in more : Proper(d)
  PROVE  \A d \in calls' : Proper(d)
  BY DEF IInv

LEMMA ListStep ==
  ASSUME IInv, NEW c \in calls, c.reply # None, ListReturns(c),
         UNCHANGED <<incidents, raced, decisions>>
  PROVE  IInv'
<1>1. /\ c.kind = "list" /\ Proper(c)
      /\ UNCHANGED <<selected, shownRun, remediationId, panel>>
  BY DEF ListReturns, IInv
<1>2. listed' \subseteq Incidents
  BY <1>1 DEF ListReturns, IInv, TypeOK, Proper, Answer
<1>3. CASE GoOn(c, {})
  <2>1. ~raced => shownRun' \in {selected, None}
    BY <1>1 DEF IInv, Tidy
  <2> QED
    BY <1>1, <1>2, <1>3, <2>1, PanelStays, GoOnStep
<1>4. CASE /\ c.reply # Error /\ selected = None /\ c.reply # {}
           /\ calls' = (calls \ {c}) \cup {Call(c.nr, "detail", Max(c.reply), None, c.then)}
           /\ UNCHANGED enabled
  <2>1. PICK i : i = Max(c.reply)
    OBVIOUS
  <2>2. PICK d : d = Call(c.nr, "detail", i, None, c.then)
    OBVIOUS
  <2>3. PICK n \in Nat : Incidents \subseteq 0 .. n
    BY NumbersAre
  <2>4. c.reply \in SUBSET (0 .. n)
    BY <1>1, <1>4, <2>3 DEF Proper, Answer
  <2>5. i \in c.reply /\ \A x \in c.reply : i >= x
    BY <1>4, <2>1, <2>4, MaxIs
  <2>6. /\ IsCall(d) /\ ~Answer(d) /\ d.kind = "detail" /\ d.incident = i
        /\ d.then = c.then
    BY <2>2, CallIs
  <2>7. Proper(d)
    BY <1>1, <1>4, <2>5, <2>6 DEF Proper, Answer
  <2>8. calls' = (calls \ {c}) \cup {d}
    BY <1>4, <2>1, <2>2
  <2>9. \A e \in calls' : Proper(e)
    BY <2>7, <2>8, CallsMade
  <2>10. TypeOK' /\ Oldest' /\ DecidesWhatIsShown' /\ PanelIsKept'
    BY <1>1, <1>2, <1>4 DEF IInv, TypeOK, Oldest, DecidesWhatIsShown, PanelIsKept
  <2>11. Button'
    <3>1. \A e \in {d} : e.then = EnableButton => c.then = EnableButton
      BY <2>6
    <3>2. c.then = EnableButton => \E e \in {d} : e.then = EnableButton
      BY <2>6
    <3>3. enabled' = enabled /\ selected' = selected
      BY <1>1, <1>4
    <3> QED
      BY <2>8, <3>1, <3>2, <3>3, ButtonStays
  <2>12. ASSUME ~raced' PROVE Tidy'
    <3>1. Tidy
      BY <2>12 DEF IInv
    <3>2. calls = {c} /\ Leads(c)
      BY <1>4, <3>1, Targets DEF Tidy, Course
    <3>3. c.then \in Incidents => c.then = i
      <4> SUFFICES ASSUME c.then \in Incidents PROVE c.then = i
        OBVIOUS
      <4>1. c.reply = incidents /\ Newest(c.then)
        BY <1>1, <1>4, <3>2 DEF Leads, Answer
      <4>2. i <= c.then /\ c.then \in c.reply
        BY <2>5, <4>1 DEF Newest
      <4>3. c.then \in Nat /\ i \in Nat /\ i >= c.then
        BY <2>4, <2>5, <4>2
      <4> QED
        BY <4>2, <4>3
    <3>4. Leads(d)'
      BY <2>6, <3>3 DEF Leads
    <3>5. Course'
      BY <2>8, <3>2, <3>4 DEF Course
    <3> QED
      BY <1>1, <3>1, <3>2, <3>5 DEF Tidy
  <2> QED
    BY <2>9, <2>10, <2>11, <2>12 DEF IInv
<1> QED
  BY <1>3, <1>4 DEF ListReturns

LEMMA DetailStep ==
  ASSUME IInv, NEW c \in calls, c.reply # None, DetailReturns(c),
         UNCHANGED <<incidents, raced, decisions>>
  PROVE  IInv'
<1>1. /\ c.kind = "detail" /\ Proper(c) /\ c.incident \in Incidents
      /\ UNCHANGED <<listed, remediationId, panel>>
  BY DEF DetailReturns, IInv, Proper
<1>2. CASE c.reply = Error /\ GoOn(c, {}) /\ UNCHANGED <<selected, shownRun>>
  <2>1. ~raced => shownRun' \in {selected, None}
    BY <1>2 DEF IInv, Tidy
  <2>2. listed' \subseteq Incidents
    BY <1>1 DEF IInv, TypeOK
  <2> QED
    BY <1>1, <1>2, <2>1, <2>2, PanelStays, GoOnStep
<1>3. CASE /\ c.reply # Error /\ selected' = c.incident
           /\ shownRun' = (IF c.reply THEN c.incident ELSE None)
           /\ calls' = (calls \ {c}) \cup Follow(c)
                \cup {Call(c.nr, "remediation", c.incident, None, None)}
           /\ enabled' = TRUE
  <2>1. PICK d : d = Call(c.nr, "remediation", c.incident, None, None)
    OBVIOUS
  <2>2. /\ IsCall(d) /\ ~Answer(d) /\ d.kind = "remediation"
        /\ d.incident = c.incident /\ d.then = None
    BY <2>1, CallIs
  <2>3. Proper(d)
    BY <2>2 DEF Proper
  <2>4. \A e \in Follow(c) : /\ Proper(e) /\ e.kind = "detail" /\ e.then = None
                             /\ e.incident = c.then /\ c.then \in Incidents
    BY <1>1, FollowIs
  <2>5. calls' = (calls \ {c}) \cup (Follow(c) \cup {d})
    BY <1>3, <2>1
  <2>6. \A e \in calls' : Proper(e)
    BY <2>3, <2>4, <2>5, CallsMade
  <2>7. selected' \in Incidents /\ selected' # None
    BY <1>1, <1>3, Targets
  <2>8. TypeOK' /\ Oldest' /\ DecidesWhatIsShown' /\ PanelIsKept'
    BY <1>1, <1>3, <2>7 DEF IInv, TypeOK, Oldest, DecidesWhatIsShown, PanelIsKept
  <2>9. Button'
    <3>1. \A e \in Follow(c) \cup {d} : e.then # EnableButton
      BY <2>2, <2>4, Targets
    <3> QED
      BY <1>3, <2>5, <2>7, <3>1, ButtonStays
  <2>10. ASSUME ~raced' PROVE Tidy'
    <3>1. Tidy
      BY <2>10 DEF IInv
    <3>2. \A e \in Follow(c) \cup {d} : Trails(e)'
      <4>1. Trails(d)'
        BY <1>3, <2>2, Targets DEF Trails
      <4>2. ASSUME NEW e \in Follow(c) PROVE Trails(e)'
        <5>1. c.then = c.incident
          BY <1>1, <2>4, <3>1 DEF Tidy, Course, Leads, Trails
        <5> QED
          BY <1>3, <2>4, <5>1, Targets DEF Trails
      <4> QED
        BY <4>1, <4>2
    <3>3. \A e \in calls \ {c} : Trails(e)'
      BY <1>1, <1>3, <3>1 DEF Tidy, Course, Trails
    <3>4. Course'
      BY <2>5, <2>7, <3>2, <3>3 DEF Course
    <3>5. d \in calls'
      BY <2>5
    <3> QED
      BY <1>3, <2>2, <3>4, <3>5 DEF Tidy
  <2> QED
    BY <2>6, <2>8, <2>9, <2>10 DEF IInv
<1> QED
  BY <1>2, <1>3 DEF DetailReturns

\* The panel takes what was answered.
LEMMA RenderStep ==
  ASSUME IInv, NEW c \in calls, c.reply # None,
         RemediationReturns(c) \/ DecideReturns(c),
         UNCHANGED <<incidents, raced, decisions>>
  PROVE  IInv'
<1>1. /\ c.kind \in {"remediation", "decide"} /\ Proper(c) /\ GoOn(c, {})
      /\ UNCHANGED <<listed, selected, shownRun>>
  BY DEF RemediationReturns, DecideReturns, IInv
<1>2. listed' \subseteq Incidents /\ (~raced => shownRun' \in {selected, None})
  BY <1>1 DEF IInv, TypeOK, Tidy
<1>3. CASE c.kind = "decide" /\ UNCHANGED <<panel, remediationId>>
  BY <1>1, <1>2, <1>3, PanelStays, GoOnStep
<1>4. CASE panel' = None
  <2>1. PanelIsKept'
    BY <1>4 DEF PanelIsKept
  <2> QED
    BY <1>1, <1>2, <1>4, <2>1, GoOnStep
<1>5. CASE c.reply # Error /\ RenderRemediation(c.reply)
  <2>1. /\ PanelIsKept' /\ panel' = c.reply
        /\ IncidentOf[c.reply.plan] = c.incident
    BY <1>1, <1>5 DEF RenderRemediation, PanelIsKept, Proper, Answer
  <2>2. ~raced => c.incident = selected
    BY <1>1 DEF IInv, Tidy, Course, Leads, Trails
  <2> QED
    BY <1>1, <1>2, <2>1, <2>2, GoOnStep
<1> QED
  BY <1>3, <1>4, <1>5 DEF RemediationReturns, DecideReturns

LEMMA InvestigateStep ==
  ASSUME IInv, NEW c \in calls, c.reply # None, InvestigateReturns(c),
         UNCHANGED <<incidents, raced, decisions>>
  PROVE  IInv'
<1>1. /\ c.kind = "investigate" /\ Proper(c)
      /\ UNCHANGED <<listed, selected, remediationId, panel>>
  BY DEF InvestigateReturns, IInv
<1>2. ~raced => /\ Tidy /\ calls = {c} /\ c.incident = selected /\ c.then \notin Incidents
                /\ selected # None
  BY <1>1 DEF IInv, Tidy, Course, Leads, Trails
<1>3. CASE c.reply = Error /\ GoOn(c, {}) /\ UNCHANGED shownRun
  <2>1. listed' \subseteq Incidents /\ (~raced => shownRun' \in {selected, None})
    BY <1>1, <1>2, <1>3 DEF IInv, TypeOK, Tidy
  <2> QED
    BY <1>1, <1>3, <2>1, PanelStays, GoOnStep
<1>4. CASE /\ c.reply # Error /\ shownRun' = c.incident
           /\ calls' = (calls \ {c}) \cup
                {Call(c.nr, "remediation", selected, None, None),
                 Call(c.nr, "list", None, None, c.then)}
           /\ UNCHANGED enabled
  <2>1. PICK r, l : /\ r = Call(c.nr, "remediation", selected, None, None)
                    /\ l = Call(c.nr, "list", None, None, c.then)
    OBVIOUS
  <2>2. /\ IsCall(r) /\ ~Answer(r) /\ r.kind = "remediation" /\ r.incident = selected
        /\ r.then = None
    BY <2>1, CallIs
  <2>3. IsCall(l) /\ ~Answer(l) /\ l.kind = "list" /\ l.then = c.then
    BY <2>1, CallIs
  <2>4. Proper(r) /\ Proper(l)
    BY <1>1, <2>2, <2>3 DEF Proper
  <2>5. calls' = (calls \ {c}) \cup {r, l}
    BY <1>4, <2>1
  <2>6. \A e \in calls' : Proper(e)
    BY <2>4, <2>5, CallsMade
  <2>7. TypeOK' /\ Oldest' /\ DecidesWhatIsShown' /\ PanelIsKept'
    BY <1>1, <1>4 DEF IInv, TypeOK, Oldest, DecidesWhatIsShown, PanelIsKept
  <2>8. Button'
    <3>1. \A e \in {r, l} : e.then = EnableButton => c.then = EnableButton
      BY <2>2, <2>3, Targets
    <3>2. c.then = EnableButton => \E e \in {r, l} : e.then = EnableButton
      BY <2>3
    <3>3. enabled' = enabled /\ selected' = selected
      BY <1>1, <1>4
    <3> QED
      BY <2>5, <3>1, <3>2, <3>3, ButtonStays
  <2>9. ASSUME ~raced' PROVE Tidy'
    <3>1. calls' = {r, l} /\ selected \in Incidents
      BY <1>2, <2>5, <2>9 DEF IInv, TypeOK
    <3>2. Trails(r)' /\ Trails(l)'
      BY <1>1, <1>2, <2>2, <2>3, <2>9, Targets DEF Trails
    <3>3. Course'
      BY <1>1, <3>1, <3>2 DEF Course
    <3>4. \E e \in calls' : e.kind = "remediation"
      BY <2>2, <3>1
    <3> QED
      BY <1>1, <1>2, <1>4, <2>9, <3>3, <3>4 DEF Tidy
  <2> QED
    BY <2>6, <2>7, <2>8, <2>9 DEF IInv
<1> QED
  BY <1>3, <1>4 DEF InvestigateReturns

LEMMA CreateStep ==
  ASSUME IInv, NEW c \in calls, c.reply # None, CreateReturns(c),
         UNCHANGED <<incidents, raced, decisions>>
  PROVE  IInv'
<1>1. /\ c.kind = "create" /\ Proper(c)
      /\ UNCHANGED <<listed, selected, shownRun, remediationId, panel>>
  BY DEF CreateReturns, IInv
<1>2. CASE c.reply = Error
  <2>1. listed' \subseteq Incidents /\ (~raced => shownRun' \in {selected, None})
    BY <1>1 DEF IInv, TypeOK, Tidy
  <2>2. GoOn(c, {})
    BY <1>2 DEF CreateReturns
  <2> QED
    BY <1>1, <2>1, <2>2, PanelStays, GoOnStep
<1>3. CASE c.reply # Error
  <2>1. PICK l : l = Call(c.nr, "list", None, None, c.reply)
    OBVIOUS
  <2>2. IsCall(l) /\ ~Answer(l) /\ l.kind = "list" /\ l.then = c.reply
    BY <2>1, CallIs
  <2>3. c.reply \in Incidents /\ c.reply # EnableButton
    BY <1>1, <1>3, Targets DEF Proper, Answer
  <2>4. Proper(l)
    BY <2>2, <2>3 DEF Proper
  <2>5. /\ calls' = (calls \ {c}) \cup (Follow(c) \cup {l})
        /\ enabled' = (enabled \/ c.then = EnableButton)
    BY <1>3, <2>1 DEF CreateReturns, GoOn
  <2>6. \A e \in Follow(c) : Proper(e) /\ e.then = None
    BY <1>1, FollowIs
  <2>7. \A e \in calls' : Proper(e)
    BY <2>4, <2>5, <2>6, CallsMade
  <2>8. TypeOK' /\ Oldest' /\ DecidesWhatIsShown' /\ PanelIsKept'
    BY <1>1, <2>5 DEF IInv, TypeOK, Oldest, DecidesWhatIsShown, PanelIsKept
  <2>9. Button'
    <3>1. \A e \in Follow(c) \cup {l} : e.then # EnableButton
      BY <2>2, <2>3, <2>6, Targets
    <3>2. CASE c.then = EnableButton
      <4>1. enabled' = TRUE /\ selected' # None
        BY <1>1, <2>5, <3>2 DEF IInv, Button
      <4> QED
        BY <1>1, <2>5, <3>1, <4>1, ButtonStays
    <3>3. CASE c.then # EnableButton
      <4>1. enabled' = enabled
        BY <2>5, <3>3 DEF IInv, TypeOK
      <4> QED
        BY <1>1, <2>5, <3>1, <3>3, <4>1, ButtonStays
    <3> QED
      BY <3>2, <3>3
  <2>10. ASSUME ~raced' PROVE Tidy'
    <3>1. Tidy
      BY <2>10 DEF IInv
    <3>2. calls = {c} /\ Leads(c)
      BY <1>1, <3>1 DEF Tidy, Course, Trails
    <3>3. Follow(c) = {} /\ Newest(c.reply)
      BY <1>1, <1>3, <3>2, FollowIs DEF Leads, Answer
    <3>4. calls' = {l}
      BY <2>5, <3>2, <3>3
    <3>5. Leads(l)'
      BY <2>2, <3>3 DEF Leads, Newest
    <3>6. Course'
      BY <3>4, <3>5 DEF Course
    <3> QED
      BY <1>1, <3>1, <3>2, <3>6 DEF Tidy
  <2> QED
    BY <2>7, <2>8, <2>9, <2>10 DEF IInv
<1> QED
  BY <1>2, <1>3

LEMMA ReturnsStep ==
  ASSUME IInv, NEW c \in calls, Returns(c)
  PROVE  IInv'
<1>1. c.reply # None /\ UNCHANGED <<incidents, raced, decisions>>
  BY DEF Returns, server, history
<1> QED
  BY <1>1, ListStep, DetailStep, RenderStep, InvestigateStep, CreateStep DEF Returns

LEMMA InitInv == Init => IInv
<1> SUFFICES ASSUME Init PROVE IInv
  OBVIOUS
<1>1. PICK c : c = Call(0, "list", None, None, None)
  OBVIOUS
<1>2. IsCall(c) /\ ~Answer(c) /\ c.kind = "list" /\ c.then = None
  BY <1>1, CallIs
<1>3. calls = {c} /\ Proper(c) /\ Leads(c)
  BY <1>1, <1>2, Targets DEF Init, Proper, Leads
<1>4. TypeOK
  BY DEF Init, TypeOK
<1>5. Oldest
  <2>1. PICK n \in 0 .. Cardinality(Incidents) :
          incidents = {i \in Incidents : Cardinality({j \in Incidents : j <= i}) <= n}
    BY DEF Init
  <2> SUFFICES ASSUME NEW i \in incidents, NEW j \in Incidents, j <= i
               PROVE  j \in incidents
    BY DEF Oldest
  <2>2. PICK A, B : A = {k \in Incidents : k <= j} /\ B = {k \in Incidents : k <= i}
    OBVIOUS
  <2>3. IsFiniteSet(Incidents) /\ Incidents \subseteq Nat /\ i \in Incidents
    BY <2>1, NumbersAre
  <2>4. B \subseteq Incidents /\ A \subseteq B
    <3>1. i \in Nat /\ j \in Nat /\ j <= i
      BY <2>3
    <3>2. \A k \in Incidents : k <= j => k <= i
      BY <2>3, <3>1
    <3> QED
      BY <2>2, <3>2
  <2>5. /\ IsFiniteSet(B) /\ IsFiniteSet(A) /\ Cardinality(A) <= Cardinality(B)
        /\ Cardinality(A) \in Nat /\ Cardinality(B) \in Nat
    BY <2>3, <2>4, FS_Subset, FS_CardinalityType
  <2>6. Cardinality(B) <= n
    BY <2>1, <2>2
  <2>7. n \in Int
    BY <2>3, FS_CardinalityType
  <2> QED
    BY <2>1, <2>2, <2>5, <2>6, <2>7
<1>6. DecidesWhatIsShown /\ PanelIsKept
  BY DEF Init, DecidesWhatIsShown, PanelIsKept
<1>7. Button
  BY <1>2, <1>3, Targets DEF Init, Button
<1>8. Tidy
  BY <1>3 DEF Init, Tidy, Course
<1> QED
  BY <1>3, <1>4, <1>5, <1>6, <1>7, <1>8 DEF IInv

LEMMA StepInv == IInv /\ [Next]_vars => IInv'
<1> SUFFICES ASSUME IInv, [Next]_vars PROVE IInv'
  OBVIOUS
<1>1. ASSUME UNCHANGED <<incidents, page, calls, raced, decisions>> PROVE IInv'
  <2>1. UNCHANGED <<incidents, listed, selected, shownRun, remediationId, panel, enabled,
                    calls, raced, decisions>>
    BY <1>1 DEF page
  <2>2. Course => Course'
    BY <2>1 DEF Course, Leads, Trails, Newest
  <2> QED
    BY <2>1, <2>2
    DEF IInv, TypeOK, Oldest, DecidesWhatIsShown, PanelIsKept, Button, Tidy
<1>2. CASE UNCHANGED vars
  BY <1>1, <1>2 DEF vars, server, history
<1>3. ASSUME NEW p \in Plans, Propose(p) PROVE IInv'
  BY <1>1, <1>3 DEF Propose, history
<1>4. CASE Operate
  BY <1>4, OperateStep
<1>5. CASE Network
  BY <1>5, ServeStep, FailsStep, ReturnsStep DEF Network
<1> QED
  BY <1>2, <1>3, <1>4, <1>5 DEF Next

LEMMA Invariance == Spec => []IInv
  BY InitInv, StepInv, PTL DEF Spec

---------------------------------------------------------------------------
(* Theorems *)

\* However calls are delayed, reordered, refused or lost: what the service accepts
\* was decided about the plan on the panel, under that plan's own incident.
THEOREM DecisionsAreSeen == Spec => []DecidesWhatIsShown
  BY Invariance, PTL DEF IInv

\* An operator who waits for the page gets a page of one piece, with any number of
\* incidents, plans and clicks, and whatever fails.
THEOREM WaitingIsEnough == Spec => []QuietPageAgrees
<1>1. IInv => QuietPageAgrees
  BY DEF IInv, Button, Tidy, QuietPageAgrees
<1> QED
  BY <1>1, Invariance, PTL
=============================================================================
