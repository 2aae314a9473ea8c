------------------------------- MODULE Assurance -------------------------------
(***************************************************************************)
(* What a certificate is worth, without requests, samples, transfers,      *)
(* calls or a trail: work is begun by somebody who had the material, by a  *)
(* rule that is out; only they note something, until they close it; it is  *)
(* judged once, by somebody else; and what is stated of it was noted, is   *)
(* approved, and never changes again.                                      *)
(***************************************************************************)
EXTENDS Naturals

CONSTANTS
  Person, Material, Rule, Work, Note, Statement, Result,
  Judges          \* the persons who may judge

VARIABLES
  had,            \* who had which material, at some time
  rules,          \* the rules that are out, with their text
  work,           \* by whom, on what and by which rule the work is that was begun
  stage,          \* how far it is
  notes,          \* what was noted, of which work and by whom
  judged,         \* who judged which work
  stated          \* the statements, with their numbers and what they show

assuranceVars == <<had, rules, work, stage, notes, judged, stated>>

With(map, key, value) ==
  [k \in DOMAIN map \cup {key} |-> IF k = key THEN value ELSE map[k]]

Init ==
  /\ had = {} /\ judged = {} /\ DOMAIN rules \subseteq Rule
  /\ DOMAIN work = {} /\ DOMAIN stage = {} /\ DOMAIN notes = {} /\ DOMAIN stated = {}

Receive(u, x) ==
  /\ had' = had \cup {<<u, x>>}
  /\ UNCHANGED <<rules, work, stage, notes, judged, stated>>

\* A rule that is out stays as it is.
PutOut(m, text) ==
  /\ m \notin DOMAIN rules
  /\ rules' = With(rules, m, text)
  /\ UNCHANGED <<had, work, stage, notes, judged, stated>>

Begin(u, t, x, m) ==
  /\ t \notin DOMAIN work
  /\ <<u, x>> \in had /\ m \in DOMAIN rules
  /\ work' = With(work, t, [by |-> u, on |-> x, rule |-> m])
  /\ stage' = With(stage, t, "in_progress")
  /\ UNCHANGED <<had, rules, notes, judged, stated>>

WriteNote(t, d, result) ==
  /\ stage[t] = "in_progress" /\ d \notin DOMAIN notes
  /\ notes' = With(notes, d, [of |-> t, by |-> work[t].by, says |-> result])
  /\ UNCHANGED <<had, rules, work, stage, judged, stated>>

Close(t) ==
  /\ stage[t] = "in_progress"
  /\ \E d \in DOMAIN notes : notes[d].of = t
  /\ stage' = [stage EXCEPT ![t] = "review"]
  /\ UNCHANGED <<had, rules, work, notes, judged, stated>>

Judge(u, t, verdict) ==
  /\ stage[t] = "review" /\ u \in Judges /\ u # work[t].by
  /\ \A v \in Person : <<v, t>> \notin judged
  /\ stage' = [stage EXCEPT ![t] = verdict]
  /\ judged' = judged \cup {<<u, t>>}
  /\ UNCHANGED <<had, rules, work, notes, stated>>

\* A statement has the number after those that are given, which have no gap.
State(c, n, shows) ==
  /\ c \notin DOMAIN stated /\ DOMAIN shows # {}
  /\ n \in Nat \ {0} /\ {stated[k].number : k \in DOMAIN stated} = 1..(n - 1)
  /\ \A t \in DOMAIN shows :
       /\ stage[t] = "approved"
       /\ \E d \in DOMAIN notes : notes[d].of = t /\ notes[d].says = shows[t]
  /\ stated' = With(stated, c, [number |-> n, shows |-> shows])
  /\ UNCHANGED <<had, rules, work, stage, notes, judged>>

Next ==
  \/ \E u \in Person, x \in Material :
       \/ Receive(u, x)
       \/ \E t \in Work, m \in Rule : Begin(u, t, x, m)
  \/ \E m \in Rule \cap DOMAIN rules' : PutOut(m, rules'[m])
  \/ \E t \in DOMAIN work :
       \/ \E d \in Note, result \in Result : WriteNote(t, d, result)
       \/ Close(t)
       \/ \E u \in Person, verdict \in {"approved", "rejected"} : Judge(u, t, verdict)
  \/ \E c \in Statement \cap DOMAIN stated' : State(c, stated'[c].number, stated'[c].shows)

Spec == Init /\ [][Next]_assuranceVars
=============================================================================
