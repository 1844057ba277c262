----------------------------- MODULE MCAdvisor -----------------------------
(* Small instances of Advisor.                                             *)
EXTENDS Advisor

CONSTANTS s1, s2, c1, c2, d1, p1, p2, first, second, third, ask1, b1

\* s2 revises s1; both policy revisions are about s1.
Revised == [s \in Subjects |-> IF s = s2 THEN s1 ELSE None]
OneSubject == [p \in Policies |-> s1]
AskOne == [i \in Invocations |-> s1]

\* Two cases are held out, of which one may be left unanswered; or one is.
BothCases == <<{c1, c2}>>
OneCase == <<{c1}>>

\* Each case is asked, c1 perhaps twice, and the packet.
CasesAndPacket ==
  [i \in Invocations |-> CASE i = ask1 -> d1 [] i = third -> c2 [] OTHER -> c1]
=============================================================================
