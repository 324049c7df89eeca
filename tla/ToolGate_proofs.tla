--------------------------- MODULE ToolGate_proofs ---------------------------
(***************************************************************************)
(* Theorems about ToolGate, for any tools, ids and numbers of calls.       *)
(***************************************************************************)
EXTENDS ToolGate, SequenceTheorems, TLAPS

(* What makes the safety properties inductive.                             *)

\* Calls beyond the last one made have not begun, and between rounds every
\* call made has ended.
Numbered ==
  /\ \A c \in Call : pc[c] = "none" <=> c > asked
  /\ state \in {"head", "llm", "done"} => \A c \in Call : c <= asked => pc[c] = "done"

\* The mode a waiting call was let through in is still the session's.
Steady ==
  \A c \in Call :
    pc[c] \in {"check", "approval"} /\ tool[c] \in Interactive
      => perm.mode \in {"default", "bypass"}

\* A resolver belongs to a call that waits, under the call's own id.
Registered ==
  \A i \in Ids :
    resolver[i] # NoCall => pc[resolver[i]] = "approval" /\ Id[resolver[i]] = i

Begun == {<<"start">>, <<"required", "response", "start">>}
Ended == {<<"start", "end">>, <<"required", "response", "start", "end">>}
Refused == {<<>>, <<"end">>, <<"required", "response">>}

\* The events of a call tell where it stands.
Traced ==
  \A c \in Call :
    /\ pc[c] \in {"none", "queued", "hook", "check", "child"} => events[c] = <<>>
    /\ pc[c] = "approval" => events[c] = <<"required">>
    /\ pc[c] = "tool" => events[c] \in Begun
    /\ pc[c] = "after" => events[c] \in Ended
    /\ pc[c] = "done" => events[c] \in Ended \cup Refused

IInv ==
  /\ TypeOK
  /\ Numbered
  /\ Alone
  /\ Steady
  /\ Registered
  /\ ApprovedAsRun
  /\ Traced

------------------------------------------------------------------------------
(* Lemmas about the operators of the model.                                *)

LEMMA CallFacts == \A c \in Call : Id[c] \in Ids /\ c \in Nat /\ c # NoCall
  BY DEF Call, Ids, NoCall

LEMMA PermAfterFacts ==
  ASSUME NEW t \in Tool, perm \in Permission
  PROVE  /\ PermAfter(t) \in Permission
         /\ t \notin {EnterPlan, ExitPlan} => PermAfter(t) = perm
<1>1. CASE t = EnterPlan
  BY <1>1 DEF PermAfter, Permission, Mode
<1>2. CASE t # EnterPlan /\ t = ExitPlan
  BY <1>2 DEF PermAfter, Permission, Mode
<1>3. CASE t \notin {EnterPlan, ExitPlan}
  BY <1>3 DEF PermAfter
<1> QED
  BY <1>1, <1>2, <1>3

(* Concatenations of short sequences, written out.                         *)

LEMMA Concat11 ==
  ASSUME NEW a, NEW b
  PROVE  <<a>> \o <<b>> = <<a, b>>
<1> DEFINE S == {a, b}
<1> DEFINE s == <<a>> \o <<b>>
<1>1. <<a>> \in Seq(S) /\ <<b>> \in Seq(S) /\ <<a, b>> \in Seq(S)
  OBVIOUS
<1>2. /\ Len(<<a>>) = 1 /\ Len(<<b>>) = 1 /\ Len(<<a, b>>) = 2
      /\ <<a>>[1] = a /\ <<b>>[1] = b /\ <<a, b>>[1] = a
      /\ <<a, b>>[2] = b
  OBVIOUS
<1>3. /\ s \in Seq(S) /\ Len(s) = 2
      /\ s[1] = a /\ s[2] = b
  BY <1>1, <1>2, ConcatProperties
<1>4. \A i \in 1 .. Len(s) : s[i] = <<a, b>>[i]
  BY <1>2, <1>3
<1> QED
  BY <1>1, <1>2, <1>3, <1>4, SeqEqual

LEMMA Concat12 ==
  ASSUME NEW a, NEW b, NEW c
  PROVE  <<a>> \o <<b, c>> = <<a, b, c>>
<1> DEFINE S == {a, b, c}
<1> DEFINE s == <<a>> \o <<b, c>>
<1>1. <<a>> \in Seq(S) /\ <<b, c>> \in Seq(S) /\ <<a, b, c>> \in Seq(S)
  OBVIOUS
<1>2. /\ Len(<<a>>) = 1 /\ Len(<<b, c>>) = 2 /\ Len(<<a, b, c>>) = 3
      /\ <<a>>[1] = a /\ <<b, c>>[1] = b /\ <<b, c>>[2] = c
      /\ <<a, b, c>>[1] = a /\ <<a, b, c>>[2] = b /\ <<a, b, c>>[3] = c
  OBVIOUS
<1>3. /\ s \in Seq(S) /\ Len(s) = 3
      /\ s[1] = a /\ s[2] = b /\ s[3] = c
  BY <1>1, <1>2, ConcatProperties
<1>4. \A i \in 1 .. Len(s) : s[i] = <<a, b, c>>[i]
  BY <1>2, <1>3
<1> QED
  BY <1>1, <1>2, <1>3, <1>4, SeqEqual

LEMMA Concat31 ==
  ASSUME NEW a, NEW b, NEW c, NEW d
  PROVE  <<a, b, c>> \o <<d>> = <<a, b, c, d>>
<1> DEFINE S == {a, b, c, d}
<1> DEFINE s == <<a, b, c>> \o <<d>>
<1>1. <<a, b, c>> \in Seq(S) /\ <<d>> \in Seq(S) /\ <<a, b, c, d>> \in Seq(S)
  OBVIOUS
<1>2. /\ Len(<<a, b, c>>) = 3 /\ Len(<<d>>) = 1 /\ Len(<<a, b, c, d>>) = 4
      /\ <<a, b, c>>[1] = a /\ <<a, b, c>>[2] = b /\ <<a, b, c>>[3] = c
      /\ <<d>>[1] = d /\ <<a, b, c, d>>[1] = a /\ <<a, b, c, d>>[2] = b
      /\ <<a, b, c, d>>[3] = c /\ <<a, b, c, d>>[4] = d
  OBVIOUS
<1>3. /\ s \in Seq(S) /\ Len(s) = 4
      /\ s[1] = a /\ s[2] = b /\ s[3] = c /\ s[4] = d
  BY <1>1, <1>2, ConcatProperties
<1>4. \A i \in 1 .. Len(s) : s[i] = <<a, b, c, d>>[i]
  BY <1>2, <1>3
<1> QED
  BY <1>1, <1>2, <1>3, <1>4, SeqEqual

\* The events that join a call's trace make it one of the traces listed.
LEMMA TraceFacts ==
  /\ <<>> \o <<"start">> = <<"start">>
  /\ <<>> \o <<"end">> = <<"end">>
  /\ <<>> \o <<"required">> = <<"required">>
  /\ <<"required">> \o <<"response", "start">>
       = <<"required", "response", "start">>
  /\ <<"required">> \o <<"response">> = <<"required", "response">>
  /\ \A s \in Begun : s \o <<"end">> \in Ended
  /\ \A s \in Ended \cup {<<>>} : s \o <<>> = s
<1>1. \A s \in Seq(EventType) : s \o <<>> = s /\ <<>> \o s = s
  BY ConcatEmptySeq
<1>2. /\ {<<"start">>, <<"end">>, <<"required">>, <<>>} \subseteq Seq(EventType)
      /\ Ended \subseteq Seq(EventType)
  BY DEF Ended, EventType
<1>3. <<"start">> \o <<"end">> = <<"start", "end">>
  BY Concat11
<1>4. <<"required", "response", "start">> \o <<"end">>
        = <<"required", "response", "start", "end">>
  BY Concat31
<1>5. \A s \in Begun : s \o <<"end">> \in Ended
  BY <1>3, <1>4 DEF Begun, Ended
<1>6. <<"required">> \o <<"response", "start">>
        = <<"required", "response", "start">>
  BY Concat12
<1>7. <<"required">> \o <<"response">> = <<"required", "response">>
  BY Concat11
<1> QED
  BY <1>1, <1>2, <1>5, <1>6, <1>7

\* Every trace listed is a sequence of events.
LEMMA TraceTypes ==
  Begun \cup Ended \cup Refused \cup {<<"required">>} \subseteq Seq(EventType)
  BY DEF Begun, Ended, Refused, EventType

\* A call of the next batch beside another one is safe to run beside it.
LEMMA BatchFacts ==
  ASSUME NEW c \in NextBatch, NEW d \in NextBatch, c # d
  PROVE  {tool[c], tool[d]} \subseteq Concurrent
  BY CallFacts DEF NextBatch, Queued

------------------------------------------------------------------------------
(* Steps of a call, by where they lead.  Each lemma names what a move of   *)
(* one call must satisfy for the invariant to survive it.                  *)

\* A call ends: nothing but its own trace is at stake.
LEMMA EndInv ==
  ASSUME IInv, NEW c \in Call, pc[c] \in Waiting,
         NEW s, Move(c, "done", s), events[c] \o s \in Ended \cup Refused,
         state' \in {state, "threw"}, perm' = perm, asked' = asked,
         tool' = tool, matches' \in [Call -> BOOLEAN],
         \A d \in Call : d # c => matches'[d] = matches[d],
         resolver' \in [Ids -> Call \cup {NoCall}],
         \A i \in Ids : resolver'[i] \in {resolver[i], NoCall} \ {c},
         timers' \in SUBSET Call, out' = out, approved' = approved,
         aborted' = aborted
  PROVE  IInv'
<1> USE DEF IInv
<1>1. /\ pc' \in [Call -> {"none", "queued", "done"} \cup Waiting]
      /\ pc'[c] = "done"
      /\ \A d \in Call : d # c => pc'[d] = pc[d] /\ events'[d] = events[d]
      /\ events'[c] = events[c] \o s
  BY DEF TypeOK, Move
<1>2. events' \in [Call -> Seq(EventType)]
  BY TraceTypes DEF TypeOK, Move
<1>3. TypeOK'
  BY <1>1, <1>2 DEF TypeOK
<1>4. Numbered'
  BY <1>1 DEF Numbered, Waiting
<1>5. Alone'
  BY <1>1 DEF Alone, Active, Waiting
<1>6. Steady'
  BY <1>1 DEF Steady
<1>7. Registered'
  BY <1>1 DEF Registered, TypeOK
<1>8. ApprovedAsRun'
  BY <1>1 DEF ApprovedAsRun
<1>9. Traced'
  BY <1>1 DEF Traced
<1> QED
  BY <1>3, <1>4, <1>5, <1>6, <1>7, <1>8, <1>9

\* A call goes from one await to another: what it needs depends on where to.
LEMMA MoveInv ==
  ASSUME IInv, NEW c \in Call, pc[c] \in Waiting, NEW to \in Waiting,
         NEW s, Move(c, to, s),
         to = "check" => events[c] \o s = <<>>,
         to = "approval" => events[c] \o s = <<"required">>,
         to = "tool" => events[c] \o s \in Begun,
         to = "after" => events[c] \o s \in Ended,
         to \notin {"hook", "child"},
         state' = state, asked' = asked, tool' = tool,
         perm' \in Permission,
         perm' = perm \/ (tool[c] \notin Concurrent /\ to = "tool"),
         to \in {"check", "approval"} /\ tool[c] \in Interactive
           => perm.mode \in {"default", "bypass"},
         matches' \in [Call -> BOOLEAN],
         \A d \in Call : d # c => matches'[d] = matches[d],
         resolver' \in [Ids -> Call \cup {NoCall}],
         \A i \in Ids : resolver'[i] \in {resolver[i], NoCall} \ {c}
                          \/ (to = "approval" /\ resolver'[i] = c /\ Id[c] = i),
         timers' \in SUBSET Call, out' = out, aborted' = aborted,
         approved' \in SUBSET Call, approved \subseteq approved',
         to \in {"tool", "after"} /\ NeedsApproval(tool[c], matches'[c])
           => c \in approved'
  PROVE  IInv'
<1> USE DEF IInv
<1>1. /\ pc' \in [Call -> {"none", "queued", "done"} \cup Waiting]
      /\ pc'[c] = to
      /\ \A d \in Call : d # c => pc'[d] = pc[d] /\ events'[d] = events[d]
      /\ events'[c] = events[c] \o s
  BY DEF TypeOK, Move
<1>2. events' \in [Call -> Seq(EventType)]
  <2>1. events[c] \o s \in {<<>>, <<"required">>} \cup Begun \cup Ended
    BY DEF Waiting
  <2>2. events[c] \o s \in Seq(EventType)
    BY <2>1, TraceTypes DEF Refused
  <2> QED
    BY <2>2 DEF TypeOK, Move
<1>3. TypeOK'
  BY <1>1, <1>2 DEF TypeOK
<1>4. Numbered'
  BY <1>1 DEF Numbered, Waiting
<1>5. Alone'
  BY <1>1 DEF Alone, Active
<1>6. Steady'
  <2>1. CASE perm' = perm
    BY <1>1, <2>1 DEF Steady
  <2>2. CASE tool[c] \notin Concurrent /\ to = "tool"
    <3>1. \A d \in Call : d # c => pc[d] \notin Waiting
      BY <2>2 DEF Alone, Active
    <3> QED
      BY <1>1, <2>2, <3>1 DEF Steady, Waiting
  <2> QED
    BY <2>1, <2>2
<1>7. Registered'
  BY <1>1 DEF Registered, TypeOK
<1>8. ApprovedAsRun'
  BY <1>1 DEF ApprovedAsRun
<1>9. Traced'
  <2>1. \A d \in Call : d # c => pc'[d] = pc[d] /\ events'[d] = events[d]
    BY <1>1
  <2>2. /\ pc'[c] = to /\ to \in {"check", "approval", "tool", "after"}
        /\ to = "check" => events'[c] = <<>>
        /\ to = "approval" => events'[c] = <<"required">>
        /\ to = "tool" => events'[c] \in Begun
        /\ to = "after" => events'[c] \in Ended
    BY <1>1 DEF Waiting
  <2>3. Traced
    OBVIOUS
  <2> HIDE DEF IInv
  <2> QED
    BY <2>1, <2>2, <2>3 DEF Traced
<1> QED
  BY <1>3, <1>4, <1>5, <1>6, <1>7, <1>8, <1>9

\* No step but the rejections, approvals and timers of c takes a resolver away
\* from c; a call that has none yet is under no id.
LEMMA NotRegistered ==
  ASSUME IInv, NEW c \in Call, pc[c] # "approval"
  PROVE  \A i \in Ids : resolver[i] # c
  BY CallFacts DEF IInv, Registered

------------------------------------------------------------------------------
(* The gate.                                                               *)

LEMMA BeginInv ==
  ASSUME IInv, NEW c \in Call, pc[c] \in {"hook", "check"},
         Begin(c, <<"start">>),
         matches' \in [Call -> BOOLEAN],
         \A d \in Call : d # c => matches'[d] = matches[d],
         ~NeedsApproval(tool[c], matches'[c]),
         UNCHANGED <<state, asked, tool, resolver, timers, out, approved, aborted>>
  PROVE  IInv'
<1>1. events[c] = <<>>
  BY DEF IInv, Traced
<1>2. Move(c, "tool", <<"start">>) /\ events[c] \o <<"start">> \in Begun
  BY <1>1, TraceFacts DEF Begin, Begun
<1>3. /\ perm' \in Permission
      /\ perm' = perm \/ tool[c] \notin Concurrent
  BY PermAfterFacts, SerialAssumption DEF Begin, IInv, TypeOK
<1>4. /\ resolver \in [Ids -> Call \cup {NoCall}] /\ timers \in SUBSET Call
      /\ approved \in SUBSET Call
  BY DEF IInv, TypeOK
<1>5. \A i \in Ids : resolver'[i] \in {resolver[i], NoCall} \ {c}
  BY NotRegistered
<1>6. pc[c] \in Waiting /\ "tool" \in Waiting
  BY DEF Waiting
<1> QED
  BY <1>2, <1>3, <1>4, <1>5, <1>6, MoveInv

LEMMA WaitInv ==
  ASSUME IInv, NEW c \in Call, pc[c] \in {"hook", "check"},
         WaitForApproval(c),
         tool[c] \in Interactive => perm.mode \in {"default", "bypass"},
         matches' \in [Call -> BOOLEAN],
         \A d \in Call : d # c => matches'[d] = matches[d],
         UNCHANGED <<state, asked, tool, out, approved, aborted>>
  PROVE  IInv'
<1>1. events[c] = <<>>
  BY DEF IInv, Traced
<1>2. /\ Move(c, "approval", <<"required">>)
      /\ events[c] \o <<"required">> = <<"required">>
  BY <1>1, TraceFacts DEF WaitForApproval
<1>3. perm' \in Permission /\ perm' = perm /\ approved \in SUBSET Call
  BY DEF WaitForApproval, IInv, TypeOK
<1>4. resolver' \in [Ids -> Call \cup {NoCall}] /\ timers' \in SUBSET Call
  BY CallFacts DEF WaitForApproval, IInv, TypeOK
<1>5. \A i \in Ids : resolver'[i] \in {resolver[i], NoCall} \ {c}
                       \/ (resolver'[i] = c /\ Id[c] = i)
  BY CallFacts, NotRegistered DEF WaitForApproval, IInv, TypeOK
<1>6. pc[c] \in Waiting /\ "approval" \in Waiting
  BY DEF Waiting
<1> QED
  BY <1>2, <1>3, <1>4, <1>5, <1>6, MoveInv

LEMMA DenyInv ==
  ASSUME IInv, NEW c \in Call, pc[c] \in {"hook", "check"}, Deny(c),
         matches' \in [Call -> BOOLEAN],
         \A d \in Call : d # c => matches'[d] = matches[d],
         UNCHANGED <<state, asked, tool, out, approved, aborted>>
  PROVE  IInv'
<1>1. events[c] = <<>>
  BY DEF IInv, Traced
<1>2. /\ Move(c, "done", <<"end">>)
      /\ events[c] \o <<"end">> \in Ended \cup Refused
  BY <1>1, TraceFacts DEF Deny, Refused
<1>3. /\ resolver' \in [Ids -> Call \cup {NoCall}] /\ timers' \in SUBSET Call
      /\ perm' = perm
  BY DEF Deny, IInv, TypeOK
<1>4. \A i \in Ids : resolver'[i] \in {resolver[i], NoCall} \ {c}
  BY NotRegistered DEF Deny
<1>5. pc[c] \in Waiting
  BY DEF Waiting
<1> QED
  BY <1>2, <1>3, <1>4, <1>5, EndInv

------------------------------------------------------------------------------
(* The steps of Next.                                                      *)

LEMMA AllowInv ==
  ASSUME IInv, NEW c \in Call, pc[c] \in {"hook", "check"},
         Allow(c, matches'[c]),
         tool[c] \in Interactive => perm.mode \in {"default", "bypass"},
         matches' \in [Call -> BOOLEAN],
         \A d \in Call : d # c => matches'[d] = matches[d],
         UNCHANGED <<state, asked, tool, out, approved, aborted>>
  PROVE  IInv'
<1>1. CASE NeedsApproval(tool[c], matches'[c]) /\ WaitForApproval(c)
  BY <1>1, WaitInv
<1>2. CASE /\ ~NeedsApproval(tool[c], matches'[c])
           /\ Begin(c, <<"start">>)
           /\ UNCHANGED <<resolver, timers>>
  BY <1>2, BeginInv
<1> QED
  BY <1>1, <1>2 DEF Allow

LEMMA HookPassesInv ==
  ASSUME IInv, NEW c \in Call, HookPasses(c)
  PROVE  IInv'
<1>1. PICK m \in Shapes(tool[c]) :
        /\ matches' = [matches EXCEPT ![c] = m]
        /\ \/ Policy(tool[c]) = "deny" /\ Deny(c)
           \/ /\ Policy(tool[c]) = "check"
              /\ Move(c, "check", <<>>)
              /\ UNCHANGED <<perm, resolver, timers>>
           \/ Policy(tool[c]) = "allow" /\ Allow(c, m)
  BY DEF HookPasses
<1>2. /\ m \in BOOLEAN
      /\ matches' \in [Call -> BOOLEAN]
      /\ matches'[c] = m
      /\ \A d \in Call : d # c => matches'[d] = matches[d]
  BY <1>1 DEF IInv, TypeOK, Shapes
<1>3. /\ pc[c] = "hook"
      /\ UNCHANGED <<state, asked, tool, out, approved, aborted>>
  BY DEF HookPasses
<1>4. Policy(tool[c]) # "deny" /\ tool[c] \in Interactive
        => perm.mode \in {"default", "bypass"}
  BY DEF Policy, IInv, TypeOK, Permission, Mode
<1>5. CASE Policy(tool[c]) = "deny" /\ Deny(c)
  BY <1>2, <1>3, <1>5, DenyInv
<1>6. CASE /\ Policy(tool[c]) = "check"
           /\ Move(c, "check", <<>>)
           /\ UNCHANGED <<perm, resolver, timers>>
  <2>1. events[c] \o <<>> = <<>>
    BY <1>3, TraceFacts DEF IInv, Traced
  <2>2. /\ perm \in Permission /\ timers \in SUBSET Call
        /\ approved \in SUBSET Call
        /\ resolver \in [Ids -> Call \cup {NoCall}]
    BY DEF IInv, TypeOK
  <2>3. \A i \in Ids : resolver'[i] \in {resolver[i], NoCall} \ {c}
    BY <1>3, <1>6, CallFacts, NotRegistered
  <2>4. pc[c] \in Waiting /\ "check" \in Waiting
    BY <1>3 DEF Waiting
  <2> QED
    BY <1>2, <1>3, <1>4, <1>6, <2>1, <2>2, <2>3, <2>4, MoveInv
<1>7. CASE Policy(tool[c]) = "allow" /\ Allow(c, m)
  BY <1>2, <1>3, <1>4, <1>7, AllowInv
<1> QED
  BY <1>1, <1>5, <1>6, <1>7

LEMMA CheckAnswersInv ==
  ASSUME IInv, NEW c \in Call, CheckAnswers(c)
  PROVE  IInv'
<1>1. /\ pc[c] = "check"
      /\ matches' = matches
      /\ UNCHANGED <<state, asked, tool, out, approved, aborted>>
      /\ matches \in [Call -> BOOLEAN]
  BY DEF CheckAnswers, IInv, TypeOK
<1>2. tool[c] \in Interactive => perm.mode \in {"default", "bypass"}
  BY <1>1 DEF IInv, Steady
<1>3. CASE Deny(c)
  BY <1>1, <1>3, DenyInv
<1>4. CASE Allow(c, matches[c])
  BY <1>1, <1>2, <1>4, AllowInv
<1> QED
  BY <1>3, <1>4 DEF CheckAnswers

\* Steps that end a call and change nothing else of the gate.
LEMMA QuietEndInv ==
  ASSUME IInv, NEW c \in Call,
         HookBlocks(c) \/ CheckThrows(c) \/ HooksReturn(c) \/ SubAgentReturns(c)
  PROVE  IInv'
<1>1. /\ pc[c] \in {"hook", "check", "after", "child"}
      /\ Move(c, "done", <<>>)
      /\ state' \in {state, "threw"}
      /\ UNCHANGED <<perm, asked, tool, matches, resolver, timers, out,
                     approved, aborted>>
  BY DEF HookBlocks, CheckThrows, HooksReturn, SubAgentReturns
<1>2. events[c] \in Ended \cup {<<>>}
  BY <1>1 DEF IInv, Traced
<1>3. events[c] \o <<>> \in Ended \cup Refused
  BY <1>2, TraceFacts DEF Refused
<1>4. \A i \in Ids : resolver'[i] \in {resolver[i], NoCall} \ {c}
  BY <1>1, NotRegistered
<1>5. /\ resolver \in [Ids -> Call \cup {NoCall}] /\ timers \in SUBSET Call
      /\ matches \in [Call -> BOOLEAN]
  BY DEF IInv, TypeOK
<1>6. pc[c] \in Waiting
  BY <1>1 DEF Waiting
<1> QED
  BY <1>1, <1>3, <1>4, <1>5, <1>6, EndInv

LEMMA ToolReturnsInv ==
  ASSUME IInv, NEW c \in Call, ToolReturns(c)
  PROVE  IInv'
<1>1. /\ pc[c] = "tool"
      /\ Move(c, "after", <<"end">>)
      /\ UNCHANGED <<state, perm, asked, tool, matches, resolver, timers, out,
                     approved, aborted>>
  BY DEF ToolReturns
<1>2. events[c] \o <<"end">> \in Ended
  BY <1>1, TraceFacts DEF IInv, Traced
<1>3. \A i \in Ids : resolver'[i] \in {resolver[i], NoCall} \ {c}
  BY <1>1, NotRegistered
<1>4. /\ resolver \in [Ids -> Call \cup {NoCall}] /\ timers \in SUBSET Call
      /\ matches \in [Call -> BOOLEAN] /\ approved \in SUBSET Call
      /\ perm \in Permission
  BY DEF IInv, TypeOK
<1>5. NeedsApproval(tool[c], matches'[c]) => c \in approved
  BY <1>1 DEF IInv, ApprovedAsRun
<1>6. pc[c] \in Waiting /\ "after" \in Waiting
  BY <1>1 DEF Waiting
<1> QED
  BY <1>1, <1>2, <1>3, <1>4, <1>5, <1>6, MoveInv

\* A registered call waits, under its own id only.
LEMMA ResolverFacts ==
  ASSUME IInv, NEW i \in Ids, resolver[i] # NoCall
  PROVE  /\ resolver[i] \in Call /\ pc[resolver[i]] = "approval"
         /\ \A j \in Ids : j # i => resolver[j] # resolver[i]
  BY DEF IInv, TypeOK, Registered

LEMMA ApproveInv ==
  ASSUME IInv, NEW i \in Ids, Approve(i)
  PROVE  IInv'
<1> DEFINE c == resolver[i]
<1>1. /\ c # NoCall
      /\ resolver' = [resolver EXCEPT ![i] = NoCall]
      /\ Begin(c, <<"response", "start">>)
      /\ approved' = approved \cup {c}
      /\ UNCHANGED <<state, asked, tool, matches, timers, out, aborted>>
  BY DEF Approve
<1>2. /\ c \in Call /\ pc[c] = "approval"
      /\ \A j \in Ids : j # i => resolver[j] # c
  BY <1>1, ResolverFacts
<1> HIDE DEF c
<1>3. Move(c, "tool", <<"response", "start">>)
  BY <1>1 DEF Begin
<1>4. events[c] \o <<"response", "start">> \in Begun
  BY <1>2, TraceFacts DEF IInv, Traced, Begun
<1>5. /\ perm' \in Permission
      /\ perm' = perm \/ tool[c] \notin Concurrent
  BY <1>1, <1>2, PermAfterFacts, SerialAssumption DEF Begin, IInv, TypeOK
<1>6. \A j \in Ids : resolver'[j] \in {resolver[j], NoCall} \ {c}
  BY <1>1, <1>2, CallFacts DEF IInv, TypeOK
<1>7. /\ resolver' \in [Ids -> Call \cup {NoCall}] /\ timers \in SUBSET Call
      /\ matches \in [Call -> BOOLEAN] /\ approved' \in SUBSET Call
      /\ approved \subseteq approved' /\ c \in approved'
  BY <1>1, <1>2 DEF IInv, TypeOK
<1>8. pc[c] \in Waiting /\ "tool" \in Waiting
  BY <1>2 DEF Waiting
<1> QED
  BY <1>1, <1>2, <1>3, <1>4, <1>5, <1>6, <1>7, <1>8, MoveInv

LEMMA RejectInv ==
  ASSUME IInv, NEW i \in Ids, Reject(i)
  PROVE  IInv'
<1> DEFINE c == resolver[i]
<1>1. /\ c # NoCall
      /\ resolver' = [resolver EXCEPT ![i] = NoCall]
      /\ Move(c, "done", <<"response">>)
      /\ UNCHANGED <<state, perm, asked, tool, matches, timers, out, approved,
                     aborted>>
  BY DEF Reject
<1>2. /\ c \in Call /\ pc[c] = "approval"
      /\ \A j \in Ids : j # i => resolver[j] # c
  BY <1>1, ResolverFacts
<1> HIDE DEF c
<1>3. events[c] \o <<"response">> \in Ended \cup Refused
  BY <1>2, TraceFacts DEF IInv, Traced, Refused
<1>4. \A j \in Ids : resolver'[j] \in {resolver[j], NoCall} \ {c}
  BY <1>1, <1>2, CallFacts DEF IInv, TypeOK
<1>5. /\ resolver' \in [Ids -> Call \cup {NoCall}] /\ timers \in SUBSET Call
      /\ matches \in [Call -> BOOLEAN]
  BY <1>1 DEF IInv, TypeOK
<1>6. pc[c] \in Waiting
  BY <1>2 DEF Waiting
<1> QED
  BY <1>1, <1>2, <1>3, <1>4, <1>5, <1>6, EndInv

LEMMA TimerInv ==
  ASSUME IInv, NEW c \in Call, Timer(c)
  PROVE  IInv'
<1>1. /\ timers' = timers \ {c}
      /\ resolver' = [resolver EXCEPT ![Id[c]] = NoCall]
      /\ UNCHANGED <<state, perm, asked, tool, matches, out, approved, aborted>>
  BY DEF Timer
<1>2. /\ resolver' \in [Ids -> Call \cup {NoCall}]
      /\ timers' \in SUBSET Call
      /\ \A i \in Ids : resolver'[i] \in {resolver[i], NoCall}
      /\ resolver'[Id[c]] = NoCall
  BY <1>1, CallFacts DEF IInv, TypeOK
<1>3. CASE pc[c] = "approval" /\ Move(c, "done", <<"response">>)
  <2>1. events[c] \o <<"response">> \in Ended \cup Refused
    BY <1>3, TraceFacts DEF IInv, Traced, Refused
  <2>2. \A i \in Ids : resolver'[i] \in {resolver[i], NoCall} \ {c}
    BY <1>2, CallFacts DEF IInv, Registered
  <2>3. matches \in [Call -> BOOLEAN] /\ pc[c] \in Waiting
    BY <1>3 DEF IInv, TypeOK, Waiting
  <2> QED
    BY <1>1, <1>2, <1>3, <2>1, <2>2, <2>3, EndInv
<1>4. CASE UNCHANGED <<pc, events>>
  <2>1. TypeOK'
    BY <1>1, <1>2, <1>4 DEF IInv, TypeOK
  <2>2. (Numbered /\ Alone /\ Steady /\ ApprovedAsRun /\ Traced)'
    BY <1>1, <1>4
       DEF IInv, Numbered, Alone, Active, Steady, ApprovedAsRun, Traced
  <2>3. Registered'
    BY <1>2, <1>4 DEF IInv, Registered
  <2> QED
    BY <2>1, <2>2, <2>3 DEF IInv
<1> QED
  BY <1>3, <1>4 DEF Timer

LEMMA CallToolsInv ==
  ASSUME IInv, CallTools
  PROVE  IInv'
<1>1. PICK n \in 1 .. MaxCalls :
        /\ asked + n <= N
        /\ asked' = asked + n
        /\ \E ts \in [(asked + 1) .. (asked + n) -> Tool] :
           \E ms \in [(asked + 1) .. (asked + n) -> BOOLEAN] :
             /\ \A c \in (asked + 1) .. (asked + n) : ms[c] \in Shapes(ts[c])
             /\ tool' = [c \in Call |-> IF c \in (asked + 1) .. (asked + n)
                                        THEN ts[c] ELSE tool[c]]
             /\ matches' = [c \in Call |-> IF c \in (asked + 1) .. (asked + n)
                                           THEN ms[c] ELSE matches[c]]
        /\ pc' = [c \in Call |-> IF c \in (asked + 1) .. (asked + n)
                                 THEN "queued" ELSE pc[c]]
  BY DEF CallTools
<1>2. /\ state = "llm" /\ state' = "tools"
      /\ UNCHANGED <<perm, resolver, timers, events, out, approved, aborted>>
  BY DEF CallTools
<1>3. asked \in Nat /\ n \in Nat /\ N \in Nat
  BY BoundAssumption DEF IInv, TypeOK
<1>4. \A c \in Call :
        \/ pc[c] = "none" /\ pc'[c] = "queued"
        \/ pc'[c] = pc[c] /\ tool'[c] = tool[c] /\ matches'[c] = matches[c]
  BY <1>1, <1>3 DEF IInv, Numbered, Call
<1>5. /\ tool' \in [Call -> Tool]
      /\ matches' \in [Call -> BOOLEAN]
      /\ pc' \in [Call -> {"none", "queued", "done"} \cup Waiting]
      /\ asked' \in 0 .. N
  BY <1>1, <1>3 DEF IInv, TypeOK
<1>6. TypeOK'
  BY <1>2, <1>5 DEF IInv, TypeOK
<1>7. Numbered'
  BY <1>1, <1>2, <1>3 DEF IInv, Numbered, Call
<1>8. Alone'
  BY <1>4 DEF IInv, Alone, Active, Waiting
<1>9. Steady'
  BY <1>2, <1>4 DEF IInv, Steady
<1>10. Registered'
  BY <1>2, <1>4 DEF IInv, Registered, TypeOK
<1>11. ApprovedAsRun'
  BY <1>2, <1>4 DEF IInv, ApprovedAsRun
<1>12. Traced'
  BY <1>2, <1>4 DEF IInv, Traced
<1> QED
  BY <1>6, <1>7, <1>8, <1>9, <1>10, <1>11, <1>12 DEF IInv

LEMMA StartBatchInv ==
  ASSUME IInv, StartBatch
  PROVE  IInv'
<1>1. /\ Active = {}
      /\ pc' = [c \in Call |-> IF c \in NextBatch THEN Entered(c) ELSE pc[c]]
      /\ UNCHANGED <<state, perm, asked, tool, matches, resolver, timers,
                     events, out, approved, aborted>>
      /\ state = "tools"
  BY DEF StartBatch
<1>2. \A c \in Call :
        \/ /\ c \in NextBatch /\ pc[c] = "queued"
           /\ pc'[c] \in {"done", "child", "hook"}
        \/ pc'[c] = pc[c]
  BY <1>1 DEF NextBatch, Queued, Entered
<1>3. TypeOK'
  BY <1>1, <1>2 DEF IInv, TypeOK, Waiting
<1>4. Numbered'
  BY <1>1, <1>2 DEF IInv, Numbered
<1>5. Alone'
  <2>1. \A c \in Active' : c \in NextBatch
    BY <1>1, <1>2 DEF Active
  <2> QED
    BY <1>1, <2>1, BatchFacts DEF Alone
<1>6. Steady'
  BY <1>1, <1>2 DEF IInv, Steady
<1>7. Registered'
  BY <1>1, <1>2 DEF IInv, Registered, TypeOK
<1>8. ApprovedAsRun'
  BY <1>1, <1>2 DEF IInv, ApprovedAsRun
<1>9. Traced'
  BY <1>1, <1>2 DEF IInv, Traced, Refused
<1> QED
  BY <1>3, <1>4, <1>5, <1>6, <1>7, <1>8, <1>9 DEF IInv

\* Steps of the run that move no call.
LEMMA RunInv ==
  ASSUME IInv, Ask \/ Publish \/ Finish \/ Abort
  PROVE  IInv'
<1>1. UNCHANGED <<perm, asked, tool, matches, pc, resolver, timers, events,
                  approved>>
  BY DEF Ask, Publish, Finish, Abort
<1>2. [c \in 1 .. asked |-> c] \in Seq(Call)
  BY BoundAssumption DEF IInv, TypeOK, Call
<1>3. TypeOK'
  BY <1>1, <1>2 DEF IInv, TypeOK, Ask, Publish, Finish, Abort
<1>4. Numbered'
  BY <1>1
     DEF IInv, TypeOK, Numbered, Ask, Publish, Finish, Abort, Active, Queued, Call
<1>5. (Alone /\ Steady /\ Registered /\ ApprovedAsRun /\ Traced)'
  BY <1>1
     DEF IInv, Alone, Active, Steady, Registered, ApprovedAsRun, Traced
<1> QED
  BY <1>3, <1>4, <1>5 DEF IInv

\* A late hook changes the arguments of a call that has not begun.
LEMMA HookLateInv ==
  ASSUME IInv, NEW c \in Call, HookLate(c)
  PROVE  IInv'
<1>1. /\ pc[c] \in {"check", "approval"}
      /\ \E m \in Shapes(tool[c]) : matches' = [matches EXCEPT ![c] = m]
      /\ UNCHANGED <<state, perm, asked, tool, pc, resolver, timers, events, out,
                     approved, aborted>>
  BY DEF HookLate
<1>2. /\ matches' \in [Call -> BOOLEAN]
      /\ \A d \in Call : d # c => matches'[d] = matches[d]
  BY <1>1 DEF IInv, TypeOK, Shapes
<1>3. TypeOK'
  BY <1>1, <1>2 DEF IInv, TypeOK
<1>4. (Numbered /\ Alone /\ Steady /\ Registered /\ Traced)'
  BY <1>1 DEF IInv, Numbered, Alone, Active, Steady, Registered, Traced
<1>5. ApprovedAsRun'
  BY <1>1, <1>2 DEF IInv, ApprovedAsRun
<1> QED
  BY <1>3, <1>4, <1>5 DEF IInv

LEMMA InitInv == Init => IInv
<1> SUFFICES ASSUME Init PROVE IInv
  OBVIOUS
<1>1. TypeOK
  <2>1. perm \in Permission
    BY DEF Init, SessionPermission, Permission, Mode
  <2>2. /\ asked \in 0 .. N
        /\ tool \in [Call -> Tool]
        /\ resolver \in [Ids -> Call \cup {NoCall}]
    BY BoundAssumption, ToolAssumption DEF Init
  <2>3. out \in Seq(Call) /\ events \in [Call -> Seq(EventType)]
    BY DEF Init
  <2> QED
    BY <2>1, <2>2, <2>3 DEF Init, TypeOK
<1>2. Numbered
  BY BoundAssumption DEF Init, Numbered, Call
<1>3. Alone /\ Steady /\ Registered /\ ApprovedAsRun /\ Traced
  BY DEF Init, Alone, Active, Waiting, Steady, Registered, ApprovedAsRun, Traced
<1> QED
  BY <1>1, <1>2, <1>3 DEF IInv

LEMMA NextInv == IInv /\ [Next]_vars => IInv'
<1> SUFFICES ASSUME IInv, [Next]_vars PROVE IInv'
  OBVIOUS
<1>1. CASE RunStep \/ Abort
  BY <1>1, CallToolsInv, StartBatchInv, RunInv DEF RunStep
<1>2. CASE \E c \in Call : CallStep(c) \/ Timer(c) \/ HookLate(c)
  BY <1>2, HookPassesInv, CheckAnswersInv, QuietEndInv, ToolReturnsInv, TimerInv,
     HookLateInv
     DEF CallStep
<1>3. CASE \E i \in Ids : Approve(i) \/ Reject(i)
  BY <1>3, ApproveInv, RejectInv
<1>4. CASE UNCHANGED vars
  BY <1>4
     DEF vars, IInv, TypeOK, Numbered, Alone, Active, Steady, Registered,
         ApprovedAsRun, Traced
<1> QED
  BY <1>1, <1>2, <1>3, <1>4 DEF Next

------------------------------------------------------------------------------
(* The theorems.                                                           *)

LEMMA Inductive == Spec => []IInv
<1>1. Init => IInv
  BY InitInv
<1>2. IInv /\ [Next]_vars => IInv'
  BY NextInv
<1> QED
  BY <1>1, <1>2, PTL DEF Spec

\* The variables of executeToolCall and its run keep their types, the mode of
\* the session included: exit_plan_mode always finds a mode to return to.
THEOREM TypeCorrect == Spec => []TypeOK
<1>1. IInv => TypeOK
  BY DEF IInv
<1> QED
  BY <1>1, Inductive, PTL

\* No sensitive call executes without the approval of a user, whatever hooks
\* make of its arguments, and whichever ids the LLM gives the calls.
THEOREM SensitiveIsApproved == Spec => []ApprovedAsRun
<1>1. IInv => ApprovedAsRun
  BY DEF IInv
<1> QED
  BY <1>1, Inductive, PTL

\* Only concurrency-safe calls are ever under way together.
THEOREM OneAtATime == Spec => []Alone
<1>1. IInv => Alone
  BY DEF IInv
<1> QED
  BY <1>1, Inductive, PTL

LEMMA FollowedFacts ==
  \A s \in Ended \cup Refused :
    Followed(s, "start", "end") /\ Followed(s, "required", "response")
<1> SUFFICES ASSUME NEW s \in Ended \cup Refused
             PROVE  /\ Followed(s, "start", "end")
                    /\ Followed(s, "required", "response")
  OBVIOUS
<1>1. CASE s = <<>>
  BY <1>1 DEF Followed
<1>2. CASE s = <<"end">>
  BY <1>2 DEF Followed
<1>3. CASE s = <<"required", "response">>
  BY <1>3 DEF Followed
<1>4. CASE s = <<"start", "end">>
  BY <1>4 DEF Followed
<1>5. CASE s = <<"required", "response", "start", "end">>
  BY <1>5 DEF Followed
<1> QED
  BY <1>1, <1>2, <1>3, <1>4, <1>5 DEF Ended, Refused

\* INV-1: at agent.end every tool.start has its tool.end, and every approval
\* that was required its response.
THEOREM EventsArePaired == Spec => []EventsPaired
<1>1. IInv => EventsPaired
  <2> SUFFICES ASSUME IInv, state = "done", NEW c \in 1 .. asked
               PROVE  /\ pc[c] = "done"
                      /\ Followed(events[c], "start", "end")
                      /\ Followed(events[c], "required", "response")
    BY DEF EventsPaired
  <2>1. c \in Call /\ c <= asked
    BY BoundAssumption DEF IInv, TypeOK, Call
  <2>2. pc[c] = "done" /\ events[c] \in Ended \cup Refused
    BY <2>1 DEF IInv, Numbered, Traced
  <2> QED
    BY <2>2, FollowedFacts
<1> QED
  BY <1>1, Inductive, PTL

\* A call starts from the gate with the mode just read, from the check or the
\* approval with a mode nobody has changed meanwhile.
LEMMA StartAllowed ==
  ASSUME IInv, [Next]_vars, NEW c \in Call, Starts(c), tool[c] \in Interactive
  PROVE  perm.mode \in {"default", "bypass"}
<1>2. CASE \E b \in Call : CheckAnswers(b)
  BY <1>2 DEF CheckAnswers, Deny, Allow, WaitForApproval, Begin, Move, IInv,
              TypeOK, Steady, Starts
<1>3. CASE \E b \in Call : HookPasses(b)
  <2>1. PICK b \in Call : HookPasses(b)
    BY <1>3
  <2>2. Policy(tool[b]) = "deny" => pc'[b] = "done"
    BY <2>1 DEF HookPasses, Deny, Move, IInv, TypeOK, Policy
  <2>3. b = c
    BY <2>1 DEF HookPasses, Deny, Allow, WaitForApproval, Begin, Move, IInv,
                TypeOK, Starts
  <2>4. Policy(tool[c]) # "deny"
    BY <2>2, <2>3 DEF Starts
  <2> QED
    BY <2>4 DEF Policy, IInv, TypeOK, Permission, Mode
<1>4. CASE \E i \in Ids : Approve(i)
  BY <1>4 DEF Approve, Begin, Move, IInv, TypeOK, Registered, Steady, Starts
<1>5. CASE RunStep \/ Abort
  BY <1>5 DEF RunStep, Ask, CallTools, StartBatch, Publish, Finish, Abort,
              Entered, Starts, IInv, TypeOK
<1>6. CASE \E b \in Call : \/ HookBlocks(b) \/ CheckThrows(b) \/ ToolReturns(b)
                           \/ HooksReturn(b) \/ SubAgentReturns(b) \/ Timer(b)
                           \/ HookLate(b)
  BY <1>6 DEF HookBlocks, CheckThrows, ToolReturns, HooksReturn,
              SubAgentReturns, Timer, HookLate, Move, Starts, IInv, TypeOK
<1>7. CASE (\E i \in Ids : Reject(i)) \/ UNCHANGED vars
  BY <1>7 DEF Reject, Move, vars, Starts, IInv, TypeOK
<1> QED
  BY <1>2, <1>3, <1>4, <1>5, <1>6, <1>7 DEF Next, CallStep

\* Interactive tools never begin in plan or headless mode: the mode read at
\* the gate is still the session's when the tool begins.
THEOREM ModeIsRespected == Spec => ModeRespected
<1>1. IInv /\ [Next]_vars =>
        [\A c \in Call :
           Starts(c) /\ tool[c] \in Interactive
             => perm.mode \in {"default", "bypass"}]_vars
  BY StartAllowed
<1> QED
  BY <1>1, Inductive, PTL DEF Spec, ModeRespected

------------------------------------------------------------------------------
(* Approvals.                                                              *)

\* What may strand call c, which another call with its id has done.
Overtaken(c) ==
  \E d \in Call \ {c} :
    /\ Id[d] = Id[c]
    /\ d \in timers \ timers' \/ (~Waits(d) /\ Waits(d)')

\* No step but those of a call with the same id strands a call.
LEMMA StrandedStep ==
  ASSUME IInv, [Next]_vars, NEW c \in Call, Waits(c)'
  PROVE  Answerable(c)' \/ (Waits(c) /\ (Answerable(c) => Overtaken(c)))
<1> USE DEF Waits
<1>1. Id[c] \in Ids /\ c # NoCall
  BY CallFacts
<1>2. CASE \E b \in Call : HookPasses(b) \/ CheckAnswers(b)
  <2>1. PICK b \in Call : HookPasses(b) \/ CheckAnswers(b)
    BY <1>2
  <2>2. \/ UNCHANGED <<resolver, timers>> /\ pc'[b] # "approval"
        \/ WaitForApproval(b)
    BY <2>1 DEF HookPasses, CheckAnswers, Deny, Allow, Begin, Move, IInv, TypeOK
  <2>3. pc[b] # "approval" /\ (b # c => pc'[c] = pc[c])
    BY <2>1 DEF HookPasses, CheckAnswers, Deny, Allow, WaitForApproval, Begin,
                Move, IInv, TypeOK
  <2>4. CASE b = c
    BY <1>1, <2>2, <2>4 DEF WaitForApproval, Answerable, IInv, TypeOK
  <2>5. CASE b # c /\ UNCHANGED <<resolver, timers>>
    BY <2>3, <2>5 DEF Answerable
  <2>6. CASE b # c /\ WaitForApproval(b)
    <3>1. pc[c] = "approval" /\ pc'[b] = "approval"
      BY <2>3, <2>6 DEF WaitForApproval, Move, IInv, TypeOK
    <3>2. CASE Id[b] = Id[c]
      BY <2>3, <2>6, <3>1, <3>2 DEF Overtaken
    <3>3. CASE Id[b] # Id[c]
      BY <1>1, <2>6, <3>1, <3>3 DEF WaitForApproval, Answerable, IInv, TypeOK
    <3> QED
      BY <3>2, <3>3
  <2> QED
    BY <2>2, <2>4, <2>5, <2>6
<1>3. CASE \E b \in Call : Timer(b)
  <2>1. PICK b \in Call : Timer(b)
    BY <1>3
  <2>2. pc[c] = "approval"
    BY <2>1 DEF Timer, Move, IInv, TypeOK
  <2>3. CASE b = c
    \* Its own timer finds the resolver and answers the call.
    BY <1>1, <2>1, <2>2, <2>3 DEF Timer, Move, Answerable, IInv, TypeOK
  <2>4. CASE b # c /\ Id[b] = Id[c]
    BY <2>1, <2>2, <2>4 DEF Timer, Overtaken
  <2>5. CASE b # c /\ Id[b] # Id[c]
    BY <1>1, <2>1, <2>2, <2>5 DEF Timer, Answerable, IInv, TypeOK
  <2> QED
    BY <2>3, <2>4, <2>5
<1>4. CASE \E i \in Ids : Approve(i) \/ Reject(i)
  <2>1. PICK i \in Ids : Approve(i) \/ Reject(i)
    BY <1>4
  <2>2. /\ resolver' = [resolver EXCEPT ![i] = NoCall] /\ timers' = timers
        /\ resolver[i] \in Call /\ Id[resolver[i]] = i
    BY <2>1, ResolverFacts DEF Approve, Reject, IInv, Registered
  <2>3. pc'[resolver[i]] \in {"tool", "done"}
        /\ (resolver[i] # c => pc'[c] = pc[c])
    BY <2>1, <2>2 DEF Approve, Reject, Begin, Move, IInv, TypeOK
  <2>4. resolver[i] # c /\ pc[c] = "approval"
    BY <2>2, <2>3
  <2>5. Answerable(c) => Id[c] # i
    BY <2>4 DEF Answerable
  <2> QED
    BY <1>1, <2>2, <2>4, <2>5 DEF Answerable, IInv, TypeOK
<1>5. CASE RunStep \/ Abort
  <2>1. UNCHANGED <<resolver, timers>> /\ pc[c] = "approval"
    BY <1>5 DEF RunStep, Ask, CallTools, StartBatch, Publish, Finish, Abort,
                Entered, IInv, TypeOK
  <2> QED
    BY <2>1 DEF Answerable
<1>6. CASE \E b \in Call : \/ HookBlocks(b) \/ CheckThrows(b) \/ ToolReturns(b)
                           \/ HooksReturn(b) \/ SubAgentReturns(b) \/ HookLate(b)
  <2>1. UNCHANGED <<resolver, timers>> /\ pc[c] = "approval"
    BY <1>6 DEF HookBlocks, CheckThrows, ToolReturns, HooksReturn,
                SubAgentReturns, HookLate, Move, IInv, TypeOK
  <2> QED
    BY <2>1 DEF Answerable
<1>7. CASE UNCHANGED vars
  BY <1>7 DEF vars, Answerable
<1> QED
  BY <1>2, <1>3, <1>4, <1>5, <1>6, <1>7 DEF Next, CallStep

\* Whichever ids the LLM gives, also one id to all: a call that asks for approval
\* can be answered, and by its own timer, until a call with the same id asks or
\* has its timer fire.
THEOREM OnlyItsIdStrands == Spec => StrandedByItsId
<1>1. IInv /\ [Next]_vars =>
        [\A c \in Call : Waits(c)' =>
           \/ Answerable(c)'
           \/ /\ Waits(c)
              /\ Answerable(c) =>
                   \E d \in Call \ {c} :
                     /\ Id[d] = Id[c]
                     /\ d \in timers \ timers' \/ (~Waits(d) /\ Waits(d)')]_vars
  BY StrandedStep DEF Overtaken
<1> QED
  BY <1>1, Inductive, PTL DEF Spec, StrandedByItsId

------------------------------------------------------------------------------
(* Delivery.                                                               *)

UpTo(n) == [c \in 1 .. n |-> c]

\* What has been delivered are the results of a prefix of the calls.
Delivered == \E n \in 0 .. asked : out = UpTo(n)

DoneCalls == {c \in Call : pc[c] = "done"}

\* A step other than Publish delivers nothing and takes back no result.
LEMMA DoneGrows ==
  ASSUME IInv, [Next]_vars
  PROVE  /\ DoneCalls \subseteq DoneCalls'
         /\ asked <= asked' /\ (Publish \/ out' = out)
<1>1. asked \in Nat
  BY DEF IInv, TypeOK
<1>2. CASE RunStep \/ Abort
  <2>1. CASE CallTools
    <3>1. \A c \in Call : pc[c] = "done" => c <= asked
      BY <1>1 DEF IInv, Numbered, Call
    <3>2. \A c \in Call : c <= asked => pc'[c] = pc[c]
      BY <1>1, <2>1 DEF CallTools, IInv, TypeOK, Call
    <3>3. asked <= asked' /\ out' = out
      BY <1>1, <2>1 DEF CallTools
    <3> QED
      BY <3>1, <3>2, <3>3 DEF DoneCalls
  <2>2. CASE StartBatch
    <3>1. \A c \in Call : pc[c] = "done" => pc'[c] = "done"
      BY <2>2 DEF StartBatch, NextBatch, Queued
    <3> QED
      BY <1>1, <2>2, <3>1 DEF StartBatch, DoneCalls
  <2>3. CASE Ask \/ Publish \/ Finish \/ Abort
    BY <1>1, <2>3 DEF Ask, Publish, Finish, Abort, DoneCalls
  <2> QED
    BY <1>2, <2>1, <2>2, <2>3 DEF RunStep
<1>3. CASE \E b \in Call : HookPasses(b) \/ CheckAnswers(b)
  BY <1>1, <1>3
     DEF HookPasses, CheckAnswers, Deny, Allow, WaitForApproval, Begin, Move,
         DoneCalls, IInv, TypeOK
<1>4. CASE \E b \in Call : \/ HookBlocks(b) \/ CheckThrows(b) \/ ToolReturns(b)
                           \/ HooksReturn(b) \/ SubAgentReturns(b) \/ Timer(b)
                           \/ HookLate(b)
  BY <1>1, <1>4
     DEF HookBlocks, CheckThrows, ToolReturns, HooksReturn, SubAgentReturns,
         Timer, HookLate, Move, DoneCalls, IInv, TypeOK
<1>5. CASE \E i \in Ids : Approve(i) \/ Reject(i)
  <2>1. PICK i \in Ids : Approve(i) \/ Reject(i)
    BY <1>5
  <2>2. resolver[i] \in Call /\ pc[resolver[i]] = "approval"
    BY <2>1, ResolverFacts DEF Approve, Reject
  <2> QED
    BY <1>1, <2>1, <2>2 DEF Approve, Reject, Begin, Move, DoneCalls, IInv, TypeOK
<1>6. CASE UNCHANGED vars
  BY <1>1, <1>6 DEF vars, DoneCalls
<1> QED
  BY <1>2, <1>3, <1>4, <1>5, <1>6 DEF Next, CallStep

LEMMA DeliveredInv ==
  ASSUME IInv, Delivered, [Next]_vars
  PROVE  Delivered'
<1>1. asked \in Nat /\ asked' \in Nat /\ asked <= asked'
  BY DoneGrows, NextInv DEF IInv, TypeOK
<1>2. CASE Publish
  BY <1>1, <1>2 DEF Publish, Delivered, UpTo
<1>3. CASE out' = out
  BY <1>1, <1>3 DEF Delivered
<1> QED
  BY <1>2, <1>3, DoneGrows

\* One publication extends what was delivered by the calls of the round.
LEMMA PublishDelivers ==
  ASSUME IInv, Delivered, Publish
  PROVE  out' = out \/ \E k \in 1 .. N : Delivery!Deliver(k)
<1>1. PICK n \in 0 .. asked : out = UpTo(n)
  BY DEF Delivered
<1>2. out' = UpTo(asked) /\ pc' = pc
  BY DEF Publish, UpTo
<1>3. asked \in Nat /\ n \in Nat /\ N \in Nat /\ asked <= N
  BY BoundAssumption DEF IInv, TypeOK
<1>4. CASE n = asked
  BY <1>1, <1>2, <1>4
<1>5. CASE n # asked
  <2> DEFINE k == asked - n
  <2> DEFINE next == [j \in 1 .. k |-> n + j]
  <2>1. k \in 1 .. N
    BY <1>3, <1>5
  <2>2. /\ out \in Seq(Nat) /\ Len(out) = n
        /\ next \in Seq(Nat) /\ Len(next) = k
        /\ out' \in Seq(Nat) /\ Len(out') = asked
    BY <1>1, <1>2, <1>3, <2>1 DEF UpTo
  <2>3. /\ \A i \in 1 .. n : out[i] = i
        /\ \A i \in 1 .. k : next[i] = n + i
        /\ \A i \in 1 .. asked : out'[i] = i
    BY <1>1, <1>2, <1>3, <2>1 DEF UpTo
  <2>4. k \in Nat /\ n + k = asked
    BY <1>3, <2>1
  <2>5. out' = out \o next
    <3> HIDE DEF k, next
    <3>1. /\ out \o next \in Seq(Nat)
          /\ Len(out \o next) = n + k
          /\ \A i \in 1 .. n + k :
               (out \o next)[i] = IF i <= n THEN out[i] ELSE next[i - n]
      BY <2>2, ConcatProperties
    <3>2. \A i \in 1 .. asked : (out \o next)[i] = out'[i]
      BY SMTT(30), <1>3, <2>3, <2>4, <3>1
    <3> QED
      BY <2>2, <2>4, <3>1, <3>2, SeqEqual
  <2>6. \A j \in 1 .. k : next[j] \in DoneCalls
    <3>1. \A c \in Call : c <= asked => pc[c] = "done"
      <4> SUFFICES ASSUME NEW c \in Call, c <= asked
                   PROVE  pc[c] = "done"
        OBVIOUS
      <4>1. pc[c] # "none"
        BY <1>3 DEF IInv, Numbered, Call
      <4>2. pc[c] # "queued" /\ pc[c] \notin Waiting
        BY DEF Publish, Active, Queued
      <4> QED
        BY <4>1, <4>2 DEF IInv, TypeOK
    <3>2. \A j \in 1 .. k : n + j \in Call /\ n + j <= asked
      BY <1>3, <2>4 DEF Call
    <3> QED
      BY <2>3, <3>1, <3>2 DEF DoneCalls
  <2>7. DoneCalls' = DoneCalls
    BY <1>2 DEF DoneCalls
  <2>8. Delivery!Deliver(k)
    <3>1. next = [j \in 1 .. k |-> Len(out) + j]
      BY <2>2
    <3> QED
      BY <2>5, <2>6, <2>7, <3>1 DEF Delivery!Deliver, DoneCalls
  <2> QED
    BY <2>1, <2>8
<1> QED
  BY <1>4, <1>5

\* INV-2: partitioned execution delivers each result once, in the order of the
\* calls, and none before its call has ended.
THEOREM ImplementsDelivery == Spec => DeliverySpec
<1>1. Init => Delivery!Init /\ Delivered
  BY BoundAssumption DEF Init, Delivery!Init, Delivered, UpTo
<1>2. IInv /\ Delivered /\ [Next]_vars => Delivered'
  BY DeliveredInv
<1>3. IInv /\ Delivered /\ [Next]_vars
        => [Delivery!Next]_<<DoneCalls, out>>
  <2> SUFFICES ASSUME IInv, Delivered, [Next]_vars,
                      ~UNCHANGED <<DoneCalls, out>>
               PROVE  Delivery!Next
    OBVIOUS
  <2>1. CASE out' = out
    <3>1. DoneCalls' \in SUBSET (1 .. N) /\ DoneCalls' = DoneCalls \cup DoneCalls'
      BY DoneGrows DEF DoneCalls, Call
    <3> QED
      BY <2>1, <3>1 DEF Delivery!Next, Delivery!Finish, DoneCalls
  <2>2. CASE Publish
    <3>1. DoneCalls' = DoneCalls
      BY <2>2 DEF Publish, DoneCalls
    <3> QED
      BY <2>2, <3>1, PublishDelivers DEF Delivery!Next
  <2> QED
    BY <2>1, <2>2, DoneGrows
<1> QED
  BY <1>1, <1>2, <1>3, Inductive, PTL
     DEF Spec, DeliverySpec, Delivery!Spec, DoneCalls

==============================================================================
