------------------------- MODULE ControlWriteProofs -------------------------
(* Safety of the control calls for every number of callers, settings and     *)
(* sessions: _lock serializes the writes and every request has an id of its  *)
(* own; and, if answers can be told apart, a control call tells the          *)
(* application what the device has decided.                                  *)
EXTENDS ControlWrite, TLAPS, SequenceTheorems

(* Whoever has a place in the line of _lock wants it, and whoever uses what  *)
(* _lock guards is the first in the line: the callers and the keepalive.     *)
Tasks == Callers \cup {"keepalive"}

Wants(task) == IF task \in Callers THEN call[task].phase \in Active
               ELSE keepalive # "asleep"
Uses(task) == IF task \in Callers THEN call[task].phase \in {"sending", "waiting"}
              ELSE keepalive = "writing"

LineWants == \A i \in 1 .. Len(lock) : Wants(lock[i])
FirstUses == \A task \in Tasks : Uses(task) => HeadOfLine(task)

Line == NobodyTwice /\ LineWants /\ FirstUses

Others(task) == \A d \in Tasks : d # task =>
                    /\ Wants(d)' <=> Wants(d)
                    /\ Uses(d)' <=> Uses(d)

Types ==
    /\ session \in [status : {"DISCONNECTED", "CONNECTED", "READY"},
                    failed : BOOLEAN]
    /\ lock \in Seq(Tasks)
    /\ call \in [Callers -> Call]
    /\ keepalive \in {"asleep", "locking", "writing"}
    /\ results \in Results
    /\ nextId \in Nat
    /\ air \in Seq(Request)
    /\ verdict \in [Callers -> {"none", "accepted", "rejected"}]
    /\ unanswered \subseteq Properties
    /\ budget \in [calls : Nat, reads : Nat, reports : Nat, sessions : Nat]

-----------------------------------------------------------------------------
(* What removing one entry from the line does to it.                         *)
LEMMA Removed ==
    ASSUME NEW S, NEW q \in Seq(S), NEW i \in 1 .. Len(q)
    PROVE  /\ RemoveAt(q, i) \in Seq(S)
           /\ Len(RemoveAt(q, i)) = Len(q) - 1
           /\ \A j \in 1 .. Len(q) - 1 :
                RemoveAt(q, i)[j] = q[IF j < i THEN j ELSE j + 1]
<1> DEFINE before == SubSeq(q, 1, i - 1)
           after == SubSeq(q, i + 1, Len(q))
<1>1. /\ before \in Seq(S) /\ Len(before) = i - 1
      /\ \A j \in 1 .. i - 1 : before[j] = q[j]
  <2>1. \A j \in 1 .. i - 1 : q[j] \in S
    OBVIOUS
  <2> QED BY <2>1, SubSeqProperties
<1>2. /\ after \in Seq(S) /\ Len(after) = Len(q) - i
      /\ \A j \in 1 .. Len(q) - i : after[j] = q[i + j]
  <2>1. \A j \in i + 1 .. Len(q) : q[j] \in S
    OBVIOUS
  <2> QED BY <2>1, SubSeqProperties
<1> HIDE DEF before, after
<1>3. /\ before \o after \in Seq(S)
      /\ Len(before \o after) = Len(before) + Len(after)
      /\ \A j \in 1 .. Len(before) + Len(after) :
            (before \o after)[j] = IF j <= Len(before) THEN before[j]
                                   ELSE after[j - Len(before)]
  BY <1>1, <1>2, ConcatProperties
<1> DEFINE rest == before \o after
<1>4. RemoveAt(q, i) = rest
  BY DEF RemoveAt, before, after
<1>5. rest \in Seq(S)
  BY <1>3
<1>6. Len(rest) = Len(q) - 1
  BY <1>1, <1>2, <1>3
<1>7. ASSUME NEW j \in 1 .. Len(q) - 1
      PROVE  rest[j] = q[IF j < i THEN j ELSE j + 1]
  <2>1. j \in 1 .. Len(before) + Len(after)
    BY <1>1, <1>2
  <2>2. CASE j < i
    BY <2>1, <2>2, <1>1, <1>3
  <2>3. CASE ~(j < i)
    <3>1. j - Len(before) \in 1 .. Len(q) - i /\ ~(j <= Len(before))
      BY <2>3, <1>1
    <3>2. rest[j] = after[j - Len(before)]
      BY <3>1, <2>1, <1>3
    <3>3. after[j - Len(before)] = q[i + (j - Len(before))]
      BY <3>1, <1>2
    <3> QED BY <3>2, <3>3, <2>3, <1>1
  <2> QED BY <2>2, <2>3
<1> HIDE DEF rest
<1> QED BY <1>4, <1>5, <1>6, <1>7

LEMMA InitTypes == Init => Types
<1> SUFFICES ASSUME Init PROVE Types
  OBVIOUS
<1>1. call \in [Callers -> Call]
  BY DEF Init, Call, Ended
<1>2. results \in Results
  BY DEF Init, Results
<1> QED BY <1>1, <1>2, ControlAssumption DEF Init, Types

LEMMA InitLine == Init => Line
<1> SUFFICES ASSUME Init PROVE Line
  OBVIOUS
<1>1. \A task \in Tasks : ~Uses(task)
  BY DEF Init, Uses
<1> QED BY <1>1 DEF Init, Line, NobodyTwice, LineWants, FirstUses

LEMMA InitIds == Init => IdsFresh
BY DEF Init, IdsFresh

(* The head of the line goes, and with it its owner.                         *)
LEMMA OwnerGoes ==
    ASSUME Types, Line, NEW c \in Tasks, HeadOfLine(c), lock' = Tail(lock),
           ~Uses(c)', Others(c)
    PROVE  Line'
<1>1. /\ lock \in Seq(Tasks) /\ Len(lock) \in Nat \ {0}
      /\ lock[1] = c
  BY DEF Types, HeadOfLine
<1>2. /\ lock' \in Seq(Tasks) /\ Len(lock') = Len(lock) - 1
      /\ \A j \in 1 .. Len(lock) - 1 : lock'[j] = lock[j + 1]
  BY <1>1
<1>3. ASSUME NEW j \in 1 .. Len(lock')
      PROVE  /\ j + 1 \in 1 .. Len(lock) /\ lock'[j] = lock[j + 1]
             /\ lock'[j] \in Tasks /\ lock'[j] # c
  <2>1. j + 1 \in 1 .. Len(lock) /\ 1 \in 1 .. Len(lock) /\ j + 1 # 1
    BY <1>1, <1>2
  <2>2. lock[j + 1] # lock[1]
    BY <2>1 DEF Line, NobodyTwice
  <2>3. lock'[j] = lock[j + 1]
    BY <1>1, <1>2
  <2>4. lock[j + 1] \in Tasks
    BY <1>1, <2>1
  <2> QED BY <1>1, <2>1, <2>2, <2>3, <2>4
<1>4. NobodyTwice'
  <2>1. SUFFICES ASSUME NEW j \in 1 .. Len(lock'), NEW k \in 1 .. Len(lock'),
                        lock'[j] = lock'[k]
                 PROVE  j = k
    BY DEF NobodyTwice
  <2>2. lock[j + 1] = lock[k + 1] /\ j + 1 \in 1 .. Len(lock)
        /\ k + 1 \in 1 .. Len(lock)
    BY <1>3, <2>1
  <2>3. j + 1 = k + 1
    BY <2>2 DEF Line, NobodyTwice
  <2> QED BY <2>3
<1>5. LineWants'
  <2>1. SUFFICES ASSUME NEW j \in 1 .. Len(lock'), NEW x, x = lock'[j]
                 PROVE  Wants(x)'
    BY DEF LineWants, Wants
  <2>2. x \in Tasks /\ x # c /\ Wants(x)
    BY <1>3, <2>1 DEF Line, LineWants
  <2> QED BY <2>2 DEF Others
<1>6. FirstUses'
  <2>1. SUFFICES ASSUME NEW d \in Tasks, Uses(d)' PROVE FALSE
    BY DEF FirstUses
  <2>2. d # c /\ HeadOfLine(d)
    BY <2>1 DEF Others, Line, FirstUses
  <2> QED BY <2>2 DEF HeadOfLine
<1> QED BY <1>4, <1>5, <1>6 DEF Line

(* A step that leaves the line and moves nobody but its owner.               *)
LEMMA OwnerMoves ==
    ASSUME Types, Line, NEW c \in Tasks, UNCHANGED lock, HeadOfLine(c),
           Wants(c)', Others(c)
    PROVE  Line'
<1>1. NobodyTwice'
  BY DEF Line, NobodyTwice
<1>2. LineWants'
  <2>1. SUFFICES ASSUME NEW i \in 1 .. Len(lock) PROVE Wants(lock[i])'
    BY DEF LineWants, Wants
  <2>2. lock[i] \in Tasks /\ Wants(lock[i])
    BY DEF Types, Line, LineWants
  <2> QED BY <2>2 DEF Others
<1>3. FirstUses'
  <2>1. SUFFICES ASSUME NEW d \in Tasks, Uses(d)' PROVE HeadOfLine(d)
    BY DEF FirstUses, HeadOfLine
  <2> QED BY <2>1 DEF Others, Line, FirstUses
<1> QED BY <1>1, <1>2, <1>3 DEF Line

(* A task joins the end of the line.                                         *)
LEMMA TaskJoins ==
    ASSUME Types, Line, NEW c \in Tasks, ~Wants(c), lock' = Append(lock, c),
           Wants(c)', lock # <<>> => ~Uses(c)', Others(c)
    PROVE  Line'
<1>1. /\ lock \in Seq(Tasks) /\ Len(lock) \in Nat
      /\ Len(lock') = Len(lock) + 1 /\ lock'[Len(lock) + 1] = c
      /\ \A i \in 1 .. Len(lock) : lock'[i] = lock[i] /\ lock[i] \in Tasks
  BY DEF Types
<1>2. \A i \in 1 .. Len(lock) : lock[i] # c
  BY DEF Line, LineWants
<1>3. NobodyTwice'
  <2>1. SUFFICES ASSUME NEW j \in 1 .. Len(lock'), NEW k \in 1 .. Len(lock'),
                        lock'[j] = lock'[k]
                 PROVE  j = k
    BY DEF NobodyTwice
  <2>2. CASE j \in 1 .. Len(lock) /\ k \in 1 .. Len(lock)
    <3>1. lock[j] = lock[k]
      BY <2>1, <2>2, <1>1
    <3> QED BY <3>1, <2>2 DEF Line, NobodyTwice
  <2>3. CASE j = Len(lock) + 1
    BY <2>1, <2>3, <1>1, <1>2
  <2>4. CASE k = Len(lock) + 1
    BY <2>1, <2>4, <1>1, <1>2
  <2> QED BY <2>2, <2>3, <2>4, <1>1
<1>4. LineWants'
  <2>1. ASSUME NEW i \in 1 .. Len(lock) PROVE Wants(lock[i])'
    <3>1. lock[i] \in Tasks /\ lock[i] # c /\ Wants(lock[i])
      BY <1>1, <1>2 DEF Line, LineWants
    <3> QED BY <3>1 DEF Others
  <2>2. SUFFICES ASSUME NEW j \in 1 .. Len(lock') PROVE Wants(lock[j])' \/ j = Len(lock) + 1
    BY <1>1 DEF LineWants, Wants
  <2>3. j \in 1 .. Len(lock) \/ j = Len(lock) + 1
    BY <1>1
  <2> QED BY <1>1, <2>1, <2>3 DEF Wants
<1>5. FirstUses'
  <2>1. SUFFICES ASSUME NEW d \in Tasks, Uses(d)' PROVE HeadOfLine(d)'
    BY DEF FirstUses
  <2>2. CASE d # c
    <3>1. lock # <<>> /\ Head(lock) = d
      BY <2>1, <2>2 DEF Others, Line, FirstUses, HeadOfLine
    <3>2. lock'[1] = lock[1] /\ lock[1] = d /\ lock' \in Seq(Tasks)
      BY <3>1, <1>1
    <3>3. Head(lock') = lock'[1] /\ lock' # <<>>
      BY <3>2, <1>1
    <3> QED BY <3>2, <3>3 DEF HeadOfLine
  <2>3. CASE d = c
    <3>1. lock = <<>>
      BY <2>1, <2>3
    <3>2. Head(lock') = c /\ lock' # <<>>
      BY <3>1
    <3> QED BY <3>2, <2>3 DEF HeadOfLine
  <2> QED BY <2>2, <2>3
<1> QED BY <1>3, <1>4, <1>5 DEF Line

(* A task that leaves the line where it stands: nobody passes anybody.       *)
LEMMA TaskLeaves ==
    ASSUME Types, Line, NEW c \in Tasks, LeavesLine(c), ~Uses(c)', Others(c)
    PROVE  Line'
<1>1. PICK i \in 1 .. Len(lock) : lock[i] = c /\ lock' = RemoveAt(lock, i)
  BY DEF LeavesLine
<1> DEFINE old(j) == IF j < i THEN j ELSE j + 1
<1>2. lock \in Seq(Tasks) /\ Len(lock) \in Nat
  BY DEF Types
<1>3. /\ lock' \in Seq(Tasks) /\ Len(lock') = Len(lock) - 1
      /\ \A j \in 1 .. Len(lock) - 1 : lock'[j] = lock[old(j)]
  BY <1>1, <1>2, Removed
<1>4. ASSUME NEW j \in 1 .. Len(lock')
      PROVE  /\ old(j) \in 1 .. Len(lock) /\ lock'[j] = lock[old(j)]
             /\ lock'[j] \in Tasks /\ lock'[j] # c
  <2>1. old(j) \in 1 .. Len(lock) /\ old(j) # i
    BY <1>2, <1>3
  <2>2. lock[old(j)] # lock[i]
    BY <2>1 DEF Line, NobodyTwice
  <2>3. lock'[j] = lock[old(j)]
    BY <1>2, <1>3
  <2>4. lock[old(j)] \in Tasks
    BY <2>1, <1>2
  <2> QED BY <1>1, <2>1, <2>2, <2>3, <2>4
<1>5. NobodyTwice'
  <2>1. SUFFICES ASSUME NEW j \in 1 .. Len(lock'), NEW k \in 1 .. Len(lock'),
                        lock'[j] = lock'[k]
                 PROVE  j = k
    BY DEF NobodyTwice
  <2>2. lock[old(j)] = lock[old(k)] /\ old(j) \in 1 .. Len(lock)
        /\ old(k) \in 1 .. Len(lock)
    BY <1>4, <2>1
  <2>3. old(j) = old(k)
    BY <2>2 DEF Line, NobodyTwice
  <2> QED BY <2>3
<1>6. LineWants'
  <2>1. SUFFICES ASSUME NEW j \in 1 .. Len(lock'), NEW x, x = lock'[j]
                 PROVE  Wants(x)'
    BY DEF LineWants, Wants
  <2>2. x \in Tasks /\ x # c /\ Wants(x)
    BY <1>4, <2>1 DEF Line, LineWants
  <2> QED BY <2>2 DEF Others
<1>7. FirstUses'
  <2>1. SUFFICES ASSUME NEW d \in Tasks, Uses(d)' PROVE HeadOfLine(d)'
    BY DEF FirstUses
  <2>2. d # c /\ Uses(d)
    BY <2>1 DEF Others
  <2>3. lock # <<>> /\ Head(lock) = d /\ lock[1] = d
    BY <2>2, <1>2 DEF Line, FirstUses, HeadOfLine
  <2>4. 1 < i /\ 1 \in 1 .. Len(lock) - 1
    BY <2>2, <2>3, <1>1, <1>2
  <2>5. lock'[1] = lock[old(1)] /\ lock[old(1)] = lock[1]
    BY <2>4, <1>3
  <2>6. lock' # <<>> /\ Head(lock') = lock'[1]
    BY <2>4, <1>3
  <2> QED BY <2>3, <2>5, <2>6 DEF HeadOfLine
<1> QED BY <1>5, <1>6, <1>7 DEF Line

(* Whose step it is: one caller's, or the keepalive's.                       *)
LEMMA CallerSteps ==
    ASSUME NEW c \in Callers, UNCHANGED keepalive,
           \A d \in Callers : d # c => call'[d] = call[d]
    PROVE  /\ Others(c) /\ c \in Tasks
           /\ Wants(c) <=> call[c].phase \in Active
           /\ Wants(c)' <=> call'[c].phase \in Active
           /\ Uses(c) <=> call[c].phase \in {"sending", "waiting"}
           /\ Uses(c)' <=> call'[c].phase \in {"sending", "waiting"}
BY DEF Others, Tasks, Wants, Uses

LEMMA KeepaliveSteps ==
    ASSUME UNCHANGED call
    PROVE  /\ Others("keepalive") /\ "keepalive" \in Tasks
           /\ Wants("keepalive") <=> keepalive # "asleep"
           /\ Wants("keepalive")' <=> keepalive' # "asleep"
           /\ Uses("keepalive") <=> keepalive = "writing"
           /\ Uses("keepalive")' <=> keepalive' = "writing"
BY ControlAssumption DEF Others, Tasks, Wants, Uses

(* A caller under way, or granted the lock, is the first in the line.        *)
LEMMA CallerFirst ==
    ASSUME Line, NEW c \in Callers,
           Granted(c) \/ call[c].phase \in {"sending", "waiting"}
    PROVE  HeadOfLine(c)
BY DEF Line, FirstUses, Tasks, Uses, Granted

LEMMA KeepaliveFirst ==
    ASSUME Line, KeepaliveGranted \/ keepalive = "writing"
    PROVE  HeadOfLine("keepalive")
BY ControlAssumption DEF Line, FirstUses, Tasks, Uses, KeepaliveGranted

LEMMA LineSerializes == Line => WritesSerialized
BY ControlAssumption DEF Line, FirstUses, Tasks, Uses, WritesSerialized

(* A call ends.                                                              *)
LEMMA EndsKeepsLine ==
    ASSUME Types, Line, NEW c \in Callers, NEW phase \in Ended,
           HeadOfLine(c), Ends(c, phase), UNCHANGED keepalive
    PROVE  Line'
<1>1. /\ call'[c].phase = phase /\ lock' = Tail(lock)
      /\ \A d \in Callers : d # c => call'[d] = call[d]
  BY DEF Ends, Types
<1>2. ~Uses(c)' /\ Others(c) /\ c \in Tasks
  BY <1>1, CallerSteps DEF Ended
<1> QED BY <1>1, <1>2, OwnerGoes

LEMMA CallerJoins ==
    ASSUME Types, Line, NEW c \in Callers, call[c].phase \in Ended,
           lock' = Append(lock, c), UNCHANGED keepalive,
           \A d \in Callers : d # c => call'[d] = call[d],
           call'[c].phase \in Active,
           lock # <<>> => call'[c].phase = "locking"
    PROVE  Line'
<1>1. /\ Others(c) /\ c \in Tasks /\ ~Wants(c) /\ Wants(c)'
      /\ lock # <<>> => ~Uses(c)'
  BY CallerSteps DEF Ended, Active
<1> QED BY <1>1, TaskJoins

LEMMA KeepaliveKeepsLine ==
    ASSUME Types, Line,
           \/ KeepaliveWakes \/ KeepaliveStart \/ KeepaliveSent
           \/ KeepaliveFails \/ KeepaliveCancelled
    PROVE  Line'
<1>1. UNCHANGED call
  BY DEF KeepaliveWakes, KeepaliveStart, KeepaliveSent, KeepaliveFails,
         KeepaliveCancelled
<1>2. CASE KeepaliveWakes
  <2>1. /\ lock' = Append(lock, "keepalive") /\ keepalive = "asleep"
        /\ keepalive' \in {"locking", "writing"}
        /\ lock # <<>> => keepalive' = "locking"
    BY <1>2 DEF KeepaliveWakes, Asks
  <2>2. /\ Others("keepalive") /\ "keepalive" \in Tasks
        /\ ~Wants("keepalive") /\ Wants("keepalive")'
        /\ lock # <<>> => ~Uses("keepalive")'
    BY <1>1, <2>1, KeepaliveSteps
  <2> QED BY <2>1, <2>2, TaskJoins
<1>3. CASE KeepaliveStart
  <2>1. /\ HeadOfLine("keepalive") /\ UNCHANGED lock
        /\ keepalive' = "writing"
    BY <1>3 DEF KeepaliveStart, KeepaliveGranted, Asks
  <2>2. /\ Others("keepalive") /\ "keepalive" \in Tasks
        /\ Wants("keepalive")'
    BY <1>1, <2>1, KeepaliveSteps
  <2> QED BY <2>1, <2>2, OwnerMoves
<1>4. CASE KeepaliveSent \/ KeepaliveFails
  <2>1. HeadOfLine("keepalive") /\ lock' = Tail(lock) /\ keepalive' = "asleep"
    BY <1>4, KeepaliveFirst DEF KeepaliveSent, KeepaliveFails, Sleeps
  <2>2. /\ Others("keepalive") /\ "keepalive" \in Tasks
        /\ ~Uses("keepalive")'
    BY <1>1, <2>1, KeepaliveSteps
  <2> QED BY <2>1, <2>2, OwnerGoes
<1>5. CASE KeepaliveCancelled
  <2>1. LeavesLine("keepalive") /\ keepalive' = "asleep"
    BY <1>5 DEF KeepaliveCancelled
  <2>2. /\ Others("keepalive") /\ "keepalive" \in Tasks
        /\ ~Uses("keepalive")'
    BY <1>1, <2>1, KeepaliveSteps
  <2> QED BY <2>1, <2>2, TaskLeaves
<1> QED BY <1>2, <1>3, <1>4, <1>5

LEMMA StepLine ==
    ASSUME Types, Line, [Next]_vars
    PROVE  Line'
<1>0. ASSUME UNCHANGED <<lock, call, keepalive>>
      PROVE  Line'
  <2>1. \A task : (Wants(task)' <=> Wants(task)) /\ (Uses(task)' <=> Uses(task))
    BY <1>0 DEF Wants, Uses
  <2> QED BY <1>0, <2>1
          DEF Line, NobodyTwice, LineWants, FirstUses, HeadOfLine, Wants
<1>3. ASSUME NEW c \in Callers, NEW p \in Properties, CallAtOnce(c, p)
      PROVE  Line'
  <2>1. call'[c].phase = "sending" /\ \A d \in Callers : d # c => call'[d] = call[d]
    BY <1>3 DEF CallAtOnce, Transmit, Types
  <2> QED BY <1>3, <2>1, CallerJoins DEF CallAtOnce, Called, Active
<1>4. ASSUME NEW c \in Callers, NEW p \in Properties, CallQueued(c, p)
      PROVE  Line'
  <2>1. call'[c].phase = "locking" /\ \A d \in Callers : d # c => call'[d] = call[d]
    BY <1>4 DEF CallQueued, Types
  <2> QED BY <1>4, <2>1, CallerJoins DEF CallQueued, Called, Active
<1>5. ASSUME NEW c \in Callers, call'[c].phase \in Active, HeadOfLine(c),
             UNCHANGED <<lock, keepalive>>,
             \A d \in Callers : d # c => call'[d] = call[d]
      PROVE  Line'
  <2>1. Others(c) /\ c \in Tasks /\ Wants(c)'
    BY <1>5, CallerSteps
  <2> QED BY <1>5, <2>1, OwnerMoves
<1>6. ASSUME NEW c \in Callers, WriteStart(c)
      PROVE  Line'
  <2>1. call'[c].phase = "sending" /\ \A d \in Callers : d # c => call'[d] = call[d]
    BY <1>6 DEF WriteStart, Transmit, Types
  <2>2. HeadOfLine(c)
    BY <1>6 DEF WriteStart, Granted
  <2> QED BY <1>5, <1>6, <2>1, <2>2 DEF WriteStart, Active
<1>7. ASSUME NEW c \in Callers, WriteRefused(c)
      PROVE  Line'
  BY <1>7, CallerFirst, EndsKeepsLine DEF WriteRefused, Ended
<1>8. ASSUME NEW c \in Callers, WriteSent(c)
      PROVE  Line'
  <2>1. HeadOfLine(c)
    BY <1>8, CallerFirst DEF WriteSent
  <2>2. CASE Ends(c, "raised")
    BY <1>8, <2>1, <2>2, EndsKeepsLine DEF WriteSent, Ended
  <2>3. CASE ~Ends(c, "raised")
    <3>1. /\ call'[c].phase = "waiting" /\ UNCHANGED lock
          /\ \A d \in Callers : d # c => call'[d] = call[d]
      BY <1>8, <2>3 DEF WriteSent, Types, Call
    <3> QED BY <1>5, <1>8, <2>1, <3>1 DEF WriteSent, Active
  <2> QED BY <2>2, <2>3
<1>9. ASSUME NEW c \in Callers,
             SendFails(c) \/ TakeSentinel(c) \/ TakeAnswer(c) \/ GiveUp(c)
      PROVE  Line'
  <2>1. PICK phase \in Ended : Ends(c, phase)
    BY <1>9 DEF SendFails, TakeSentinel, TakeAnswer, GiveUp, Ended
  <2>2. HeadOfLine(c)
    BY <1>9, CallerFirst DEF SendFails, TakeSentinel, TakeAnswer, GiveUp
  <2>3. UNCHANGED keepalive
    BY <1>9 DEF SendFails, TakeSentinel, TakeAnswer, GiveUp
  <2> QED BY <2>1, <2>2, <2>3, EndsKeepsLine
<1>10. ASSUME NEW c \in Callers, TakeUnrelated(c)
       PROVE  Line'
  <2>1. HeadOfLine(c)
    BY <1>10, CallerFirst DEF TakeUnrelated
  <2>2. CASE Ends(c, "raised")
    BY <1>10, <2>1, <2>2, EndsKeepsLine DEF TakeUnrelated, Ended
  <2>3. CASE ~Ends(c, "raised")
    BY <1>0, <1>10, <2>3 DEF TakeUnrelated
  <2> QED BY <2>2, <2>3
<1>11. ASSUME NEW c \in Callers, CancelledInLine(c)
       PROVE  Line'
  <2>1. /\ call'[c].phase = "raised" /\ LeavesLine(c) /\ UNCHANGED keepalive
        /\ \A d \in Callers : d # c => call'[d] = call[d]
    BY <1>11 DEF CancelledInLine, Types
  <2>2. Others(c) /\ c \in Tasks /\ ~Uses(c)'
    BY <2>1, CallerSteps
  <2> QED BY <2>1, <2>2, TaskLeaves
<1>12. ASSUME NEW c \in Callers, Writing(c)
       PROVE  Line'
  BY <1>6, <1>7, <1>8, <1>9, <1>10, <1>11, <1>12 DEF Writing
<1>13. ASSUME \/ SessionFails \/ SessionCloses \/ SessionOpens \/ SessionReady
              \/ DeviceDecides \/ DeviceReports
              \/ DeviceMisses \/ Finished \/ UNCHANGED vars
       PROVE  Line'
  BY <1>0, <1>13 DEF SessionFails, SessionCloses, SessionOpens, SessionReady,
     DeviceDecides, DeviceReports, DeviceMisses, Finished, vars
<1> QED BY <1>3, <1>4, <1>12, <1>13, KeepaliveKeepsLine DEF Next

-----------------------------------------------------------------------------
(* Types, variable by variable.                                              *)
LEMMA FreshNat ==
    ASSUME NEW n \in Nat
    PROVE  Fresh(n) \in Nat /\ Fresh(n) >= n /\ Fresh(n) # Reserved
BY ControlAssumption DEF Fresh

LEMMA Spent ==
    ASSUME NEW b \in [calls : Nat, reads : Nat, reports : Nat, sessions : Nat]
    PROVE  /\ b.calls > 0 => [b EXCEPT !.calls = @ - 1]
                \in [calls : Nat, reads : Nat, reports : Nat, sessions : Nat]
           /\ b.reads > 0 => [b EXCEPT !.reads = @ - 1]
                \in [calls : Nat, reads : Nat, reports : Nat, sessions : Nat]
           /\ b.reports > 0 => [b EXCEPT !.reports = @ - 1]
                \in [calls : Nat, reads : Nat, reports : Nat, sessions : Nat]
           /\ b.sessions > 0 => [b EXCEPT !.sessions = @ - 1]
                \in [calls : Nat, reads : Nat, reports : Nat, sessions : Nat]
OBVIOUS

LEMMA ReplacedType ==
    ASSUME Types, NEW last \in Seq(Message)
    PROVE  Replaced(last) \in Results
<1>1. /\ results.current \in Seq(Message) /\ results.held \in Seq(Message)
      /\ <<>> \in Seq(Message)
  BY DEF Types, Results
<1>2. results.current \o last \in Seq(Message)
  BY <1>1
<1>3. [current |-> <<>>, held |-> results.current \o last, detached |-> TRUE]
        \in Results
  BY <1>1, <1>2 DEF Results
<1>4. [results EXCEPT !.current = <<>>] \in Results
  BY <1>1 DEF Types, Results
<1> QED BY <1>3, <1>4 DEF Replaced

LEMMA WaitType ==
    ASSUME Types
    PROVE  /\ Left(results) \in Results
           /\ View # <<>> =>
                /\ Rest \in Results
                /\ Left(Rest) \in Results
<1>1. /\ results \in Results /\ <<>> \in Seq(Message)
      /\ results.current \in Seq(Message) /\ results.held \in Seq(Message)
  BY DEF Types, Results
<1>2. ASSUME NEW q \in Results
      PROVE  Left(q) \in Results
  BY <1>1, <1>2 DEF Left, Results
<1>3. ASSUME View # <<>>
      PROVE  Rest \in Results
  <2>1. CASE results.detached
    <3>1. Tail(results.held) \in Seq(Message)
      BY <1>1, <1>3, <2>1 DEF View
    <3> QED BY <1>1, <2>1, <3>1 DEF Rest, Results
  <2>2. CASE ~results.detached
    <3>1. Tail(results.current) \in Seq(Message)
      BY <1>1, <1>3, <2>2 DEF View
    <3> QED BY <1>1, <2>2, <3>1 DEF Rest, Results
  <2> QED BY <2>1, <2>2
<1> QED BY <1>1, <1>2, <1>3

LEMMA EndsType ==
    ASSUME Types, NEW c \in Callers, NEW phase \in Ended, Ends(c, phase),
           lock # <<>>
    PROVE  /\ lock' \in Seq(Tasks)
           /\ call' \in [Callers -> Call]
<1>1. lock' \in Seq(Tasks)
  BY DEF Types, Ends
<1>2. call' \in [Callers -> Call]
  BY DEF Types, Ends, Call
<1> QED BY <1>1, <1>2

LEMMA TransmitType ==
    ASSUME Types, NEW c \in Callers, NEW p \in Properties, Transmit(c, p)
    PROVE  /\ call' \in [Callers -> Call]
           /\ nextId' \in Nat
           /\ air' \in Seq(Request)
<1>1. nextId \in Nat /\ Fresh(nextId) \in Nat
  BY FreshNat DEF Types
<1>2. [by |-> c, property |-> p, id |-> Fresh(nextId)] \in Request
  BY <1>1 DEF Request, Asked
<1>3. air' \in Seq(Request)
  BY <1>2 DEF Transmit, Types
<1>4. [phase |-> "sending", property |-> p, id |-> Fresh(nextId)]
        \in Call
  BY <1>1 DEF Active, Call
<1>5. call' \in [Callers -> Call]
  BY <1>4 DEF Transmit, Types
<1> QED BY <1>1, <1>3, <1>5 DEF Transmit

LEMMA FailsType ==
    ASSUME Types, Fails
    PROVE  /\ session' \in [status : {"DISCONNECTED", "CONNECTED", "READY"},
                            failed : BOOLEAN]
           /\ results' \in Results
           /\ air' \in Seq(Request)
           /\ unanswered' \subseteq Properties
<1>1. <<Closed>> \in Seq(Message)
  BY DEF Closed, Message
<1>2. results' \in Results
  BY <1>1, ReplacedType DEF Fails
<1> QED BY <1>2 DEF Fails, Lost

LEMMA ArrivesType ==
    ASSUME Types, NEW r \in Request, NEW rsp \in {"ok", "error"},
           Arrives(Answer(r, rsp))
    PROVE  results' \in Results
<1>1. Answer(r, rsp) \in Message
  BY DEF Answer, Message, Request, Asked
<1>2. results.current \in Seq(Message) /\ results \in Results
  BY DEF Types, Results
<1>3. Append(results.current, Answer(r, rsp)) \in Seq(Message)
  BY <1>1, <1>2
<1> QED BY <1>2, <1>3 DEF Arrives, Results

LEMMA StatusArrivesType ==
    ASSUME Types, Arrives(Status)
    PROVE  results' \in Results
<1>1. Status \in Message
  BY DEF Status, Message, Asked
<1>2. results.current \in Seq(Message) /\ results \in Results
  BY DEF Types, Results
<1>3. Append(results.current, Status) \in Seq(Message)
  BY <1>1, <1>2
<1> QED BY <1>2, <1>3 DEF Arrives, Results

LEMMA ReadType ==
    ASSUME Types, NEW id \in Nat
    PROVE  /\ Read(id) \in Request
           /\ Append(air, Read(id)) \in Seq(Request)
<1>1. Read(id) \in Request
  BY DEF Read, Request, Asked
<1> QED BY <1>1 DEF Types

LEMMA AsksType ==
    ASSUME Types, Asks
    PROVE  /\ keepalive' \in {"asleep", "locking", "writing"}
           /\ nextId' \in Nat
           /\ air' \in Seq(Request)
<1>1. nextId \in Nat /\ Fresh(nextId) \in Nat
  BY FreshNat DEF Types
<1>2. Append(air, Read(Fresh(nextId))) \in Seq(Request)
  BY <1>1, ReadType
<1>3. air' \in Seq(Request)
  BY <1>2 DEF Asks, Types
<1> QED BY <1>1, <1>3 DEF Asks

LEMMA StepTypes ==
    ASSUME Types, Line, [Next]_vars
    PROVE  Types'
<1>1. ASSUME NEW c \in Callers, call[c].phase \in {"sending", "waiting"}
      PROVE  lock # <<>>
  BY <1>1, CallerFirst DEF HeadOfLine
<1>2. ASSUME NEW c \in Callers, NEW p \in Properties, CallAtOnce(c, p)
      PROVE  Types'
  <2>1. lock' \in Seq(Tasks)
    BY <1>2 DEF CallAtOnce, Called, Types, Tasks
  <2>2. budget' \in [calls : Nat, reads : Nat, reports : Nat, sessions : Nat]
    BY <1>2, Spent DEF CallAtOnce, Called, Types
  <2>3. verdict' \in [Callers -> {"none", "accepted", "rejected"}]
    BY <1>2 DEF CallAtOnce, Called, Types
  <2> QED BY <1>2, <2>1, <2>2, <2>3, TransmitType
          DEF CallAtOnce, Called, Types
<1>3. ASSUME NEW c \in Callers, NEW p \in Properties, CallQueued(c, p)
      PROVE  Types'
  <2>1. lock' \in Seq(Tasks)
    BY <1>3 DEF CallQueued, Called, Types, Tasks
  <2>2. budget' \in [calls : Nat, reads : Nat, reports : Nat, sessions : Nat]
    BY <1>3, Spent DEF CallQueued, Called, Types
  <2>3. verdict' \in [Callers -> {"none", "accepted", "rejected"}]
    BY <1>3 DEF CallQueued, Called, Types
  <2>4. call' \in [Callers -> Call]
    BY <1>3 DEF CallQueued, Types, Call, Active
  <2> QED BY <1>3, <2>1, <2>2, <2>3, <2>4 DEF CallQueued, Called, Types
<1>4. ASSUME NEW c \in Callers, WriteStart(c)
      PROVE  Types'
  <2>1. call[c].property \in Properties
    BY DEF Types, Call
  <2> QED BY <1>4, <2>1, TransmitType DEF WriteStart, Types
<1>5. ASSUME NEW c \in Callers, WriteRefused(c)
      PROVE  Types'
  <2>1. Ends(c, "raised") /\ lock # <<>> /\ "raised" \in Ended
    BY <1>5 DEF WriteRefused, Granted, HeadOfLine, Ended
  <2> QED BY <1>5, <2>1, EndsType DEF WriteRefused, Types
<1>6. ASSUME NEW c \in Callers, WriteSent(c)
      PROVE  Types'
  <2>1. CASE Ends(c, "raised")
    <3>1. lock # <<>> /\ "raised" \in Ended
      BY <1>1, <1>6 DEF WriteSent, Ended
    <3> QED BY <1>6, <2>1, <3>1, EndsType DEF WriteSent, Types
  <2>2. CASE ~Ends(c, "raised")
    <3>1. call' = [call EXCEPT ![c].phase = "waiting"]
          /\ UNCHANGED lock
      BY <1>6, <2>2 DEF WriteSent
    <3>2. call' \in [Callers -> Call]
      BY <3>1 DEF Types, Call, Active
    <3> QED BY <1>6, <3>1, <3>2 DEF WriteSent, Types
  <2> QED BY <2>1, <2>2
<1>7. ASSUME NEW c \in Callers, SendFails(c)
      PROVE  Types'
  <2>1. Ends(c, "raised") /\ lock # <<>> /\ "raised" \in Ended
    BY <1>1, <1>7 DEF SendFails, Ended
  <2>2. CASE session.status = "DISCONNECTED"
    BY <1>7, <2>1, <2>2, EndsType DEF SendFails, FailsOnce, Types
  <2>3. CASE session.status # "DISCONNECTED"
    BY <1>7, <2>1, <2>3, EndsType, FailsType DEF SendFails, FailsOnce, Types
  <2> QED BY <2>2, <2>3
<1>8. ASSUME NEW c \in Callers, TakeSentinel(c)
      PROVE  Types'
  <2>1. Ends(c, "raised") /\ lock # <<>> /\ "raised" \in Ended
    BY <1>1, <1>8 DEF TakeSentinel, Ended
  <2> QED BY <1>8, <2>1, EndsType, WaitType DEF TakeSentinel, Types
<1>9. ASSUME NEW c \in Callers, TakeAnswer(c)
      PROVE  Types'
  <2>1. PICK phase \in Ended : Ends(c, phase)
    BY <1>9 DEF TakeAnswer, Ended
  <2>2. lock # <<>>
    BY <1>1, <1>9 DEF TakeAnswer
  <2>3. unanswered' \subseteq Properties
    BY <1>9 DEF TakeAnswer, Types, Call
  <2> QED BY <1>9, <2>1, <2>2, <2>3, EndsType, WaitType DEF TakeAnswer, Types
<1>10. ASSUME NEW c \in Callers, TakeUnrelated(c)
       PROVE  Types'
  <2>1. lock # <<>> /\ "raised" \in Ended
    BY <1>1, <1>10 DEF TakeUnrelated, Ended
  <2>2. CASE Ends(c, "raised")
    BY <1>10, <2>1, <2>2, EndsType, WaitType DEF TakeUnrelated, Types
  <2>3. CASE ~Ends(c, "raised")
    BY <1>10, <2>3, WaitType DEF TakeUnrelated, Types
  <2> QED BY <2>2, <2>3
<1>11. ASSUME NEW c \in Callers, GiveUp(c)
       PROVE  Types'
  <2>1. Ends(c, "raised") /\ lock # <<>> /\ "raised" \in Ended
    BY <1>1, <1>11 DEF GiveUp, Ended
  <2>2. unanswered' \subseteq Properties
    BY <1>11 DEF GiveUp, Types, Call
  <2> QED BY <1>11, <2>1, <2>2, EndsType, WaitType DEF GiveUp, Types
<1>12. ASSUME NEW c \in Callers, CancelledInLine(c)
       PROVE  Types'
  <2>1. lock' \in Seq(Tasks)
    BY <1>12, Removed DEF CancelledInLine, LeavesLine, Types
  <2>2. call' \in [Callers -> Call]
    <3>1. call' = [call EXCEPT ![c].phase = "raised"]
      BY <1>12 DEF CancelledInLine
    <3> QED BY <3>1 DEF Types, Call, Ended
  <2> QED BY <1>12, <2>1, <2>2 DEF CancelledInLine, Types
<1>13. ASSUME SessionFails
       PROVE  Types'
  BY <1>13, FailsType DEF SessionFails, Types
<1>14. ASSUME SessionCloses \/ SessionOpens
       PROVE  Types'
  <2>1. <<>> \in Seq(Message)
    OBVIOUS
  <2>2. /\ results' \in Results
        /\ air' \in Seq(Request) /\ unanswered' \subseteq Properties
    <3>1. results' = Replaced(<<>>) /\ air' = <<>> /\ unanswered' = {}
      BY <1>14 DEF SessionCloses, SessionOpens, Lost
    <3>2. Replaced(<<>>) \in Results
      BY <2>1, ReplacedType
    <3> QED BY <3>1, <3>2
  <2>3. session' \in [status : {"DISCONNECTED", "CONNECTED", "READY"},
                     failed : BOOLEAN]
    <3>1. CASE SessionCloses
      BY <3>1 DEF SessionCloses, Types
    <3>2. CASE SessionOpens
      BY <3>2 DEF SessionOpens
    <3> QED BY <1>14, <3>1, <3>2
  <2>4. budget' \in [calls : Nat, reads : Nat, reports : Nat, sessions : Nat]
    BY <1>14, Spent DEF SessionCloses, SessionOpens, Types
  <2> QED BY <1>14, <2>2, <2>3, <2>4
          DEF SessionCloses, SessionOpens, Types
<1>15. ASSUME SessionReady
       PROVE  Types'
  <2>1. \A n \in Nat : Fresh(n) \in Nat /\ Fresh(n) + 1 \in Nat
    BY FreshNat
  <2>2. nextId \in Nat
    BY DEF Types
  <2> QED BY <1>15, <2>1, <2>2, ReadType DEF SessionReady, Types
<1>20. ASSUME KeepaliveWakes \/ KeepaliveStart
       PROVE  Types'
  <2>1. lock' \in Seq(Tasks)
    <3>1. "keepalive" \in Tasks /\ lock \in Seq(Tasks)
      BY DEF Tasks, Types
    <3>2. Append(lock, "keepalive") \in Seq(Tasks)
      BY <3>1
    <3> QED BY <1>20, <3>1, <3>2 DEF KeepaliveWakes, KeepaliveStart
  <2>2. budget' \in [calls : Nat, reads : Nat, reports : Nat, sessions : Nat]
    BY <1>20, Spent DEF KeepaliveWakes, KeepaliveStart, Types
  <2>3. CASE Asks
    BY <1>20, <2>1, <2>2, <2>3, AsksType DEF KeepaliveWakes, KeepaliveStart, Types
  <2>4. CASE ~Asks
    BY <1>20, <2>1, <2>2, <2>4 DEF KeepaliveWakes, KeepaliveStart, Types
  <2> QED BY <2>3, <2>4
<1>21. ASSUME KeepaliveSent \/ KeepaliveFails
       PROVE  Types'
  <2>1. lock' \in Seq(Tasks) /\ keepalive' = "asleep"
    <3>1. HeadOfLine("keepalive") /\ Sleeps
      BY <1>21, KeepaliveFirst DEF KeepaliveSent, KeepaliveFails
    <3> QED BY <3>1 DEF HeadOfLine, Sleeps, Types
  <2>2. CASE KeepaliveSent
    BY <2>1, <2>2 DEF KeepaliveSent, Types
  <2>3. CASE KeepaliveFails /\ session.status = "DISCONNECTED"
    BY <2>1, <2>3 DEF KeepaliveFails, FailsOnce, Types
  <2>4. CASE KeepaliveFails /\ session.status # "DISCONNECTED"
    BY <2>1, <2>4, FailsType DEF KeepaliveFails, FailsOnce, Types
  <2> QED BY <1>21, <2>2, <2>3, <2>4
<1>22. ASSUME KeepaliveCancelled
       PROVE  Types'
  <2>1. lock' \in Seq(Tasks)
    BY <1>22, Removed DEF KeepaliveCancelled, LeavesLine, Types
  <2> QED BY <1>22, <2>1 DEF KeepaliveCancelled, Types
<1>16. ASSUME DeviceDecides
       PROVE  Types'
  <2>1. Head(air) \in Request /\ Tail(air) \in Seq(Request)
    BY <1>16 DEF DeviceDecides, Types
  <2>2. results' \in Results
    BY <1>16, <2>1, ArrivesType DEF DeviceDecides, Types
  <2>3. verdict' \in [Callers -> {"none", "accepted", "rejected"}]
    BY <1>16 DEF DeviceDecides, Types
  <2> QED BY <1>16, <2>1, <2>2, <2>3 DEF DeviceDecides, Types
<1>17. ASSUME DeviceReports
       PROVE  Types'
  <2>1. budget' \in [calls : Nat, reads : Nat, reports : Nat, sessions : Nat]
    BY <1>17, Spent DEF DeviceReports, Types
  <2> QED BY <1>17, <2>1, StatusArrivesType DEF DeviceReports, Types
<1>18. ASSUME DeviceMisses \/ Finished \/ UNCHANGED vars
       PROVE  Types'
  <2>1. CASE DeviceMisses
    <3>1. air' \in Seq(Request)
      BY <2>1 DEF DeviceMisses, Types
    <3> QED BY <2>1, <3>1 DEF DeviceMisses, Types
  <2>2. CASE Finished \/ UNCHANGED vars
    BY <2>2 DEF Finished, vars, Types
  <2> QED BY <1>18, <2>1, <2>2
<1>19. ASSUME NEW c \in Callers, Writing(c)
       PROVE  Types'
  BY <1>4, <1>5, <1>6, <1>7, <1>8, <1>9, <1>10, <1>11, <1>12, <1>19 DEF Writing
<1> QED BY <1>2, <1>3, <1>13, <1>14, <1>15, <1>16, <1>17, <1>18, <1>19,
           <1>20, <1>21, <1>22 DEF Next

-----------------------------------------------------------------------------
(* The ids on their way to the device.                                       *)
LEMMA SentKeepsIds ==
    ASSUME Types, IdsFresh, NEW r \in Request, r.id >= nextId,
           r.id # Reserved, nextId' \in Nat, nextId' > r.id,
           air' = Append(air, r)
    PROVE  IdsFresh'
<1>1. /\ air \in Seq(Request) /\ Len(air) \in Nat /\ Len(air') = Len(air) + 1
      /\ air'[Len(air) + 1] = r
      /\ \A i \in 1 .. Len(air) : air'[i] = air[i] /\ air[i] \in Request
  BY DEF Types
<1>2. r.id \in Nat /\ nextId \in Nat /\ \A i \in 1 .. Len(air) : air[i].id \in Nat
  BY <1>1 DEF Types, Request
<1>3. ASSUME NEW i \in 1 .. Len(air')
      PROVE  air'[i].id < nextId' /\ air'[i].id # Reserved
  <2>1. CASE i \in 1 .. Len(air)
    BY <2>1, <1>1, <1>2 DEF IdsFresh
  <2>2. CASE i = Len(air) + 1
    BY <2>2, <1>1
  <2> QED BY <2>1, <2>2, <1>1
<1>4. ASSUME NEW i \in 1 .. Len(air'), NEW j \in 1 .. Len(air'),
             air'[i].id = air'[j].id
      PROVE  i = j
  <2>1. \A k \in 1 .. Len(air) : air'[k].id < nextId /\ air'[k].id \in Nat
    BY <1>1, <1>2 DEF IdsFresh
  <2>2. CASE i \in 1 .. Len(air) /\ j \in 1 .. Len(air)
    BY <2>2, <1>1, <1>4 DEF IdsFresh
  <2>3. CASE i = Len(air) + 1
    BY <2>1, <2>3, <1>1, <1>2, <1>4
  <2>4. CASE j = Len(air) + 1
    BY <2>1, <2>4, <1>1, <1>2, <1>4
  <2> QED BY <2>2, <2>3, <2>4, <1>1
<1> QED BY <1>3, <1>4 DEF IdsFresh

LEMMA FewerKeepsIds ==
    ASSUME Types, IdsFresh, nextId' \in Nat, nextId' >= nextId,
           \/ air' = air
           \/ air' = <<>>
           \/ air # <<>> /\ air' = Tail(air)
    PROVE  IdsFresh'
<1>1. nextId \in Nat /\ air \in Seq(Request)
      /\ \A i \in 1 .. Len(air) : air[i].id \in Nat
  <2>1. \A i \in 1 .. Len(air) : air[i] \in Request
    BY DEF Types
  <2> QED BY <2>1 DEF Types, Request
<1>2. CASE air' = air
  BY <1>1, <1>2 DEF IdsFresh
<1>3. CASE air' = <<>>
  BY <1>3 DEF IdsFresh
<1>4. CASE air # <<>> /\ air' = Tail(air)
  <2>1. /\ Len(air') = Len(air) - 1 /\ Len(air) \in Nat
        /\ \A i \in 1 .. Len(air) - 1 : air'[i] = air[i + 1]
    BY <1>1, <1>4
  <2>2. ASSUME NEW i \in 1 .. Len(air')
        PROVE  air'[i].id < nextId' /\ air'[i].id # Reserved
    <3>1. i + 1 \in 1 .. Len(air) /\ air'[i] = air[i + 1]
      BY <2>1
    <3>2. air[i + 1].id < nextId /\ air[i + 1].id # Reserved
          /\ air[i + 1].id \in Nat
      BY <3>1, <1>1 DEF IdsFresh
    <3> QED BY <3>1, <3>2, <1>1
  <2>3. ASSUME NEW i \in 1 .. Len(air'), NEW j \in 1 .. Len(air'),
               air'[i].id = air'[j].id
        PROVE  i = j
    <3>1. /\ i + 1 \in 1 .. Len(air) /\ air'[i] = air[i + 1]
          /\ j + 1 \in 1 .. Len(air) /\ air'[j] = air[j + 1]
      BY <2>1
    <3>2. i + 1 = j + 1
      BY <3>1, <2>3 DEF IdsFresh
    <3> QED BY <3>2
  <2> QED BY <2>2, <2>3 DEF IdsFresh
<1> QED BY <1>2, <1>3, <1>4

LEMMA StepIds ==
    ASSUME Types, IdsFresh, [Next]_vars
    PROVE  IdsFresh'
<1>1. nextId \in Nat /\ Fresh(nextId) \in Nat /\ Fresh(nextId) >= nextId
      /\ Fresh(nextId) # Reserved
  BY FreshNat DEF Types
<1>2. ASSUME NEW c \in Callers, NEW p \in Properties, Transmit(c, p)
      PROVE  IdsFresh'
  <2> DEFINE r == [by |-> c, property |-> p, id |-> Fresh(nextId)]
  <2>1. r \in Request /\ r.id = Fresh(nextId)
    BY <1>1 DEF Request, Asked
  <2>2. nextId' = Fresh(nextId) + 1
    BY <1>2 DEF Transmit
  <2>3. air' = air \/ air' = Append(air, r)
    BY <1>2 DEF Transmit
  <2> HIDE DEF r
  <2> QED BY <1>1, <2>1, <2>2, <2>3, SentKeepsIds, FewerKeepsIds
<1>3. ASSUME NEW id \in Nat, id >= nextId, id # Reserved, nextId' = id + 1,
             air' = air \/ air' = Append(air, Read(id))
      PROVE  IdsFresh'
  <2>1. Read(id) \in Request /\ Read(id).id = id
    BY DEF Read, Request, Asked
  <2>2. nextId' \in Nat /\ nextId' >= nextId /\ nextId' > id
    BY <1>1, <1>3
  <2>3. CASE air' = air
    BY <2>2, <2>3, FewerKeepsIds
  <2>4. CASE air' = Append(air, Read(id))
    BY <1>3, <2>1, <2>2, <2>4, SentKeepsIds
  <2> QED BY <1>3, <2>3, <2>4
<1>4. ASSUME nextId' = nextId,
             air' = air \/ air' = <<>> \/ (air # <<>> /\ air' = Tail(air))
      PROVE  IdsFresh'
  BY <1>1, <1>4, FewerKeepsIds
<1>5. CASE \E c \in Callers, p \in Properties : CallAtOnce(c, p) \/ CallQueued(c, p)
  BY <1>2, <1>4, <1>5 DEF CallAtOnce, CallQueued
<1>6. ASSUME NEW c \in Callers, Writing(c)
      PROVE  IdsFresh'
  <2>1. CASE WriteStart(c)
    <3>1. call[c].property \in Properties
      BY DEF Types, Call
    <3> QED BY <2>1, <3>1, <1>2 DEF WriteStart
  <2>2. CASE ~WriteStart(c)
    BY <1>4, <1>6, <2>2
       DEF Writing, WriteRefused, WriteSent, SendFails, FailsOnce, Fails, Lost,
           TakeSentinel, TakeAnswer, TakeUnrelated, GiveUp, CancelledInLine
  <2> QED BY <2>1, <2>2
<1>7. CASE SessionReady
  <2> DEFINE getInfo == Fresh(nextId)
             read == Fresh(getInfo + 1)
  <2>1. read \in Nat /\ read >= getInfo + 1 /\ read # Reserved
    BY <1>1, FreshNat
  <2>2. nextId' = read + 1 /\ air' = Append(air, Read(read))
    BY <1>7 DEF SessionReady
  <2> HIDE DEF read
  <2> QED BY <1>1, <1>3, <2>1, <2>2
<1>8. CASE Asks
  BY <1>1, <1>3, <1>8 DEF Asks
<1>9. CASE KeepaliveWakes \/ KeepaliveStart
  BY <1>4, <1>8, <1>9 DEF KeepaliveWakes, KeepaliveStart
<1>10. CASE KeepaliveSent \/ KeepaliveFails \/ KeepaliveCancelled
  BY <1>4, <1>10 DEF KeepaliveSent, KeepaliveFails, FailsOnce, Fails, Lost,
     KeepaliveCancelled
<1>11. CASE \/ SessionFails \/ SessionCloses \/ SessionOpens \/ DeviceDecides
           \/ DeviceReports \/ DeviceMisses \/ Finished \/ UNCHANGED vars
  BY <1>4, <1>11 DEF SessionFails, Fails, SessionCloses, SessionOpens, Lost,
     DeviceDecides, DeviceReports, DeviceMisses, Finished, vars
<1> QED BY <1>5, <1>6, <1>7, <1>9, <1>10, <1>11 DEF Next

-----------------------------------------------------------------------------
(* The types of ControlWrite, and nobody twice in the line of _lock.         *)
THEOREM ControlTypeCorrect == Spec => []TypeOK
<1>1. Init => Types /\ Line
  BY InitTypes, InitLine
<1>2. Types /\ Line /\ [Next]_vars => (Types /\ Line)'
  BY StepTypes, StepLine
<1>3. Types /\ Line => TypeOK
  BY DEF Types, Line, Tasks, TypeOK
<1> QED BY <1>1, <1>2, <1>3, PTL DEF Spec

(* _request_write holds _lock from the request to its outcome, and the       *)
(* keepalive while it sends: whatever the number of callers, however they    *)
(* are cancelled and however often sessions fail, close and open, at most    *)
(* one of them is under way, and it is the owner of the lock.                *)
THEOREM WritesAreSerialized == Spec => []WritesSerialized
<1>1. Init => Types /\ Line
  BY InitTypes, InitLine
<1>2. Types /\ Line /\ [Next]_vars => (Types /\ Line)'
  BY StepTypes, StepLine
<1>3. Types /\ Line => WritesSerialized
  BY LineSerializes
<1> QED BY <1>1, <1>2, <1>3, PTL DEF Spec

(* _next_message_id over all sessions: no two requests the device may still  *)
(* answer share an id, and none has that of BLESPP_OK.                       *)
THEOREM IdsAreFresh == Spec => []IdsFresh
<1>1. Init => Types /\ Line /\ IdsFresh
  BY InitTypes, InitLine, InitIds
<1>2. Types /\ Line /\ IdsFresh /\ [Next]_vars => (Types /\ Line /\ IdsFresh)'
  BY StepTypes, StepLine, StepIds
<1> QED BY <1>1, <1>2, PTL DEF Spec

-----------------------------------------------------------------------------
(* That a control call tells the application what the device has decided, or *)
(* returns while a status report lies unread, if no setting is written again *)
(* in a session that has not read the answer to the write before.            *)
Distinct(q) ==
    \A i, j \in 1 .. Len(q) : q[i].id # 0 /\ q[i].id = q[j].id => i = j
OnAir == ToSet(air)
Heard == ToSet(results.current) \ {Status}
Writer(c) == call[c].phase \in {"sending", "waiting"}
Said(m) == IF m.rsp = "ok" THEN "accepted" ELSE "rejected"

(* Ids are given in turn, and a call that waits for _lock has none.          *)
NumberInv ==
    /\ nextId >= 1
    /\ \A c \in Callers :
        /\ call[c].id < nextId
        /\ call[c].phase = "locking" =>
               call[c].id = 0 /\ verdict[c] = "none"

(* A session that is over hears nothing.                                     *)
QuietInv ==
    /\ session.failed => session.status = "DISCONNECTED"
    /\ session.status = "DISCONNECTED" => air = <<>> /\ results.current = <<>>

(* One call at a time is about a setting, and none about one that may yet be *)
(* answered for a call that is over.                                         *)
AloneInv ==
    \A c \in Callers : call[c].phase \in Active =>
        /\ call[c].property \notin unanswered
        /\ \A d \in Callers :
            call[d].phase \in Active /\ call[d].property = call[c].property
                => c = d

(* A request is answered once.                                               *)
TrafficInv ==
    /\ Distinct(air) /\ Distinct(results.current)
    /\ \A r \in OnAir : r.id >= 1 /\ r.id < nextId
    /\ \A m \in Heard : /\ m.id >= 1 /\ m.id < nextId /\ m.rsp # "closed"
                        /\ \A r \in OnAir : r.id # m.id

(* The request of the write under way, or its answer: it is about the        *)
(* setting, says what was decided, and is in the queue that the call reads.  *)
OwnInv ==
    \A c \in Callers : Writer(c) =>
        /\ \A r \in OnAir : r.id = call[c].id =>
            /\ r.by = c /\ r.property = call[c].property
            /\ ~results.detached
        /\ \A m \in Heard : m.id = call[c].id =>
            /\ m.names = {call[c].property} /\ verdict[c] = Said(m)
            /\ ~results.detached

(* All other requests of callers, and answers, are about settings whose      *)
(* calls are over.                                                           *)
RestInv ==
    /\ \A r \in OnAir : r.by \in Callers =>
        \/ r.property \in unanswered
        \/ \E c \in Callers : Writer(c) /\ r.id = call[c].id
    /\ \A m \in Heard :
        \/ m.names \subseteq unanswered
        \/ \E c \in Callers : Writer(c) /\ m.id = call[c].id

UndecidedInv ==
    \A c \in Callers : \A r \in OnAir :
        r.by = c /\ r.id = call[c].id => verdict[c] = "none"

(* The queue that a waiter holds on to.                                      *)
HeldInv ==
    results.detached =>
        /\ \E c \in Callers : call[c].phase = "waiting"
        /\ \A c \in Callers, m \in ToSet(results.held) :
            /\ call[c].phase = "waiting"
            /\ m \notin {Closed, Status}
            /\ Correlated(m, call[c].property, call[c].id)
            => verdict[c] = Said(m)

AnswerInv ==
    /\ NumberInv /\ QuietInv /\ AloneInv /\ TrafficInv
    /\ OwnInv /\ RestInv /\ UndecidedInv /\ HeldInv

(* Only a device whose status reports carry a writeRsp leaves one unread.    *)
UnreadInv == StatusUnread => FullReports

-----------------------------------------------------------------------------
(* What the sequences hold.                                                  *)
LEMMA SetOfNone == ToSet(<<>>) = {} /\ Distinct(<<>>)
BY DEF ToSet, Distinct

LEMMA SetOfTail ==
    ASSUME NEW S, NEW q \in Seq(S), q # <<>>
    PROVE  /\ Head(q) \in ToSet(q) /\ ToSet(Tail(q)) \subseteq ToSet(q)
           /\ ToSet(q) \subseteq S
           /\ Distinct(q) =>
                /\ Distinct(Tail(q))
                /\ Head(q).id # 0 =>
                       \A x \in ToSet(Tail(q)) : x.id # Head(q).id
<1>1. /\ Len(q) \in Nat \ {0} /\ Head(q) = q[1]
      /\ DOMAIN q = 1 .. Len(q) /\ Tail(q) \in Seq(S)
      /\ Len(Tail(q)) = Len(q) - 1 /\ DOMAIN Tail(q) = 1 .. Len(q) - 1
      /\ \A i \in 1 .. Len(q) - 1 : Tail(q)[i] = q[i + 1]
  OBVIOUS
<1>2. \A i \in 1 .. Len(q) - 1 :
          /\ i + 1 \in 1 .. Len(q) /\ i + 1 # 1 /\ 1 \in 1 .. Len(q)
  BY <1>1
<1>3. Head(q) \in ToSet(q) /\ ToSet(Tail(q)) \subseteq ToSet(q)
  BY <1>1, <1>2 DEF ToSet
<1>4. ToSet(q) \subseteq S
  BY <1>1 DEF ToSet
<1>5. ASSUME Distinct(q) PROVE Distinct(Tail(q))
  <2>1. SUFFICES ASSUME NEW i \in 1 .. Len(q) - 1, NEW j \in 1 .. Len(q) - 1,
                        Tail(q)[i].id # 0, Tail(q)[i].id = Tail(q)[j].id
                 PROVE  i = j
    BY <1>1 DEF Distinct
  <2>2. q[i + 1].id # 0 /\ q[i + 1].id = q[j + 1].id
    BY <1>1, <2>1
  <2>3. i + 1 = j + 1
    BY <1>2, <1>5, <2>2 DEF Distinct
  <2> QED BY <2>3
<1>6. ASSUME Distinct(q), Head(q).id # 0, NEW x \in ToSet(Tail(q))
      PROVE  x.id # Head(q).id
  <2>1. PICK i \in 1 .. Len(q) - 1 : x = q[i + 1]
    BY <1>1, <1>6 DEF ToSet
  <2> QED BY <1>1, <1>2, <1>6, <2>1 DEF Distinct
<1> QED BY <1>3, <1>4, <1>5, <1>6

LEMMA SetOfAppend ==
    ASSUME NEW S, NEW q \in Seq(S), NEW x \in S
    PROVE  /\ ToSet(Append(q, x)) = ToSet(q) \cup {x}
           /\ Distinct(q) /\ (x.id = 0 \/ \A y \in ToSet(q) : y.id # x.id)
                => Distinct(Append(q, x))
<1> DEFINE k == Append(q, x)
<1>1. /\ Len(q) \in Nat /\ Len(k) = Len(q) + 1 /\ k[Len(q) + 1] = x
      /\ DOMAIN q = 1 .. Len(q) /\ DOMAIN k = 1 .. Len(q) + 1
      /\ \A i \in 1 .. Len(q) : k[i] = q[i]
  OBVIOUS
<1> HIDE DEF k
<1>2. \A i \in 1 .. Len(q) + 1 : i \in 1 .. Len(q) \/ i = Len(q) + 1
  BY <1>1
<1>3. ToSet(k) = ToSet(q) \cup {x}
  <2>1. ToSet(k) \subseteq ToSet(q) \cup {x}
    BY <1>1, <1>2 DEF ToSet
  <2>2. ToSet(q) \cup {x} \subseteq ToSet(k)
    <3>1. Len(q) + 1 \in 1 .. Len(q) + 1
          /\ \A i \in 1 .. Len(q) : i \in 1 .. Len(q) + 1
      BY <1>1
    <3> QED BY <1>1, <3>1 DEF ToSet
  <2> QED BY <2>1, <2>2
<1>4. ASSUME Distinct(q), x.id = 0 \/ \A y \in ToSet(q) : y.id # x.id
      PROVE  Distinct(k)
  <2>1. \A i \in 1 .. Len(q) : x.id = 0 \/ q[i].id # x.id
    BY <1>1, <1>4 DEF ToSet
  <2>2. SUFFICES ASSUME NEW i \in 1 .. Len(k), NEW j \in 1 .. Len(k),
                        k[i].id # 0, k[i].id = k[j].id
                 PROVE  i = j
    BY DEF Distinct
  <2>3. CASE i \in 1 .. Len(q) /\ j \in 1 .. Len(q)
    BY <1>1, <1>4, <2>2, <2>3 DEF Distinct
  <2>4. CASE i = Len(q) + 1 \/ j = Len(q) + 1
    BY <1>1, <1>2, <2>1, <2>2, <2>4
  <2> QED BY <1>1, <1>2, <2>3, <2>4
<1> QED BY <1>3, <1>4 DEF k

LEMMA SetOfBoth ==
    ASSUME NEW S, NEW q \in Seq(S), NEW r \in Seq(S)
    PROVE  ToSet(q \o r) \subseteq ToSet(q) \cup ToSet(r)
<1>1. /\ Len(q) \in Nat /\ Len(r) \in Nat /\ Len(q \o r) = Len(q) + Len(r)
      /\ DOMAIN (q \o r) = 1 .. Len(q) + Len(r)
      /\ DOMAIN q = 1 .. Len(q) /\ DOMAIN r = 1 .. Len(r)
      /\ \A i \in 1 .. Len(q) + Len(r) :
            (q \o r)[i] = IF i <= Len(q) THEN q[i] ELSE r[i - Len(q)]
  OBVIOUS
<1>2. ASSUME NEW i \in 1 .. Len(q) + Len(r)
      PROVE  i \in 1 .. Len(q) \/ (i - Len(q) \in 1 .. Len(r) /\ ~(i <= Len(q)))
  BY <1>1
<1> QED BY <1>1, <1>2 DEF ToSet

LEMMA TrafficType ==
    ASSUME Types
    PROVE  /\ OnAir \subseteq Request /\ Heard \subseteq Message
           /\ nextId \in Nat /\ results \in Results
           /\ \A c \in Callers : call[c] \in Call
           /\ \A r \in Request : r.id \in Nat
           /\ \A m \in Message : m.id \in Nat
<1>1. \A r \in Request : r.id \in Nat
  BY DEF Request
<1>2. \A m \in Message : m.id \in Nat
  BY DEF Message
<1>3. /\ air \in Seq(Request) /\ results.current \in Seq(Message)
      /\ results \in Results /\ nextId \in Nat
      /\ \A c \in Callers : call[c] \in Call
  BY DEF Types, Results
<1>4. /\ \A i \in 1 .. Len(air) : air[i] \in Request
      /\ \A i \in 1 .. Len(results.current) : results.current[i] \in Message
  BY <1>3
<1> QED BY <1>1, <1>2, <1>3, <1>4 DEF OnAir, Heard, ToSet

(* One write is under way, and its caller has _lock.                         *)
LEMMA OneWriter ==
    ASSUME WritesSerialized
    PROVE  /\ \A c, d \in Callers : Writer(c) /\ Writer(d) => c = d
           /\ \A c, d \in Callers : Granted(c) => ~Writer(d)
           /\ lock = <<>> => \A d \in Callers : ~Writer(d)
BY DEF WritesSerialized, HeadOfLine, Writer, Granted

LEMMA InitAnswer == Init => AnswerInv
<1> SUFFICES ASSUME Init PROVE AnswerInv
  OBVIOUS
<1>1. OnAir = {} /\ Heard = {} /\ Distinct(air) /\ Distinct(results.current)
  BY SetOfNone DEF Init, OnAir, Heard
<1>2. \A c \in Callers : call[c].phase = "idle" /\ call[c].id = 0
  BY DEF Init
<1>3. NumberInv /\ QuietInv /\ AloneInv
  BY <1>2 DEF NumberInv, QuietInv, AloneInv, Active, Init
<1>4. TrafficInv /\ RestInv /\ UndecidedInv
  BY <1>1 DEF TrafficInv, RestInv, UndecidedInv
<1>5. OwnInv /\ HeldInv
  BY <1>2 DEF OwnInv, Writer, HeldInv, Init
<1> QED BY <1>3, <1>4, <1>5 DEF AnswerInv

-----------------------------------------------------------------------------
(* Each kind of step keeps AnswerInv.  A call ends, and what is on its way   *)
(* with its id is about a setting given up.                                  *)
LEMMA CallOver ==
    ASSUME Types, WritesSerialized, AnswerInv, NEW c \in Callers,
           NEW phase \in Ended, call[c].phase \in Active,
           call' = [call EXCEPT ![c].phase = phase],
           verdict' = verdict, nextId' = nextId, session' = session,
           air' = air,
           unanswered' \in {unanswered, unanswered \cup {call[c].property}},
           Heard' \subseteq Heard, Distinct(results.current)',
           results.current = <<>> => results'.current = <<>>,
           IF call[c].phase = "waiting" THEN ~results'.detached
           ELSE /\ results'.detached = results.detached
                /\ results.detached => results'.held = results.held,
           Writer(c) =>
               /\ \A r \in OnAir : r.id = call[c].id =>
                      r.property \in unanswered'
               /\ \A m \in Heard' : m.id = call[c].id =>
                      m.names \subseteq unanswered'
    PROVE  AnswerInv'
<1>1. /\ call \in [Callers -> Call]
      /\ \A d \in Callers : d # c => call'[d] = call[d]
      /\ call'[c].phase = phase /\ call'[c].id = call[c].id
      /\ call'[c].property = call[c].property
      /\ phase \notin Active /\ phase \notin {"sending", "waiting", "locking"}
  BY DEF Types, Call, Ended, Active
<1>2. OnAir' = OnAir /\ unanswered \subseteq unanswered'
  BY DEF OnAir
<1>3. /\ \A d \in Callers : Writer(d)' <=> Writer(d) /\ d # c
      /\ \A d \in Callers : call'[d].phase = "waiting" =>
            call[d].phase = "waiting" /\ d # c
  BY <1>1 DEF Writer
<1>4. /\ NumberInv /\ QuietInv /\ AloneInv /\ TrafficInv
      /\ OwnInv /\ RestInv /\ UndecidedInv /\ HeldInv
  BY DEF AnswerInv
<1>5. NumberInv'
  BY <1>1, <1>4 DEF NumberInv
<1>6. QuietInv'
  BY <1>4 DEF QuietInv
<1>7. AloneInv'
  BY <1>1, <1>4 DEF AloneInv
<1>8. TrafficInv'
  BY <1>2, <1>4 DEF TrafficInv
<1>9. OwnInv'
  <2>1. ASSUME NEW d \in Callers, Writer(d)' PROVE results'.detached =>
                                                     results.detached
    BY <1>3, <2>1, OneWriter DEF Writer
  <2> QED BY <1>1, <1>2, <1>3, <1>4, <2>1 DEF OwnInv
<1>10. RestInv'
  <2>1. ASSUME NEW id, \E d \in Callers : Writer(d) /\ id = call[d].id
        PROVE  \/ \E d \in Callers : Writer(d)' /\ id = call'[d].id
               \/ Writer(c) /\ id = call[c].id
    BY <1>1, <1>3, <2>1
  <2>2. ASSUME NEW r \in OnAir, r.by \in Callers
        PROVE  \/ r.property \in unanswered'
               \/ \E d \in Callers : Writer(d)' /\ r.id = call'[d].id
    BY <1>2, <1>4, <2>1, <2>2 DEF RestInv
  <2>3. ASSUME NEW m \in Heard'
        PROVE  \/ m.names \subseteq unanswered'
               \/ \E d \in Callers : Writer(d)' /\ m.id = call'[d].id
    BY <1>2, <1>4, <2>1, <2>3 DEF RestInv
  <2> QED BY <1>2, <2>2, <2>3 DEF RestInv
<1>11. UndecidedInv'
  BY <1>1, <1>2, <1>4 DEF UndecidedInv
<1>12. HeldInv'
  <2>1. CASE call[c].phase = "waiting"
    BY <2>1 DEF HeldInv
  <2>2. CASE call[c].phase # "waiting"
    <3>1. SUFFICES ASSUME results'.detached PROVE HeldInv'
      BY DEF HeldInv
    <3>2. results.detached /\ results'.held = results.held
      BY <2>2, <3>1
    <3>3. \A d \in Callers :
            call[d].phase = "waiting" => call'[d].phase = "waiting"
      BY <1>1, <2>2
    <3> QED BY <1>1, <1>3, <1>4, <3>2, <3>3 DEF HeldInv, Correlated
  <2> QED BY <2>1, <2>2
<1> QED BY <1>5, <1>6, <1>7, <1>8, <1>9, <1>10, <1>11, <1>12 DEF AnswerInv

(* A session fails, closes or opens: nothing is left on the way, and whoever *)
(* waits has what there was.                                                 *)
LEMMA Cleared ==
    ASSUME Types, WritesSerialized, AnswerInv, verdict' = verdict,
           nextId' = nextId, air' = <<>>, unanswered' = {},
           results' = Replaced(<<>>) \/ results' = Replaced(<<Closed>>),
           session'.failed => session'.status = "DISCONNECTED",
           \/ call' = call
           \/ \E c \in Callers, phase \in Ended :
                /\ call[c].phase = "sending"
                /\ call' = [call EXCEPT ![c].phase = phase]
    PROVE  AnswerInv'
<1>1. \A d \in Callers :
        /\ call'[d].id = call[d].id
        /\ call'[d].property = call[d].property
        /\ call'[d].phase \in Active => call'[d].phase = call[d].phase
        /\ call[d].phase = "waiting" => call'[d].phase = "waiting"
  <2>1. call \in [Callers -> Call]
    BY DEF Types
  <2>2. ASSUME NEW c \in Callers, NEW phase \in Ended,
               call[c].phase = "sending",
               call' = [call EXCEPT ![c].phase = phase],
               NEW d \in Callers
        PROVE  /\ call'[d].id = call[d].id
               /\ call'[d].property = call[d].property
               /\ call'[d].phase = IF d = c THEN phase ELSE call[d].phase
    BY <2>1, <2>2 DEF Call
  <2> QED BY <2>2 DEF Ended, Active
<1>2. /\ NumberInv /\ QuietInv /\ AloneInv /\ TrafficInv
      /\ OwnInv /\ RestInv /\ UndecidedInv /\ HeldInv
  BY DEF AnswerInv
<1>3. /\ results \in Results /\ results.current \in Seq(Message)
      /\ <<>> \in Seq(Message) /\ <<Closed>> \in Seq(Message)
  BY DEF Types, Results, Closed, Message
<1>4. results'.current = <<>>
  BY <1>3 DEF Replaced, Results
<1>5. OnAir' = {} /\ Heard' = {} /\ Distinct(air)' /\ Distinct(results.current)'
  BY <1>4, SetOfNone DEF OnAir, Heard
<1>6. NumberInv' /\ QuietInv' /\ AloneInv'
  BY <1>1, <1>2, <1>4 DEF NumberInv, QuietInv, AloneInv, Active
<1>7. TrafficInv' /\ OwnInv' /\ RestInv' /\ UndecidedInv'
  BY <1>5 DEF TrafficInv, OwnInv, RestInv, UndecidedInv
<1>8. HeldInv'
  <2>1. \A d \in Callers : call'[d].phase = "waiting" <=>
                           call[d].phase = "waiting"
    BY <1>1 DEF Active
  <2>2. CASE results.detached \/ \A d \in Callers : call[d].phase # "waiting"
    <3>1. /\ results'.detached = results.detached
          /\ results'.held = results.held
      BY <1>3, <2>2 DEF Replaced, Results
    <3> QED BY <1>1, <1>2, <2>1, <3>1 DEF HeldInv, Correlated
  <2>3. CASE ~results.detached /\ \E d \in Callers : call[d].phase = "waiting"
    <3>1. \/ results'.held = results.current \o <<>>
          \/ results'.held = results.current \o <<Closed>>
      BY <2>3 DEF Replaced
    <3>2. ToSet(results'.held) \subseteq Heard \cup {Closed, Status}
      <4>1. ToSet(<<Closed>>) = {Closed}
        BY DEF ToSet
      <4> QED BY <1>3, <3>1, <4>1, SetOfBoth, SetOfNone DEF Heard
    <3>3. ASSUME NEW d \in Callers, call[d].phase = "waiting",
                 NEW m \in Heard, Correlated(m, call[d].property, call[d].id)
          PROVE  verdict[d] = Said(m)
      <4>1. Writer(d) /\ call[d].property \notin unanswered
        BY <1>2, <3>3 DEF Writer, AloneInv, Active
      <4>2. m.id = call[d].id
        BY <1>2, <3>3, <4>1, OneWriter DEF RestInv, Correlated
      <4> QED BY <1>2, <4>1, <4>2 DEF OwnInv
    <3> QED BY <1>1, <2>1, <2>3, <3>2, <3>3 DEF HeldInv, Correlated
  <2> QED BY <2>2, <2>3
<1> QED BY <1>6, <1>7, <1>8 DEF AnswerInv

(* A request is sent: its id is new, and its setting nobody else's.          *)
LEMMA RequestSent ==
    ASSUME Types, WritesSerialized, AnswerInv, NEW c \in Callers,
           NEW p \in Properties, Transmit(c, p),
           \A d \in Callers : ~Writer(d),
           p \notin unanswered,
           \A d \in Callers \ {c} :
               call[d].phase \in Active => call[d].property # p,
           verdict'[c] = "none",
           \A d \in Callers \ {c} : verdict'[d] = verdict[d],
           session' = session, results' = results, unanswered' = unanswered
    PROVE  AnswerInv'
<1> DEFINE id == Fresh(nextId)
           r == [by |-> c, property |-> p, id |-> id]
<1>1. /\ call \in [Callers -> Call] /\ nextId \in Nat /\ id \in Nat
      /\ id >= nextId /\ air \in Seq(Request) /\ r \in Request
      /\ OnAir \subseteq Request /\ Heard \subseteq Message
      /\ \A d \in Callers : call[d].id \in Nat
      /\ \A x \in Request : x.id \in Nat
      /\ \A x \in Message : x.id \in Nat
  BY FreshNat, TrafficType DEF Types, Request, Asked, Call
<1>2. /\ call'[c].phase = "sending" /\ call'[c].property = p
      /\ call'[c].id = id
      /\ \A d \in Callers \ {c} : call'[d] = call[d]
      /\ nextId' = id + 1
  BY <1>1 DEF Transmit
<1>3. /\ NumberInv /\ QuietInv /\ AloneInv /\ TrafficInv
      /\ OwnInv /\ RestInv /\ UndecidedInv /\ HeldInv
  BY DEF AnswerInv
<1>4. /\ \A x \in OnAir : x.id < id
      /\ \A x \in Heard : x.id < id
      /\ id >= 1 /\ Heard' = Heard
  BY <1>1, <1>3 DEF TrafficInv, NumberInv, Heard
<1>5. /\ OnAir' \subseteq OnAir \cup {r}
      /\ Distinct(air)'
      /\ session.status = "DISCONNECTED" => air' = air
  <2>1. CASE air' = air
    BY <1>3, <2>1 DEF OnAir, TrafficInv
  <2>2. CASE air' = Append(air, r) /\ session.status # "DISCONNECTED"
    <3>1. \A x \in ToSet(air) : x.id # r.id
      BY <1>1, <1>4 DEF OnAir
    <3> QED BY <1>1, <1>3, <2>2, <3>1, SetOfAppend DEF OnAir, TrafficInv
  <2> QED BY <2>1, <2>2 DEF Transmit
<1>6. \A x \in {r} : x.id = id /\ x.by = c /\ x.property = p
  OBVIOUS
<1> HIDE DEF id, r
<1>7. ~results.detached
  BY <1>3 DEF HeldInv, Writer
<1>8. \A d \in Callers : Writer(d)' <=> d = c
  BY <1>2 DEF Writer
<1>9. NumberInv'
  BY <1>1, <1>2, <1>3 DEF NumberInv
<1>10. QuietInv'
  BY <1>3, <1>5 DEF QuietInv
<1>11. AloneInv'
  BY <1>2, <1>3 DEF AloneInv
<1>12. TrafficInv'
  <2>1. \A x \in OnAir' : x.id >= 1 /\ x.id < nextId'
    BY <1>1, <1>2, <1>3, <1>4, <1>5, <1>6 DEF TrafficInv
  <2>2. \A m \in Heard : m.id < nextId' /\ m.rsp # "closed"
    BY <1>1, <1>2, <1>3, <1>4 DEF TrafficInv
  <2>3. \A m \in Heard, x \in OnAir' : x.id # m.id
    BY <1>1, <1>3, <1>4, <1>5, <1>6 DEF TrafficInv
  <2> QED BY <1>3, <1>4, <1>5, <2>1, <2>2, <2>3 DEF TrafficInv
<1>13. OwnInv'
  <2>1. \A x \in OnAir' : x.id = id => x \in {r}
    BY <1>1, <1>4, <1>5
  <2>2. \A m \in Heard : m.id # id
    BY <1>1, <1>4
  <2> QED BY <1>2, <1>4, <1>6, <1>7, <1>8, <2>1, <2>2 DEF OwnInv
<1>14. RestInv'
  <2>1. \A x \in OnAir : x.by \in Callers => x.property \in unanswered
    BY <1>3 DEF RestInv
  <2>2. \A m \in Heard : m.names \subseteq unanswered
    BY <1>3 DEF RestInv
  <2> QED BY <1>2, <1>4, <1>5, <1>6, <1>8, <2>1, <2>2 DEF RestInv
<1>15. UndecidedInv'
  BY <1>2, <1>3, <1>5, <1>6 DEF UndecidedInv
<1>16. HeldInv'
  BY <1>7 DEF HeldInv
<1> QED BY <1>9, <1>10, <1>11, <1>12, <1>13, <1>14, <1>15, <1>16
        DEF AnswerInv

(* Steps that neither begin nor end a write, and leave what is heard alone.  *)
LEMMA Unrelated ==
    ASSUME Types, AnswerInv,
           call' = call, verdict' = verdict, unanswered' = unanswered,
           nextId' \in Nat, nextId' >= nextId, results' = results,
           session'.failed => session'.status = "DISCONNECTED",
           session'.status = "DISCONNECTED" =>
               session.status = "DISCONNECTED" /\ air' = air,
           Distinct(air)', OnAir' \subseteq Request,
           \A r \in OnAir' :
               \/ r \in OnAir
               \/ r.by \notin Callers /\ r.id >= nextId /\ r.id < nextId'
    PROVE  AnswerInv'
<1>1. /\ nextId \in Nat /\ OnAir \subseteq Request /\ Heard \subseteq Message
      /\ \A d \in Callers : call[d].id \in Nat
      /\ \A x \in Request : x.id \in Nat
      /\ \A x \in Message : x.id \in Nat
  BY TrafficType DEF Call
<1>2. /\ NumberInv /\ QuietInv /\ AloneInv /\ TrafficInv
      /\ OwnInv /\ RestInv /\ UndecidedInv /\ HeldInv
  BY DEF AnswerInv
<1>3. Heard' = Heard /\ \A d \in Callers : Writer(d)' <=> Writer(d)
  BY DEF Heard, Writer
<1>4. ASSUME NEW r \in OnAir', r \notin OnAir
      PROVE  /\ r.by \notin Callers /\ r.id >= 1 /\ r.id < nextId'
             /\ \A d \in Callers : r.id # call[d].id
             /\ \A m \in Heard : r.id # m.id
  BY <1>1, <1>2, <1>4 DEF NumberInv, TrafficInv
<1>5. NumberInv' /\ QuietInv' /\ AloneInv'
  BY <1>1, <1>2 DEF NumberInv, QuietInv, AloneInv
<1>6. TrafficInv'
  BY <1>1, <1>2, <1>3, <1>4 DEF TrafficInv
<1>7. OwnInv' /\ RestInv' /\ UndecidedInv'
  BY <1>2, <1>3, <1>4 DEF OwnInv, RestInv, UndecidedInv
<1>8. HeldInv'
  BY <1>2 DEF HeldInv
<1> QED BY <1>5, <1>6, <1>7, <1>8 DEF AnswerInv

(* A call joins the line.                                                    *)
LEMMA CallWaits ==
    ASSUME Types, AnswerInv, ~Resends,
           NEW c \in Callers, NEW p \in Properties, CallQueued(c, p)
    PROVE  AnswerInv'
<1>1. /\ call \in [Callers -> Call] /\ call[c].phase \notin Active
      /\ call'[c] = [phase |-> "locking", property |-> p, id |-> 0]
      /\ \A d \in Callers \ {c} : call'[d] = call[d] /\ verdict'[d] = verdict[d]
      /\ verdict'[c] = "none" /\ ~Contested(p)
      /\ nextId' = nextId /\ air' = air /\ results' = results
      /\ session' = session /\ unanswered' = unanswered
  BY DEF Types, CallQueued, Called, Ended, Active
<1>2. /\ NumberInv /\ QuietInv /\ AloneInv /\ TrafficInv
      /\ OwnInv /\ RestInv /\ UndecidedInv /\ HeldInv
  BY DEF AnswerInv
<1>3. OnAir' = OnAir /\ Heard' = Heard
  BY <1>1 DEF OnAir, Heard
<1>4. /\ \A d \in Callers : Writer(d)' <=> Writer(d)
      /\ \A d \in Callers : call[d].phase \in {"sending", "waiting"} => d # c
  BY <1>1 DEF Writer, Active
<1>5. NumberInv'
  BY <1>1, <1>2, TrafficType DEF NumberInv
<1>6. QuietInv' /\ TrafficInv'
  BY <1>1, <1>2, <1>3 DEF QuietInv, TrafficInv
<1>7. AloneInv'
  BY <1>1, <1>2 DEF AloneInv, Contested
<1>8. OwnInv'
  BY <1>1, <1>2, <1>3, <1>4 DEF OwnInv, Writer
<1>9. RestInv'
  BY <1>1, <1>2, <1>3, <1>4 DEF RestInv, Writer
<1>10. UndecidedInv'
  BY <1>1, <1>2, <1>3, TrafficType DEF UndecidedInv, TrafficInv
<1>11. HeldInv'
  BY <1>1, <1>2, <1>4 DEF HeldInv, Correlated
<1> QED BY <1>5, <1>6, <1>7, <1>8, <1>9, <1>10, <1>11 DEF AnswerInv

(* The request is out and the wait begins, on the client's own queue.        *)
LEMMA WaitBegins ==
    ASSUME Types, WritesSerialized, AnswerInv, NEW c \in Callers,
           WriteSent(c), ~session.failed
    PROVE  AnswerInv'
<1>1. /\ call \in [Callers -> Call] /\ call[c].phase = "sending"
      /\ call'[c].phase = "waiting" /\ call'[c].id = call[c].id
      /\ call'[c].property = call[c].property
      /\ \A d \in Callers \ {c} : call'[d] = call[d]
      /\ verdict' = verdict /\ nextId' = nextId /\ air' = air
      /\ results' = results /\ session' = session /\ unanswered' = unanswered
  BY DEF Types, WriteSent, Call
<1>2. /\ NumberInv /\ QuietInv /\ AloneInv /\ TrafficInv
      /\ OwnInv /\ RestInv /\ UndecidedInv /\ HeldInv
  BY DEF AnswerInv
<1>3. /\ OnAir' = OnAir /\ Heard' = Heard
      /\ \A d \in Callers : Writer(d)' <=> Writer(d)
  BY <1>1 DEF OnAir, Heard, Writer
<1>4. NumberInv' /\ QuietInv' /\ TrafficInv' /\ UndecidedInv'
  BY <1>1, <1>2, <1>3 DEF NumberInv, QuietInv, TrafficInv, UndecidedInv
<1>5. AloneInv'
  <2>1. \A d \in Callers :
          /\ call'[d].property = call[d].property
          /\ call'[d].phase \in Active <=> call[d].phase \in Active
    BY <1>1 DEF Active
  <2> QED BY <1>1, <1>2, <2>1 DEF AloneInv
<1>6. OwnInv' /\ RestInv'
  <2>1. \A d \in Callers : call'[d].property = call[d].property
                           /\ call'[d].id = call[d].id
    BY <1>1
  <2> QED BY <1>1, <1>2, <1>3, <2>1 DEF OwnInv, RestInv
<1>7. ~results'.detached
  BY <1>1, <1>2, OneWriter DEF HeldInv, Writer
<1> QED BY <1>4, <1>5, <1>6, <1>7 DEF AnswerInv, HeldInv

(* A message that is not for the waiter is dropped.                          *)
LEMMA Dropped ==
    ASSUME Types, AnswerInv, View # <<>>, results' = Rest,
           call' = call, verdict' = verdict, nextId' = nextId, air' = air,
           session' = session, unanswered' = unanswered
    PROVE  AnswerInv'
<1>1. /\ results \in Results /\ results.current \in Seq(Message)
      /\ results.held \in Seq(Message)
  BY DEF Types, Results
<1>2. /\ results'.detached = results.detached
      /\ Heard' \subseteq Heard /\ Distinct(results'.current)
      /\ results.current = <<>> => results'.current = <<>>
      /\ results.detached =>
            ToSet(results'.held) \subseteq ToSet(results.held)
  <2>1. CASE results.detached
    <3>1. /\ results'.current = results.current /\ results'.detached
          /\ results'.held = Tail(results.held) /\ results.held # <<>>
      BY <1>1, <2>1 DEF Rest, View, Results
    <3>2. Distinct(results.current)
      BY DEF AnswerInv, TrafficInv
    <3> QED BY <1>1, <2>1, <3>1, <3>2, SetOfTail DEF Heard
  <2>2. CASE ~results.detached
    <3>1. /\ results'.current = Tail(results.current)
          /\ results'.detached = results.detached
          /\ results.current # <<>>
      BY <1>1, <2>2 DEF Rest, View, Results
    <3>2. Distinct(results.current)
      BY DEF AnswerInv, TrafficInv
    <3> QED BY <1>1, <2>2, <3>1, <3>2, SetOfTail DEF Heard
  <2> QED BY <2>1, <2>2
<1>3. OnAir' = OnAir /\ \A d \in Callers : Writer(d)' <=> Writer(d)
  BY DEF OnAir, Writer
<1>4. /\ NumberInv /\ QuietInv /\ AloneInv /\ TrafficInv
      /\ OwnInv /\ RestInv /\ UndecidedInv /\ HeldInv
  BY DEF AnswerInv
<1>5. NumberInv' /\ QuietInv' /\ AloneInv' /\ UndecidedInv' /\ HeldInv'
  BY <1>2, <1>3, <1>4
  DEF NumberInv, QuietInv, AloneInv, UndecidedInv, HeldInv, Correlated
<1>6. TrafficInv'
  BY <1>2, <1>3, <1>4 DEF TrafficInv
<1>7. OwnInv' /\ RestInv'
  BY <1>2, <1>3, <1>4 DEF OwnInv, RestInv
<1> QED BY <1>5, <1>6, <1>7 DEF AnswerInv

(* The device decides the oldest request and says so, or its answer is lost. *)
LEMMA Decided ==
    ASSUME Types, AnswerInv, DeviceDecides
    PROVE  AnswerInv'
<1> DEFINE r == Head(air)
<1>1. /\ air \in Seq(Request) /\ air # <<>> /\ r.by \in Callers
      /\ air' = Tail(air) /\ session' = session /\ call' = call
      /\ nextId' = nextId /\ unanswered' = unanswered
      /\ verdict \in [Callers -> {"none", "accepted", "rejected"}]
      /\ results \in Results /\ results.current \in Seq(Message)
  BY DEF Types, DeviceDecides, Results
<1>2. PICK v \in {"accepted", "rejected"} :
        /\ verdict' = IF call[r.by].id = r.id
                      THEN [verdict EXCEPT ![r.by] = v] ELSE verdict
        /\ \/ Arrives(Answer(r, IF v = "accepted" THEN "ok" ELSE "error"))
           \/ UNCHANGED results
  BY DEF DeviceDecides
<1> DEFINE m == Answer(r, IF v = "accepted" THEN "ok" ELSE "error")
<1>3. /\ r \in OnAir /\ OnAir' \subseteq OnAir /\ r \in Request
      /\ Distinct(air)' /\ \A x \in OnAir' : x.id # r.id
  BY <1>1, SetOfTail DEF OnAir, AnswerInv, TrafficInv
<1>4. /\ m \in Message /\ m.id = r.id /\ m.names = {r.property}
      /\ Said(m) = v /\ m.rsp # "closed"
  BY <1>3 DEF Answer, Message, Request, Asked, Said
<1>5. /\ NumberInv /\ QuietInv /\ AloneInv /\ TrafficInv
      /\ OwnInv /\ RestInv /\ UndecidedInv /\ HeldInv
  BY DEF AnswerInv
<1> HIDE DEF r, m
<1>6. /\ Heard' \subseteq Heard \cup {m} /\ Distinct(results'.current)
      /\ results'.detached = results.detached /\ results'.held = results.held
  <2>1. CASE UNCHANGED results
    BY <1>5, <2>1 DEF Heard, TrafficInv
  <2>2. CASE results' = [results EXCEPT !.current = Append(@, m)]
    <3>1. /\ results'.current = Append(results.current, m)
          /\ results'.detached = results.detached
          /\ results'.held = results.held
      BY <1>1, <2>2 DEF Results
    <3>2. \A x \in ToSet(results.current) : x.id # m.id
      <4>1. Status.id = 0 /\ m.id >= 1 /\ m.id \in Nat
        BY <1>3, <1>4, <1>5 DEF Status, TrafficInv, Request
      <4> QED BY <1>3, <1>4, <1>5, <4>1 DEF TrafficInv, Heard
    <3> QED BY <1>1, <1>4, <1>5, <3>1, <3>2, SetOfAppend DEF Heard, TrafficInv
  <2> QED BY <1>2, <2>1, <2>2 DEF Arrives, m
<1>7. \A d \in Callers :
        verdict'[d] = IF d = r.by /\ call[d].id = r.id THEN v ELSE verdict[d]
  BY <1>1, <1>2
<1>8. NumberInv'
  <2>1. r.id >= 1
    BY <1>3, <1>5 DEF TrafficInv
  <2>2. \A d \in Callers : call[d].phase = "locking" => call[d].id # r.id
    BY <1>5, <2>1 DEF NumberInv
  <2> QED BY <1>1, <1>5, <1>7, <2>2 DEF NumberInv
<1>9. QuietInv'
  <2>1. session.status # "DISCONNECTED"
    BY <1>1, <1>5 DEF QuietInv
  <2> QED BY <1>1, <1>5, <2>1 DEF QuietInv
<1>10. AloneInv'
  BY <1>1, <1>5 DEF AloneInv
<1>11. TrafficInv'
  BY <1>1, <1>3, <1>4, <1>5, <1>6 DEF TrafficInv
<1>12. OwnInv'
  <2>1. SUFFICES ASSUME NEW d \in Callers, Writer(d)
                 PROVE  /\ \A x \in OnAir' : x.id = call[d].id =>
                             /\ x.by = d /\ x.property = call[d].property
                             /\ ~results'.detached
                        /\ \A x \in Heard' : x.id = call[d].id =>
                             /\ x.names = {call[d].property}
                             /\ verdict'[d] = Said(x)
                             /\ ~results'.detached
    BY <1>1 DEF OwnInv, Writer
  <2>2. \A x \in OnAir' : x.id = call[d].id =>
            /\ x.by = d /\ x.property = call[d].property
            /\ ~results'.detached
    BY <1>3, <1>5, <1>6, <2>1 DEF OwnInv
  <2>3. ASSUME NEW x \in Heard, x.id = call[d].id
        PROVE  /\ x.names = {call[d].property} /\ verdict'[d] = Said(x)
               /\ ~results'.detached
    <3>1. x.id # r.id
      BY <1>3, <1>5 DEF TrafficInv
    <3> QED BY <1>5, <1>6, <1>7, <2>1, <2>3, <3>1 DEF OwnInv
  <2>4. ASSUME m.id = call[d].id
        PROVE  /\ m.names = {call[d].property} /\ verdict'[d] = Said(m)
               /\ ~results'.detached
    <3>1. r.id = call[d].id
      BY <1>4, <2>4
    <3>2. r.by = d /\ r.property = call[d].property /\ ~results.detached
      BY <1>3, <1>5, <2>1, <3>1 DEF OwnInv
    <3>3. verdict'[d] = v
      BY <1>7, <3>1, <3>2
    <3> QED BY <1>4, <1>6, <3>2, <3>3
  <2> QED BY <1>6, <2>2, <2>3, <2>4
<1>13. RestInv'
  <2>1. \/ m.names \subseteq unanswered
        \/ \E c \in Callers : Writer(c) /\ m.id = call[c].id
    BY <1>1, <1>3, <1>4, <1>5 DEF RestInv
  <2>2. \A c \in Callers : Writer(c)' <=> Writer(c)
    BY <1>1 DEF Writer
  <2> QED BY <1>1, <1>3, <1>5, <1>6, <2>1, <2>2 DEF RestInv
<1>14. UndecidedInv'
  BY <1>1, <1>3, <1>5, <1>7 DEF UndecidedInv
<1>15. HeldInv'
  <2>1. SUFFICES ASSUME results.detached PROVE HeldInv'
    BY <1>6 DEF HeldInv
  <2>2. ASSUME NEW c \in Callers, call[c].phase = "waiting"
        PROVE  verdict'[c] = verdict[c]
    <3>1. Writer(c)
      BY <2>2 DEF Writer
    <3>2. r.id # call[c].id
      BY <1>3, <1>5, <2>1, <3>1 DEF OwnInv
    <3> QED BY <1>7, <3>2
  <2> QED BY <1>1, <1>5, <1>6, <2>2 DEF HeldInv, Correlated
<1> QED BY <1>8, <1>9, <1>10, <1>11, <1>12, <1>13, <1>14, <1>15
        DEF AnswerInv

(* A status report joins the queue and is no answer of any write.            *)
LEMMA Reported ==
    ASSUME Types, AnswerInv, DeviceReports
    PROVE  AnswerInv'
<1>1. /\ results \in Results /\ results.current \in Seq(Message)
      /\ Status \in Message /\ Status.id = 0
  BY DEF Types, Results, Status, Message, Asked
<1>2. /\ results'.current = Append(results.current, Status)
      /\ results'.detached = results.detached
      /\ results'.held = results.held
  BY <1>1 DEF DeviceReports, Arrives, Results
<1>3. /\ NumberInv /\ QuietInv /\ AloneInv /\ TrafficInv
      /\ OwnInv /\ RestInv /\ UndecidedInv /\ HeldInv
  BY DEF AnswerInv
<1>4. Heard' = Heard /\ Distinct(results.current)'
  BY <1>1, <1>2, <1>3, SetOfAppend DEF Heard, TrafficInv
<1>5. /\ call' = call /\ verdict' = verdict /\ unanswered' = unanswered
      /\ nextId' = nextId /\ air' = air /\ session' = session
      /\ session.status # "DISCONNECTED"
  BY DEF DeviceReports
<1>6. OnAir' = OnAir /\ \A d \in Callers : Writer(d)' <=> Writer(d)
  BY <1>5 DEF OnAir, Writer
<1>7. NumberInv' /\ QuietInv' /\ AloneInv' /\ UndecidedInv'
  BY <1>3, <1>5, <1>6 DEF NumberInv, QuietInv, AloneInv, UndecidedInv
<1>8. TrafficInv'
  BY <1>3, <1>4, <1>5, <1>6 DEF TrafficInv
<1>9. OwnInv' /\ RestInv'
  BY <1>2, <1>3, <1>4, <1>5, <1>6 DEF OwnInv, RestInv
<1>10. HeldInv'
  BY <1>2, <1>3, <1>5 DEF HeldInv, Correlated
<1> QED BY <1>7, <1>8, <1>9, <1>10 DEF AnswerInv

(* An answer that is taken for that of the write under way is its answer.    *)
LEMMA Mine ==
    ASSUME WritesSerialized, AnswerInv, NEW c \in Callers, Writer(c),
           NEW m \in Heard, Correlated(m, call[c].property, call[c].id)
    PROVE  m.id = call[c].id /\ verdict[c] = Said(m)
<1>1. call[c].property \notin unanswered
  BY DEF AnswerInv, AloneInv, Writer, Active
<1>2. m.id = call[c].id
  BY <1>1, OneWriter DEF AnswerInv, RestInv, Correlated
<1> QED BY <1>2 DEF AnswerInv, OwnInv

LEMMA AnswerTold ==
    ASSUME Types, WritesSerialized, AnswerInv, NEW c \in Callers,
           TakeAnswer(c)
    PROVE  Head(View) # Status => verdict[c] = Said(Head(View))
<1>0. SUFFICES ASSUME Head(View) # Status
               PROVE  verdict[c] = Said(Head(View))
  OBVIOUS
<1>1. /\ call[c].phase = "waiting" /\ View # <<>> /\ Head(View) # Closed
      /\ Correlated(Head(View), call[c].property, call[c].id)
      /\ Writer(c)
  BY DEF TakeAnswer, Writer
<1>2. results.current \in Seq(Message) /\ results.held \in Seq(Message)
  BY DEF Types, Results
<1>3. CASE results.detached
  <2>1. Head(View) \in ToSet(results.held)
    BY <1>1, <1>2, <1>3, SetOfTail DEF View
  <2> QED BY <1>0, <1>1, <1>3, <2>1 DEF AnswerInv, HeldInv
<1>4. CASE ~results.detached
  <2>1. Head(View) \in Heard
    BY <1>0, <1>1, <1>2, <1>4, SetOfTail DEF View, Heard
  <2> QED BY <1>1, <2>1, Mine
<1> QED BY <1>3, <1>4

(* A wait ends with the message at the head of the queue.                    *)
LEMMA TakeOver ==
    ASSUME Types, WritesSerialized, AnswerInv, NEW c \in Callers,
           \/ TakeSentinel(c) \/ TakeAnswer(c)
           \/ TakeUnrelated(c) /\ session.failed
    PROVE  AnswerInv'
<1>1. PICK phase \in Ended : Ends(c, phase)
  BY DEF TakeSentinel, TakeAnswer, TakeUnrelated, Ended
<1>2. /\ call[c].phase = "waiting" /\ call[c].phase \in Active /\ Writer(c)
      /\ View # <<>> /\ results' = Left(Rest)
      /\ verdict' = verdict /\ nextId' = nextId /\ session' = session
      /\ air' = air
      /\ unanswered' \in {unanswered, unanswered \cup {call[c].property}}
      /\ call' = [call EXCEPT ![c].phase = phase]
  BY <1>1 DEF TakeSentinel, TakeAnswer, TakeUnrelated, Ends, Active, Writer
<1>3. /\ results \in Results /\ results.current \in Seq(Message)
      /\ results.held \in Seq(Message) /\ Distinct(results.current)
  BY DEF Types, Results, AnswerInv, TrafficInv
<1>4. ~results'.detached
  BY <1>2, <1>3 DEF Left, Rest, Results
<1>5. ASSUME results.detached
      PROVE  /\ results'.current = results.current
             /\ \A r \in OnAir : r.id # call[c].id
             /\ \A m \in Heard : m.id # call[c].id
  BY <1>2, <1>3, <1>5 DEF Left, Rest, Results, AnswerInv, OwnInv
<1>6. ASSUME ~results.detached
      PROVE  /\ results'.current = Tail(results.current)
             /\ results.current # <<>>
             /\ Head(results.current) = Head(View)
             /\ Head(View) = Status \/ Head(View) \in Heard
             /\ Heard' \subseteq Heard
             /\ Distinct(results'.current)
             /\ Head(View).id # 0 => \A m \in Heard' : m.id # Head(View).id
  <2>1. /\ results'.current = Tail(results.current)
        /\ View = results.current /\ results.current # <<>>
    BY <1>2, <1>3, <1>6 DEF Left, Rest, View, Results
  <2> QED BY <1>3, <2>1, SetOfTail DEF Heard
<1>7. /\ Heard' \subseteq Heard /\ Distinct(results'.current)
      /\ results.current = <<>> => results'.current = <<>>
  BY <1>3, <1>5, <1>6 DEF Heard
<1>8. /\ \A r \in OnAir : r.id = call[c].id => r.property \in unanswered'
      /\ \A m \in Heard' : m.id = call[c].id => m.names \subseteq unanswered'
  <2>1. CASE results.detached
    BY <1>5, <1>7, <2>1
  <2>2. CASE TakeUnrelated(c) /\ session.failed
    <3>1. OnAir = {} /\ Heard = {}
      BY <2>2, SetOfNone DEF AnswerInv, QuietInv, OnAir, Heard
    <3> QED BY <1>7, <3>1
  <2>3. CASE ~results.detached /\ TakeAnswer(c) /\ Head(View).id = call[c].id
    <3>1. CASE Head(View) = Status
      <4>1. call[c].id = 0 /\ 0 \notin {r.id : r \in OnAir}
        BY <2>3, <3>1, TrafficType DEF Status, AnswerInv, TrafficInv
      <4>2. 0 \notin {m.id : m \in Heard}
        BY TrafficType DEF AnswerInv, TrafficInv
      <4> QED BY <1>7, <4>1, <4>2
    <3>2. CASE Head(View) \in Heard
      <4>1. /\ \A r \in OnAir : r.id # Head(View).id
            /\ Head(View).id # 0
        BY <3>2, TrafficType DEF AnswerInv, TrafficInv
      <4> QED BY <1>6, <2>3, <4>1
    <3> QED BY <1>6, <2>3, <3>1, <3>2
  <2>4. CASE ~results.detached /\ TakeAnswer(c) /\ Head(View).id # call[c].id
    <3>1. call[c].property \in unanswered'
      BY <2>4 DEF TakeAnswer
    <3>2. /\ \A r \in OnAir : r.id = call[c].id => r.property = call[c].property
          /\ \A m \in Heard : m.id = call[c].id => m.names = {call[c].property}
      BY <1>2 DEF AnswerInv, OwnInv
    <3> QED BY <1>7, <3>1, <3>2
  <2>5. CASE ~results.detached /\ TakeSentinel(c)
    <3>1. Head(View) = Closed /\ Closed.rsp = "closed" /\ Status.rsp = "ok"
      BY <2>5 DEF TakeSentinel, Closed, Status
    <3> QED BY <1>6, <2>5, <3>1 DEF AnswerInv, TrafficInv
  <2> QED BY <2>1, <2>2, <2>3, <2>4, <2>5
<1>9. Distinct(results.current)'
  BY <1>7
<1> QED BY <1>2, <1>4, <1>7, <1>8, <1>9, CallOver

(* A call gives up, fails to send or never gets the lock.                    *)
LEMMA OtherEnds ==
    ASSUME Types, WritesSerialized, AnswerInv, NEW c \in Callers,
           \/ WriteRefused(c) \/ GiveUp(c) \/ CancelledInLine(c)
           \/ WriteSent(c) /\ session.failed
           \/ SendFails(c) /\ session.status = "DISCONNECTED"
    PROVE  AnswerInv'
<1>1. PICK phase \in Ended :
        call' = [call EXCEPT ![c].phase = phase]
  BY DEF WriteRefused, GiveUp, CancelledInLine, WriteSent, SendFails, Ends,
         Ended
<1>2. /\ call[c].phase \in Active
      /\ call[c].phase = "waiting" => GiveUp(c)
      /\ verdict' = verdict /\ nextId' = nextId /\ session' = session
      /\ air' = air
      /\ unanswered' \in {unanswered, unanswered \cup {call[c].property}}
      /\ GiveUp(c) => unanswered' = unanswered \cup {call[c].property}
      /\ results' \in {results, Left(results)}
      /\ GiveUp(c) => results' = Left(results)
      /\ ~GiveUp(c) => results' = results
  BY DEF WriteRefused, GiveUp, CancelledInLine, WriteSent, SendFails, FailsOnce,
         Granted, Active
<1>3. results \in Results /\ Distinct(results.current)
  BY DEF Types, AnswerInv, TrafficInv
<1>4. /\ results'.current = results.current
      /\ GiveUp(c) => ~results'.detached
  BY <1>2, <1>3 DEF Left, Results
<1>5. Heard' = Heard /\ Distinct(results.current)'
  BY <1>3, <1>4 DEF Heard
<1>6. ASSUME Writer(c)
      PROVE  /\ \A r \in OnAir : r.id = call[c].id => r.property \in unanswered'
             /\ \A m \in Heard' : m.id = call[c].id =>
                    m.names \subseteq unanswered'
  <2>1. CASE GiveUp(c)
    BY <1>2, <1>5, <1>6, <2>1 DEF AnswerInv, OwnInv
  <2>2. CASE session.status = "DISCONNECTED"
    <3>1. OnAir = {} /\ Heard = {}
      BY <2>2, SetOfNone DEF AnswerInv, QuietInv, OnAir, Heard
    <3> QED BY <1>5, <3>1
  <2>3. GiveUp(c) \/ session.status = "DISCONNECTED"
    BY <1>6 DEF WriteRefused, CancelledInLine, Granted, Writer, AnswerInv,
                QuietInv
  <2> QED BY <2>1, <2>2, <2>3
<1>7. CASE call[c].phase = "waiting"
  <2>1. ~results'.detached
    BY <1>2, <1>4, <1>7
  <2> QED BY <1>1, <1>2, <1>4, <1>5, <1>6, <1>7, <2>1, CallOver
<1>8. CASE call[c].phase # "waiting"
  <2>1. /\ results'.detached = results.detached
        /\ results.detached => results'.held = results.held
    <3>1. CASE GiveUp(c)
      <4>1. ~results.detached
        BY <1>8, <3>1, OneWriter DEF GiveUp, Writer, AnswerInv, HeldInv
      <4> QED BY <1>2, <1>3, <3>1, <4>1 DEF Left, Results
    <3>2. CASE ~GiveUp(c)
      BY <1>2, <3>2
    <3> QED BY <3>1, <3>2
  <2> QED BY <1>1, <1>2, <1>4, <1>5, <1>6, <1>8, <2>1, CallOver
<1> QED BY <1>7, <1>8

LEMMA NextAnswer ==
    ASSUME Types, Types', Line, IdsFresh, IdsFresh', AnswerInv,
           ~Resends, [Next]_vars
    PROVE  AnswerInv'
<1>1. WritesSerialized
  BY LineSerializes
<1>2. ASSUME NEW c \in Callers, NEW p \in Properties, CallAtOnce(c, p)
      PROVE  AnswerInv'
  <2>1. /\ \A d \in Callers : ~Writer(d)
        /\ p \notin unanswered
        /\ \A d \in Callers \ {c} :
               call[d].phase \in Active => call[d].property # p
    BY <1>1, <1>2, OneWriter
    DEF CallAtOnce, Called, Contested
  <2>2. /\ Transmit(c, p) /\ verdict'[c] = "none"
        /\ \A d \in Callers \ {c} : verdict'[d] = verdict[d]
        /\ session' = session /\ results' = results /\ unanswered' = unanswered
    BY <1>2 DEF CallAtOnce, Called, Types
  <2> QED BY <1>1, <2>1, <2>2, RequestSent
<1>3. ASSUME NEW c \in Callers, WriteStart(c) PROVE AnswerInv'
  <2> DEFINE p == call[c].property
  <2>1. /\ Granted(c) /\ Transmit(c, p) /\ p \in Properties
        /\ verdict' = verdict
        /\ session' = session /\ results' = results /\ unanswered' = unanswered
        /\ call[c].phase = "locking"
    BY <1>3, TrafficType DEF WriteStart, Granted, Call
  <2>2. /\ \A d \in Callers : ~Writer(d)
        /\ p \notin unanswered /\ verdict[c] = "none"
        /\ \A d \in Callers \ {c} :
               call[d].phase \in Active => call[d].property # p
    BY <1>1, <2>1, OneWriter DEF AnswerInv, AloneInv, NumberInv, Active
  <2> HIDE DEF p
  <2> QED BY <1>1, <2>1, <2>2, RequestSent
<1>4. ASSUME NEW c \in Callers, SendFails(c),
             session.status # "DISCONNECTED"
      PROVE  AnswerInv'
  <2>1. /\ Fails /\ "raised" \in Ended /\ call[c].phase = "sending"
        /\ call' = [call EXCEPT ![c].phase = "raised"]
        /\ verdict' = verdict /\ nextId' = nextId
    BY <1>4 DEF SendFails, FailsOnce, Ends, Ended
  <2> QED BY <1>1, <2>1, Cleared DEF Fails, Lost
<1>5. ASSUME NEW c \in Callers, TakeUnrelated(c), ~session.failed
      PROVE  AnswerInv'
  BY <1>5, Dropped DEF TakeUnrelated
<1>6. ASSUME NEW c \in Callers, Writing(c) PROVE AnswerInv'
  BY <1>1, <1>3, <1>4, <1>5, <1>6, TakeOver, OtherEnds, WaitBegins
  DEF Writing
<1>7. CASE SessionFails \/ SessionCloses \/ SessionOpens
  <2>1. session'.failed => session'.status = "DISCONNECTED"
    BY <1>7 DEF SessionFails, Fails, SessionCloses, SessionOpens, Types
  <2> QED BY <1>1, <1>7, <2>1, Cleared
          DEF SessionFails, Fails, SessionCloses, SessionOpens, Lost
<1>8. /\ Distinct(air)' /\ OnAir' \subseteq Request /\ nextId' \in Nat
      /\ nextId \in Nat
  <2>1. \A i \in 1 .. Len(air') : air'[i] \in Request
    BY DEF Types
  <2>2. air' \in Seq(Request)
    BY DEF Types
  <2> QED BY <2>1, <2>2 DEF Types, IdsFresh, Distinct, OnAir, ToSet
<1>9. ASSUME NEW id \in Nat, id >= nextId, nextId' = id + 1,
             air' = air \/ air' = Append(air, Read(id)),
             session'.status = "DISCONNECTED" =>
                 session.status = "DISCONNECTED" /\ air' = air,
             call' = call, verdict' = verdict, unanswered' = unanswered,
             results' = results,
             session'.failed => session'.status = "DISCONNECTED"
      PROVE  AnswerInv'
  <2>1. OnAir' \subseteq OnAir \cup {Read(id)}
    <3>1. Read(id) \in Request /\ air \in Seq(Request)
      BY DEF Read, Request, Asked, Types
    <3> QED BY <1>9, <3>1, SetOfAppend DEF OnAir
  <2>2. Read(id).by \notin Callers /\ Read(id).id = id
    BY ControlAssumption DEF Read
  <2> QED BY <1>8, <1>9, <2>1, <2>2, Unrelated
<1>10. session.failed => session.status = "DISCONNECTED"
  BY DEF AnswerInv, QuietInv
<1>11. CASE SessionReady
  <2> DEFINE getInfo == Fresh(nextId)
             read == Fresh(getInfo + 1)
  <2>1. getInfo \in Nat /\ getInfo >= nextId
    BY <1>8, FreshNat
  <2>2. read \in Nat /\ read >= getInfo + 1
    BY <2>1, FreshNat
  <2>3. nextId' = read + 1 /\ air' = Append(air, Read(read))
    BY <1>11 DEF SessionReady
  <2> HIDE DEF getInfo, read
  <2>4. read >= nextId
    BY <1>8, <2>1, <2>2
  <2>5. session'.status = "READY" /\ ~session'.failed
    BY <1>10, <1>11 DEF SessionReady, Types
  <2> QED BY <1>9, <1>11, <2>2, <2>3, <2>4, <2>5 DEF SessionReady
<1>12. ASSUME call' = call, verdict' = verdict, unanswered' = unanswered,
              results' = results, session' = session, nextId' = nextId,
              air' = air
       PROVE  AnswerInv'
  <2>1. OnAir' = OnAir
    BY <1>12 DEF OnAir
  <2> QED BY <1>8, <1>10, <1>12, <2>1, Unrelated
<1>13. CASE KeepaliveWakes \/ KeepaliveStart
  <2>1. /\ call' = call /\ verdict' = verdict /\ unanswered' = unanswered
        /\ results' = results /\ session' = session
    BY <1>13 DEF KeepaliveWakes, KeepaliveStart
  <2>2. CASE Asks
    <3> DEFINE id == Fresh(nextId)
    <3>1. id \in Nat /\ id >= nextId /\ nextId' = id + 1
      BY <1>8, <2>2, FreshNat DEF Asks
    <3>2. /\ air' = air \/ air' = Append(air, Read(id))
          /\ session.status = "DISCONNECTED" => air' = air
      BY <2>2 DEF Asks
    <3> HIDE DEF id
    <3> QED BY <1>9, <1>10, <2>1, <3>1, <3>2
  <2>3. CASE ~Asks
    BY <1>12, <1>13, <2>1, <2>3 DEF KeepaliveWakes, KeepaliveStart
  <2> QED BY <2>2, <2>3
<1>14. CASE KeepaliveSent \/ KeepaliveCancelled
  BY <1>12, <1>14 DEF KeepaliveSent, KeepaliveCancelled
<1>15. CASE KeepaliveFails
  <2>1. call' = call /\ verdict' = verdict /\ nextId' = nextId
    BY <1>15 DEF KeepaliveFails
  <2>2. CASE session.status = "DISCONNECTED"
    BY <1>12, <1>15, <2>1, <2>2 DEF KeepaliveFails, FailsOnce
  <2>3. CASE session.status # "DISCONNECTED"
    <3>1. Fails
      BY <1>15, <2>3 DEF KeepaliveFails, FailsOnce
    <3> QED BY <1>1, <2>1, <3>1, Cleared DEF Fails, Lost
  <2> QED BY <2>2, <2>3
<1>16. CASE DeviceMisses
  <2>1. OnAir' \subseteq OnAir
    BY <1>16, SetOfTail DEF DeviceMisses, Types, OnAir
  <2>2. /\ results' = results /\ session' = session /\ call' = call
        /\ verdict' = verdict /\ unanswered' = unanswered /\ nextId' = nextId
        /\ session.status # "DISCONNECTED"
    BY <1>16 DEF DeviceMisses, AnswerInv, QuietInv
  <2> QED BY <1>8, <1>10, <2>1, <2>2, Unrelated
<1>17. CASE Finished \/ UNCHANGED vars
  BY <1>12, <1>17 DEF Finished, vars
<1> QED BY <1>2, <1>6, <1>7, <1>11, <1>13, <1>14, <1>15, <1>16, <1>17,
           CallWaits, Decided, Reported
        DEF Next

-----------------------------------------------------------------------------
(* A call that is made asks, the device decides, a call that takes its       *)
(* answer returns or raises SolarFlowCommandError, and a call that ends in   *)
(* any other way leaves it open.  Everything else goes unnoticed.            *)
Told == [c \in Callers |-> Outcome(c)]
Heeded ==
    \/ \E c \in Callers :
        \/ Contract!Ask(c) \/ Contract!Decide(c) \/ Contract!Return(c)
        \/ Contract!RaiseCommandError(c) \/ Contract!RaiseOther(c)
    \/ Contract!Report

LEMMA OutcomeOf ==
    ASSUME NEW c \in Callers
    PROVE  /\ Told[c] = Outcome(c) /\ Told'[c] = Outcome(c)'
           /\ call[c].phase \in Active => Outcome(c) = "asked"
           /\ call[c].phase \in Ended => Outcome(c) # "asked"
           /\ call'[c].phase \in Active => Outcome(c)' = "asked"
           /\ call'[c].phase = "returned" => Outcome(c)' = "returned"
           /\ call'[c].phase = "rejected" => Outcome(c)' = "command error"
           /\ call'[c].phase = "raised" => Outcome(c)' = "open"
BY DEF Told, Outcome, Active, Ended

(* A step that changes one call changes what is told of that call alone.     *)
LEMMA OneTold ==
    ASSUME NEW c \in Callers,
           \A d \in Callers \ {c} : call'[d].phase = call[d].phase
    PROVE  Told' = [Told EXCEPT ![c] = Outcome(c)']
<1>1. \A d \in Callers \ {c} : Outcome(d)' = Outcome(d)
  BY DEF Outcome
<1> QED BY <1>1 DEF Told

LEMMA Unheeded ==
    ASSUME verdict' = verdict,
           \A d \in Callers :
               \/ call'[d].phase = call[d].phase
               \/ call[d].phase \in Active /\ call'[d].phase \in Active
    PROVE  Heeded
<1>1. \A d \in Callers : Outcome(d)' = Outcome(d)
  BY DEF Outcome
<1>2. Told' = Told
  BY <1>1 DEF Told
<1> QED BY <1>2 DEF Heeded, Contract!Report, Told

LEMMA InitTold == Init => Contract!Init
<1> SUFFICES ASSUME Init PROVE Contract!Init
  OBVIOUS
<1>1. \A c \in Callers : call[c].phase = "idle"
  BY DEF Init
<1>2. \A c \in Callers : Outcome(c) = "open"
  BY <1>1 DEF Outcome, Active
<1>3. ~StatusUnread
  BY SetOfNone DEF Init, StatusUnread
<1> QED BY <1>2, <1>3 DEF Contract!Init, Init

LEMMA CallAsks ==
    ASSUME Types, NEW c \in Callers, NEW p \in Properties,
           CallAtOnce(c, p) \/ CallQueued(c, p)
    PROVE  Heeded
<1>1. /\ call \in [Callers -> Call] /\ call[c].phase \in Ended
      /\ \E id : \E phase \in Active :
            call' = [call EXCEPT ![c] = [phase |-> phase, property |-> p,
                                         id |-> id]]
      /\ verdict' = [verdict EXCEPT ![c] = "none"]
  BY DEF CallAtOnce, CallQueued, Called, Transmit, Active, Types
<1>2. /\ call'[c].phase \in Active
      /\ \A d \in Callers \ {c} : call'[d] = call[d]
  BY <1>1
<1>3. Told' = [Told EXCEPT ![c] = "asked"] /\ Told[c] # "asked"
  BY <1>1, <1>2, OneTold, OutcomeOf
<1>4. Contract!Ask(c)
  BY <1>1, <1>3 DEF Contract!Ask, Told
<1> QED BY <1>4 DEF Heeded

LEMMA DeviceAnswers ==
    ASSUME Types, AnswerInv, DeviceDecides
    PROVE  Heeded
<1> DEFINE r == Head(air)
           c == r.by
<1>1. /\ c \in Callers /\ call' = call /\ r \in OnAir
      /\ \E v \in {"accepted", "rejected"} :
            verdict' = IF call[c].id = r.id THEN [verdict EXCEPT ![c] = v]
                       ELSE verdict
  BY SetOfTail DEF DeviceDecides, Types, OnAir
<1>2. Told' = Told
  BY <1>1 DEF Told, Outcome
<1>3. CASE call[c].id = r.id
  <2>1. verdict[c] = "none"
    BY <1>1, <1>3 DEF AnswerInv, UndecidedInv
  <2>2. Contract!Decide(c)
    BY <1>1, <1>2, <1>3, <2>1 DEF Contract!Decide, Contract!Verdicts, Told
  <2> QED BY <1>1, <2>2 DEF Heeded
<1>4. CASE call[c].id # r.id
  BY <1>1, <1>2, <1>4 DEF Heeded, Contract!Report, Told
<1> QED BY <1>3, <1>4

LEMMA CallTells ==
    ASSUME Types, WritesSerialized, AnswerInv, NEW c \in Callers,
           TakeAnswer(c)
    PROVE  Heeded
<1> DEFINE m == Head(View)
           end == IF m.rsp = "ok" THEN "returned" ELSE "rejected"
<1>1. /\ call \in [Callers -> Call] /\ call[c].phase = "waiting"
      /\ call' = [call EXCEPT ![c].phase = end]
      /\ verdict' = verdict
  BY DEF TakeAnswer, Ends, Types
<1>2. /\ call'[c].phase = end
      /\ \A d \in Callers \ {c} : call'[d] = call[d]
  BY <1>1 DEF Call
<1>3. Told[c] = "asked" /\ Told' = [Told EXCEPT ![c] = Outcome(c)']
  BY <1>1, <1>2, OneTold, OutcomeOf DEF Active
<1>4. /\ m # Status => verdict[c] = Said(m)
      /\ m = Status => StatusUnread /\ m.rsp = "ok"
  <2>1. ToSet(View) \subseteq ToSet(results.current) \cup ToSet(results.held)
    BY DEF View
  <2>2. m \in ToSet(View)
    <3>1. View \in Seq(Message) /\ View # <<>>
      BY DEF Types, Results, View, TakeAnswer
    <3> QED BY <3>1, SetOfTail
  <2> QED BY <2>1, <2>2, AnswerTold DEF StatusUnread, Status
<1>5. CASE m.rsp = "ok"
  <2>1. Outcome(c)' = "returned"
    BY <1>2, <1>5, OutcomeOf
  <2>2. Contract!Return(c)
    BY <1>1, <1>3, <1>4, <1>5, <2>1 DEF Contract!Return, Told, Said
  <2> QED BY <2>2 DEF Heeded
<1>6. CASE m.rsp # "ok"
  <2>1. Outcome(c)' = "command error"
    BY <1>2, <1>6, OutcomeOf
  <2>2. Contract!RaiseCommandError(c)
    BY <1>1, <1>3, <1>4, <1>6, <2>1
    DEF Contract!RaiseCommandError, Told, Said
  <2> QED BY <2>2 DEF Heeded
<1> QED BY <1>5, <1>6

LEMMA CallRaises ==
    ASSUME Types, NEW c \in Callers, call[c].phase \in Active,
           call' = [call EXCEPT ![c].phase = "raised"], verdict' = verdict
    PROVE  Heeded
<1>1. /\ call'[c].phase = "raised"
      /\ \A d \in Callers \ {c} : call'[d] = call[d]
  BY DEF Types, Call
<1>2. Told[c] = "asked" /\ Told' = [Told EXCEPT ![c] = "open"]
  BY <1>1, OneTold, OutcomeOf
<1>3. Contract!RaiseOther(c)
  BY <1>2 DEF Contract!RaiseOther, Told
<1> QED BY <1>3 DEF Heeded

LEMMA WritingHeeded ==
    ASSUME Types, WritesSerialized, AnswerInv, NEW c \in Callers, Writing(c)
    PROVE  Heeded
<1>1. CASE WriteStart(c)
  <2>1. /\ \E id : call' = [call EXCEPT ![c] =
                        [phase |-> "sending", property |-> call[c].property,
                         id |-> id]]
        /\ call \in [Callers -> Call] /\ call[c].phase = "locking"
        /\ verdict' = verdict
    BY <1>1 DEF WriteStart, Transmit, Granted, Types
  <2>2. \A d \in Callers : \/ call'[d].phase = call[d].phase
                           \/ /\ call[d].phase \in Active
                              /\ call'[d].phase \in Active
    BY <2>1 DEF Active
  <2> QED BY <2>1, <2>2, Unheeded
<1>2. CASE TakeAnswer(c)
  BY <1>2, CallTells
<1>3. CASE WriteRefused(c) \/ SendFails(c) \/ TakeSentinel(c) \/ GiveUp(c)
             \/ CancelledInLine(c)
  BY <1>3, CallRaises
  DEF WriteRefused, SendFails, TakeSentinel, GiveUp, CancelledInLine, Ends,
      Granted, Active
<1>4. CASE WriteSent(c)
  <2>1. CASE session.failed
    BY <1>4, <2>1, CallRaises DEF WriteSent, Ends, Active
  <2>2. CASE ~session.failed
    <3>1. /\ call' = [call EXCEPT ![c].phase = "waiting"]
          /\ call \in [Callers -> Call] /\ call[c].phase = "sending"
          /\ verdict' = verdict
      BY <1>4, <2>2 DEF WriteSent, Types
    <3>2. \A d \in Callers : \/ call'[d].phase = call[d].phase
                             \/ /\ call[d].phase \in Active
                                /\ call'[d].phase \in Active
      BY <3>1 DEF Active, Call
    <3> QED BY <3>1, <3>2, Unheeded
  <2> QED BY <2>1, <2>2
<1>5. CASE TakeUnrelated(c)
  <2>1. CASE session.failed
    BY <1>5, <2>1, CallRaises DEF TakeUnrelated, Ends, Active
  <2>2. CASE ~session.failed
    BY <1>5, <2>2, Unheeded DEF TakeUnrelated
  <2> QED BY <2>1, <2>2
<1> QED BY <1>1, <1>2, <1>3, <1>4, <1>5 DEF Writing

LEMMA NextHeeded ==
    ASSUME Types, WritesSerialized, AnswerInv, [Next]_vars
    PROVE  Heeded
<1>1. ASSUME \/ SessionFails \/ SessionCloses \/ SessionOpens \/ SessionReady
             \/ KeepaliveWakes \/ KeepaliveStart \/ KeepaliveSent
             \/ KeepaliveFails \/ KeepaliveCancelled \/ DeviceReports
             \/ DeviceMisses \/ Finished \/ UNCHANGED vars
      PROVE  call' = call /\ verdict' = verdict
  BY <1>1 DEF SessionFails, SessionCloses, SessionOpens, SessionReady,
              KeepaliveWakes, KeepaliveStart, KeepaliveSent, KeepaliveFails,
              KeepaliveCancelled, DeviceReports, DeviceMisses, Finished, vars
<1> QED BY <1>1, Unheeded, CallAsks, WritingHeeded, DeviceAnswers DEF Next

(* Nothing but a status report looks like one.                               *)
LEMMA NextUnread ==
    ASSUME Types, AnswerInv, UnreadInv, [Next]_vars
    PROVE  UnreadInv'
<1> SUFFICES ASSUME ~FullReports, ~StatusUnread PROVE ~StatusUnread'
  BY DEF UnreadInv
<1> DEFINE Kept(q) == ToSet(q) \subseteq ToSet(results.current)
                                        \cup ToSet(results.held) \cup {Closed}
<1>1. /\ results \in Results /\ results.current \in Seq(Message)
      /\ results.held \in Seq(Message) /\ Closed # Status
      /\ <<>> \in Seq(Message) /\ <<Closed>> \in Seq(Message)
  BY DEF Types, Results, Closed, Status, Message
<1> HIDE DEF Kept
<1>2. ASSUME Kept(results'.current), Kept(results'.held)
      PROVE  ~StatusUnread'
  BY <1>1, <1>2 DEF StatusUnread, Kept
<1>3. ASSUME results' = results PROVE ~StatusUnread'
  BY <1>3 DEF StatusUnread
<1>4. ASSUME NEW last \in {<<>>, <<Closed>>}, results' = Replaced(last)
      PROVE  ~StatusUnread'
  <2>1. last \in Seq(Message) /\ ToSet(last) \subseteq {Closed}
    <3>1. CASE last = <<>>
      BY <1>1, <3>1, SetOfNone
    <3>2. CASE last = <<Closed>>
      <4>1. ToSet(<<Closed>>) = {Closed}
        BY DEF ToSet
      <4> QED BY <1>1, <3>2, <4>1
    <3> QED BY <3>1, <3>2
  <2>2. ToSet(results.current \o last) \subseteq ToSet(results.current) \cup {Closed}
    BY <1>1, <2>1, SetOfBoth
  <2>3. /\ results'.current = <<>>
        /\ results'.held \in {results.held, results.current \o last}
    BY <1>1, <1>4 DEF Replaced, Results
  <2> QED BY <1>2, <2>2, <2>3, SetOfNone DEF Kept
<1>5. ASSUME results' \in {Left(results), Rest, Left(Rest)},
             View # <<>> \/ results' = Left(results)
      PROVE  ~StatusUnread'
  <2>1. CASE results' = Left(results)
    <3>1. results'.current = results.current /\ results'.held = <<>>
      BY <1>1, <2>1 DEF Left, Results
    <3> QED BY <1>2, <3>1, SetOfNone DEF Kept
  <2>2. CASE View # <<>> /\ results.detached
    <3>1. Kept(Tail(results.held)) /\ Kept(results.current) /\ Kept(<<>>)
      BY <1>1, <2>2, SetOfTail, SetOfNone DEF View, Kept
    <3>2. /\ Rest.current = results.current
          /\ Rest.held = Tail(results.held)
          /\ Left(Rest).current = results.current
          /\ Left(Rest).held = <<>>
      BY <1>1, <2>2 DEF Left, Rest, Results
    <3> QED BY <1>2, <1>5, <2>1, <3>1, <3>2
  <2>3. CASE View # <<>> /\ ~results.detached
    <3>1. Kept(Tail(results.current)) /\ Kept(results.held) /\ Kept(<<>>)
      BY <1>1, <2>3, SetOfTail, SetOfNone DEF View, Kept
    <3>2. /\ Rest.current = Tail(results.current)
          /\ Rest.held = results.held
          /\ Left(Rest).current = Tail(results.current)
          /\ Left(Rest).held = <<>>
      BY <1>1, <2>3 DEF Left, Rest, Results
    <3> QED BY <1>2, <1>5, <2>1, <3>1, <3>2
  <2> QED BY <1>5, <2>1, <2>2, <2>3
<1>6. CASE DeviceDecides
  <2>1. CASE results' = results
    BY <1>3, <2>1
  <2>2. CASE results' # results
    <3> DEFINE r == Head(air)
    <3>1. /\ r \in OnAir /\ r.id # 0
      BY <1>6, SetOfTail, TrafficType
      DEF DeviceDecides, Types, OnAir, AnswerInv, TrafficInv
    <3>2. PICK rsp \in {"ok", "error"} : Arrives(Answer(r, rsp))
      BY <1>6, <2>2 DEF DeviceDecides
    <3> DEFINE m == Answer(r, rsp)
    <3>3. m.id = r.id /\ m \in Message
      BY <3>1, TrafficType DEF Answer, Message, Request, Asked
    <3>4. m # Status
      BY <3>1, <3>3 DEF Status
    <3>5. results' = [results EXCEPT !.current = Append(results.current, m)]
      BY <3>2 DEF Arrives
    <3> HIDE DEF m
    <3>6. /\ results'.current = Append(results.current, m)
          /\ results'.held = results.held
      BY <1>1, <3>5 DEF Results
    <3>7. ToSet(results'.current) = ToSet(results.current) \cup {m}
      BY <1>1, <3>3, <3>6, SetOfAppend
    <3> QED BY <3>4, <3>6, <3>7 DEF StatusUnread
  <2> QED BY <2>1, <2>2
<1>7. CASE SessionFails \/ SessionCloses \/ SessionOpens
  BY <1>4, <1>7 DEF SessionFails, Fails, SessionCloses, SessionOpens
<1>8. ASSUME FailsOnce PROVE ~StatusUnread'
  BY <1>3, <1>4, <1>8 DEF FailsOnce, Fails
<1>9. ASSUME NEW c \in Callers, Writing(c) PROVE ~StatusUnread'
  <2>1. CASE SendFails(c)
    BY <1>8, <2>1 DEF SendFails
  <2>2. CASE TakeSentinel(c) \/ TakeAnswer(c) \/ TakeUnrelated(c) \/ GiveUp(c)
    BY <1>5, <2>2 DEF TakeSentinel, TakeAnswer, TakeUnrelated, GiveUp
  <2>3. CASE WriteStart(c) \/ WriteRefused(c) \/ WriteSent(c)
             \/ CancelledInLine(c)
    BY <1>3, <2>3 DEF WriteStart, WriteRefused, WriteSent, CancelledInLine
  <2> QED BY <1>9, <2>1, <2>2, <2>3 DEF Writing
<1>10. CASE KeepaliveFails
  BY <1>8, <1>10 DEF KeepaliveFails
<1>11. ASSUME NEW c \in Callers, NEW p \in Properties,
              CallAtOnce(c, p) \/ CallQueued(c, p)
       PROVE  ~StatusUnread'
  BY <1>3, <1>11 DEF CallAtOnce, CallQueued, Called
<1>12. CASE \/ SessionReady \/ KeepaliveWakes \/ KeepaliveStart
            \/ KeepaliveSent \/ KeepaliveCancelled \/ DeviceMisses
            \/ Finished \/ UNCHANGED vars
  BY <1>3, <1>12 DEF SessionReady, KeepaliveWakes, KeepaliveStart, KeepaliveSent,
     KeepaliveCancelled, DeviceMisses, Finished, vars
<1>13. ~DeviceReports
  BY DEF DeviceReports
<1> QED BY <1>6, <1>7, <1>9, <1>10, <1>11, <1>12, <1>13 DEF Next

(* Settings that are not written again in a session that has not read the    *)
(* answer to the write before are enough, whatever the status reports say: a *)
(* control call then returns only when the device has accepted the setting   *)
(* or a status report that names it lies unread, and only in the former case *)
(* if status reports carry no writeRsp; and it raises SolarFlowCommandError  *)
(* only when the device has rejected the setting.  It holds for any number   *)
(* of callers, of queued writes, of sessions that fail while a write is      *)
(* pending, and of answers that are lost, late or never read                 *)
(* (_request_write).                                                         *)
THEOREM CallsKeepContract == ~Resends /\ Spec => ContractKept
<1> SUFFICES ASSUME ~Resends PROVE Spec => ContractKept
  OBVIOUS
<1> DEFINE IInv == Types /\ Line /\ IdsFresh /\ AnswerInv /\ UnreadInv
<1>1. Init => IInv /\ Contract!Init
  <2> SUFFICES ASSUME Init PROVE IInv /\ Contract!Init
    OBVIOUS
  <2>1. UnreadInv
    BY SetOfNone DEF Init, UnreadInv, StatusUnread
  <2> QED BY <2>1, InitTypes, InitLine, InitIds, InitAnswer, InitTold
<1>2. IInv /\ [Next]_vars => IInv'
  <2> SUFFICES ASSUME IInv, [Next]_vars PROVE IInv'
    OBVIOUS
  <2>1. Types' /\ Line' /\ IdsFresh'
    BY StepTypes, StepLine, StepIds
  <2> QED BY <2>1, NextAnswer, NextUnread
<1>3. IInv /\ [Next]_vars => [Contract!Next]_(Contract!vars)
  <2> SUFFICES ASSUME IInv, [Next]_vars PROVE Contract!Next
    OBVIOUS
  <2>1. Heeded
    BY LineSerializes, NextHeeded
  <2>2. UnreadInv'
    BY <1>2
  <2>3. StatusUnread' \in {FALSE, FullReports}
    <3>1. FullReports \in BOOLEAN /\ StatusUnread' \in BOOLEAN
      BY ControlAssumption DEF StatusUnread
    <3> QED BY <2>2, <3>1, Zenon DEF UnreadInv
  <2> QED BY <2>1, <2>3 DEF Heeded, Contract!Next
<1> QED BY <1>1, <1>2, <1>3, PTL DEF Spec, ContractKept, Contract!Spec
=============================================================================
