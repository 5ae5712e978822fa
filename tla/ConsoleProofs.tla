---------------------------- MODULE ConsoleProofs ----------------------------
(* Theorems about the two parts of the console that decide by themselves    *)
(* what goes on: SaveRounds, for any number of saves, any calendar, any     *)
(* intervals and any set of Applications; and, further down,                *)
(* CompatibilityControl, for any catalogue, any plans and any number of     *)
(* runs and restarts.                                                       *)
EXTENDS SaveRounds, CompatibilityControl, TLAPS

USE DEF world, records, reviews, joint, orders, marks, vars,
        At, Goto, Over, NoSave

Known == 0..MaxSaves

Phases == {"none", "template", "fleet", "waiting", "permission"}

AtSave    == {"read", "send", "record", "consume", "close"}
OnSave    == {"read", "send", "record", "consume"}
RoundPCs  == {"agents", "joint", "queue", "reviewed", "coalesce"}

WorkDoc == [phase: Phases, acted: Known, checked: Known]

JobDoc == [kind: {"none", "continuation", "round", "chat"},
           pc: {"none", "probe", "pin"} \cup AtSave \cup RoundPCs,
           source: Known, work: Works, at: Known, recorded: BOOLEAN]

Shape ==
  /\ save \in Known /\ months \in [Saves -> Nat \ {0}]
  /\ work \in [Works -> WorkDoc] /\ attempts \in [Works -> Known]
  /\ \A w \in Works : attempts[w] <= save
  /\ consumed \in 0..save /\ reviewed \in 0..save /\ floor \in 0..save
  /\ next \in [source: Nat, due: Nat] /\ jointDue \in Nat /\ owedAt \in Nat
  /\ job \in JobDoc
  /\ sent \in [Works -> [Saves -> Nat]] /\ confirmed \in [Saves -> Nat]

(* Which job is at which step, and that it has a save there.                *)
JobShape ==
  /\ job.kind = "none" <=> job.pc = "none"
  /\ job.kind = "continuation" <=> job.pc \in {"probe"} \cup AtSave
  /\ job.kind = "chat" => job.pc \in {"agents", "coalesce"}
  /\ job.kind = "continuation" => job.source \in 1..save
  /\ job.kind = "round" => save # 0
  /\ job.pc = "probe" => job.at = 0
  /\ job.pc \in AtSave \cup RoundPCs => job.at \in 1..save
  /\ job.pc \in {"send", "record"} => job.work # "army"

(* Nothing is known of saves that have not arrived.                         *)
Unsent ==
  \A s \in Saves : s > save =>
    /\ s \notin crossed /\ s \notin struck /\ confirmed[s] = 0
    /\ \A w \in Works : sent[w][s] = 0

Base == Shape /\ JobShape /\ Unsent

(* A continuation under way is noted for the save it works on, which is the *)
(* newest one unless that crossed it.                                       *)
JobOnSave ==
  /\ job.pc \in OnSave /\ save \notin crossed =>
       job.at = save /\ attempts[job.work] = save
  /\ job.pc \in OnSave => consumed # save

(* Work that was tried on the newest save cannot be tried again: the        *)
(* attempt is noted, or a model has started it anew on this very save.      *)
Tried ==
  /\ \A w \in Works, s \in Saves \ crossed : sent[w][s] <= 1
  /\ save # 0 /\ save \notin crossed =>
       /\ \A w \in Works :
            sent[w][save] # 0 => attempts[w] = save \/ work[w].phase = "none" \/ work[w].acted = save
       /\ job.pc \in {"read", "send"} => sent[job.work][save] = 0

(* A confirmed order takes the newest save, or is about to.                 *)
Ordered ==
  /\ \A s \in Saves \ (crossed \cup struck) : confirmed[s] <= 1
  /\ save # 0 /\ save \notin crossed \cup struck =>
       /\ confirmed[save] # 0 => consumed = save \/ job.pc \in {"record", "consume"}
       /\ job.pc \in {"read", "send"} => confirmed[save] = 0

(* Work whose order is newer than the newest save holds rounds back.        *)
Held ==
  /\ save # 0 /\ save \notin struck /\ confirmed[save] # 0 =>
       \/ consumed = save
       \/ \E w \in {"fleet", "campaign"} : work[w].phase # "none" /\ work[w].acted = save
       \/ job.pc = "record" /\ job.at = save
  /\ job.pc = "record" /\ job.at # save => confirmed[save] = 0
  /\ job.kind = "round" => confirmed[save] = 0 \/ save \in struck

(* The newest save, once a round is done with it, is not due any more, and  *)
(* no job that is under way lies before it.                                 *)
Moved ==
  /\ save # 0 /\ floor = save => reviewed = save \/ months[save] < next.due
  /\ job.kind = "continuation" => floor <= job.source
  /\ job.pc = "pin" => floor < save
  /\ job.pc \in RoundPCs => floor <= job.at
  /\ job.pc = "coalesce" /\ job.kind = "round" => reviewed = job.at

(* While directives are owed the review is due, and has been since it was   *)
(* tried.                                                                   *)
Owed ==
  /\ OwedIsDue
  /\ jointDue = 0 => owed = {}
  /\ At("queue") => jointDue # 0 /\ jointDue <= owedAt /\ owedAt = months[job.at]

-----------------------------------------------------------------------------
(* The initial states.                                                      *)

LEMMA InitHolds ==
  ASSUME Init
  PROVE  Base /\ JobOnSave /\ Tried /\ Ordered /\ Held /\ Moved /\ Owed
<1>1. /\ save = 0 /\ consumed = 0 /\ reviewed = 0 /\ floor = 0 /\ owed = {}
      /\ jointDue = 0 /\ owedAt = 0 /\ crossed = {} /\ struck = {}
      /\ \A s \in Saves : confirmed[s] = 0 /\ \A w \in Works : sent[w][s] = 0
      /\ \A w \in Works : attempts[w] = 0
  BY DEF Init
<1>2. 0 \in Known /\ MaxSaves \in Nat \ {0}
  BY SaveRoundsAssumption DEF Known
<1>3. job \in JobDoc /\ job.kind = "none" /\ job.pc = "none"
  BY <1>2 DEF Init, NoJob, JobDoc, Works
<1>4. work \in [Works -> WorkDoc]
  <2>1. NoWork \in WorkDoc
    BY <1>2 DEF NoWork, WorkDoc, Phases
  <2> QED BY <2>1 DEF Init
<1>5. months \in [Saves -> Nat \ {0}]
  BY SaveRoundsAssumption DEF Init
<1>6. Shape
  BY <1>1, <1>2, <1>3, <1>4, <1>5 DEF Init, Shape
<1>7. JobShape /\ Unsent
  BY <1>1, <1>3 DEF JobShape, Unsent, AtSave, RoundPCs
<1>8. JobOnSave /\ Ordered /\ Held
  BY <1>1, <1>3 DEF JobOnSave, Ordered, Held, OnSave
<1>9. Tried /\ Owed
  BY <1>1, <1>3 DEF Tried, Owed, OwedIsDue
<1>10. Moved
  BY <1>1, <1>3 DEF Moved, RoundPCs
<1> QED BY <1>6, <1>7, <1>8, <1>9, <1>10 DEF Base

(* Facts about the job and the saves it names.                              *)

LEMMA Parts ==
  ASSUME Base
  PROVE  /\ save \in Known /\ save \in Nat /\ MaxSaves \in Nat \ {0} /\ job \in JobDoc
         /\ work \in [Works -> WorkDoc] /\ attempts \in [Works -> Known]
         /\ \A s \in Known : s # 0 => s \in Saves /\ s \in Nat
         /\ Interval \in Nat \ {0} /\ JointInterval \in Nat \ {0}
         /\ \A s \in Saves : months[s] \in Nat \ {0} /\ s \in Known /\ s # 0
         /\ next.due \in Nat /\ next.source \in Nat /\ next \in [source: Nat, due: Nat]
         /\ job.work \in Works /\ job.at \in Known /\ job.source \in Known
         /\ job.recorded \in BOOLEAN
         /\ "fleet" \in Works /\ "army" \in Works /\ "campaign" \in Works
BY SaveRoundsAssumption DEF Base, Shape, JobDoc, Known, Saves, Works

(* A job that works on a save names one that has arrived.                   *)
LEMMA Placed ==
  ASSUME Base, job.pc \in AtSave \cup RoundPCs
  PROVE  save \in Saves /\ job.at \in Saves /\ job.at <= save
<1>1. job.at \in 1..save /\ save \in 0..MaxSaves
  BY DEF Base, Shape, JobShape, Known
<1> QED BY <1>1, SaveRoundsAssumption DEF Saves

(* First picks a piece of work, whatever the set.                           *)
LEMMA FirstWork == ASSUME NEW W PROVE First(W) \in Works
BY DEF First, Works

(* The empty job is well formed.                                            *)
LEMMA Starting ==
  ASSUME Base
  PROVE  /\ NoJob \in JobDoc /\ NoJob.kind = "none" /\ NoJob.pc = "none"
         /\ NoJob.at = 0 /\ NoJob.source = 0 /\ NoJob.recorded = FALSE
<1>1. 0 \in Known /\ "fleet" \in Works
  BY Parts DEF Known
<1> QED BY <1>1 DEF NoJob, JobDoc

(* The job is well formed after every step.                                 *)
LEMMA JobTyped ==
  ASSUME Base, [Next]_vars
  PROVE  job' \in JobDoc
<1>1. CASE Upload
  BY <1>1, Parts DEF Upload
<1>2. CASE SaveSettings
  BY <1>2, Parts DEF SaveSettings
<1>3. CASE EmergencyStop
  BY <1>3, Parts DEF EmergencyStop
<1>4. CASE ClearStop
  BY <1>4, Parts DEF ClearStop
<1>5. CASE Crash
  BY <1>5, Starting DEF Crash
<1>6. CASE StartContinuation
  BY <1>6, Parts, Starting DEF StartContinuation, JobDoc
<1>7. CASE StartRound
  BY <1>7, Starting DEF StartRound, JobDoc
<1>8. CASE StartChat
  BY <1>8, Parts, Starting DEF StartChat, JobDoc, RoundPCs
<1>9. CASE Probe
  <2>1. job' = NoJob \/ job' = [job EXCEPT !.pc = "read", !.work = First(DueWorks), !.at = save]
    BY <1>9 DEF Probe
  <2>2. First(DueWorks) \in Works
    BY FirstWork
  <2> QED BY <2>1, <2>2, Parts, Starting DEF JobDoc, AtSave
<1>10. CASE ReadFleet
  <2>1. job' = NoJob \/ job' = [job EXCEPT !.pc = "send"]
    BY <1>10 DEF ReadFleet, Reading, Concluded
  <2> QED BY <2>1, Parts, Starting DEF JobDoc, AtSave
<1>11. CASE ReadArmy
  BY <1>11, Starting DEF ReadArmy, Concluded
<1>12. CASE ReadCampaign
  <2>1. job' = NoJob \/ job' = [job EXCEPT !.pc = "send"]
    BY <1>12 DEF ReadCampaign, Reading, Concluded
  <2> QED BY <2>1, Parts, Starting DEF JobDoc, AtSave
<1>13. CASE SendConfirmed
  BY <1>13, Parts DEF SendConfirmed, JobDoc, AtSave
<1>14. CASE SendUnconfirmed
  BY <1>14, Starting DEF SendUnconfirmed
<1>15. CASE Refused
  BY <1>15, Starting DEF Refused
<1>16. CASE RecordOrder
  BY <1>16, Parts DEF RecordOrder, JobDoc, AtSave
<1>17. CASE Consume
  BY <1>17, Parts DEF Consume, JobDoc, AtSave
<1>18. CASE Close
  BY <1>18, Starting DEF Close
<1>19. CASE Pin
  BY <1>19, Parts DEF Pin, JobDoc, RoundPCs
<1>20. CASE AgentsDone
  BY <1>20, Parts DEF AgentsDone, JobDoc, RoundPCs
<1>21. CASE JointNotDue
  BY <1>21, Parts DEF JointNotDue, JobDoc, RoundPCs
<1>22. CASE JointAnswer
  BY <1>22, Parts DEF JointAnswer, JobDoc, RoundPCs
<1>23. CASE JointFails
  BY <1>23, Parts DEF JointFails, JobDoc, RoundPCs
<1>24. CASE JointDone
  BY <1>24, Parts DEF JointDone, JobDoc, RoundPCs
<1>25. CASE NoteReviewed
  BY <1>25, Parts DEF NoteReviewed, JobDoc, RoundPCs
<1>26. CASE Coalesce
  BY <1>26, Starting DEF Coalesce
<1>27. CASE \E d \in Domains : QueueDirective(d)
  BY <1>27, Parts DEF QueueDirective
<1>28. CASE \E w \in Works : AgentOrders(w)
  BY <1>28, Parts DEF AgentOrders
<1>29. CASE UNCHANGED vars
  BY <1>29, Parts
<1>30. CASE Age
  BY <1>30, Parts DEF Age
<1> QED
  BY <1>1, <1>2, <1>3, <1>4, <1>5, <1>6, <1>7, <1>8, <1>9, <1>10, <1>11, <1>12, <1>13,
     <1>14, <1>15, <1>16, <1>17, <1>18, <1>19, <1>20, <1>21, <1>22, <1>23, <1>24, <1>25,
     <1>26, <1>27, <1>28, <1>29, <1>30
     DEF Next, Continuation, Round

(* What a reader of the save concludes about its work is a record again.    *)
LEMMA ConcludedTyped ==
  ASSUME Base, NEW w \in Works, NEW phase \in Phases, Concluded(w, phase)
  PROVE  work' \in [Works -> WorkDoc]
<1>1. [work[w] EXCEPT !.phase = phase, !.checked = save] \in WorkDoc
  BY Parts DEF WorkDoc
<1>2. NoWork \in WorkDoc
  BY Parts DEF NoWork, WorkDoc, Phases, Known
<1> QED BY <1>1, <1>2, Parts DEF Concluded

(* Skipping boundaries that have passed always leads to a later month.      *)
LEMMA AdvancedIsLater ==
  ASSUME NEW due \in Nat, NEW by \in Nat \ {0}, NEW now \in Nat
  PROVE  Advanced(due, by, now) \in Nat /\ Advanced(due, by, now) > now
<1> DEFINE n == (now - due) \div by
<1>1. n \in Int /\ now - due < by * (n + 1)
  OBVIOUS
<1> HIDE DEF n
<1>2. by * (n + 1) \in Int
  BY <1>1
<1> QED BY <1>1, <1>2 DEF Advanced, n

(* So are the records of pending work and the attempts.                     *)
LEMMA WorkTyped ==
  ASSUME Base, [Next]_vars
  PROVE  work' \in [Works -> WorkDoc] /\ attempts' \in [Works -> Known]
<1>1. CASE Upload
  BY <1>1, Parts DEF Upload
<1>2. CASE SaveSettings
  BY <1>2, Parts DEF SaveSettings
<1>3. CASE EmergencyStop
  BY <1>3, Parts DEF EmergencyStop
<1>4. CASE ClearStop
  BY <1>4, Parts DEF ClearStop
<1>5. CASE Crash
  BY <1>5, Parts DEF Crash
<1>6. CASE StartContinuation
  BY <1>6, Parts DEF StartContinuation
<1>7. CASE StartRound
  BY <1>7, Parts DEF StartRound
<1>8. CASE StartChat
  BY <1>8, Parts DEF StartChat
<1>9. CASE Probe
  BY <1>9, Parts, FirstWork DEF Probe, MarkAttempt
<1>10. CASE ReadFleet
  <2>1. work' = work \/ work' = [work EXCEPT !["fleet"].checked = save] \/ Concluded("fleet", "none")
    BY <1>10 DEF ReadFleet, Reading
  <2> QED BY <2>1, Parts, ConcludedTyped, <1>10 DEF WorkDoc, Phases, ReadFleet, Reading
<1>11. CASE ReadArmy
  BY <1>11, Parts, ConcludedTyped DEF ReadArmy, Reading, Phases
<1>12. CASE ReadCampaign
  BY <1>12, Parts, ConcludedTyped DEF ReadCampaign, Reading, Phases
<1>13. CASE SendConfirmed
  BY <1>13, Parts DEF SendConfirmed
<1>14. CASE SendUnconfirmed
  BY <1>14, Parts DEF SendUnconfirmed, WorkDoc
<1>15. CASE Refused
  BY <1>15, Parts DEF Refused
<1>16. CASE RecordOrder
  BY <1>16, Parts DEF RecordOrder, WorkDoc, Phases
<1>17. CASE Consume
  BY <1>17, Parts DEF Consume
<1>18. CASE Close
  BY <1>18, Parts DEF Close
<1>19. CASE Pin
  BY <1>19, Parts DEF Pin
<1>20. CASE AgentsDone
  BY <1>20, Parts DEF AgentsDone
<1>21. CASE JointNotDue
  BY <1>21, Parts DEF JointNotDue
<1>22. CASE JointAnswer
  BY <1>22, Parts DEF JointAnswer
<1>23. CASE JointFails
  BY <1>23, Parts DEF JointFails
<1>24. CASE JointDone
  BY <1>24, Parts DEF JointDone
<1>25. CASE NoteReviewed
  BY <1>25, Parts DEF NoteReviewed
<1>26. CASE Coalesce
  BY <1>26, Parts DEF Coalesce
<1>27. CASE \E d \in Domains : QueueDirective(d)
  BY <1>27, Parts DEF QueueDirective
<1>28. CASE \E w \in Works : AgentOrders(w)
  BY <1>28, Parts DEF AgentOrders, WorkDoc, Phases, Known
<1>29. CASE UNCHANGED vars
  BY <1>29, Parts
<1>30. CASE Age
  BY <1>30, Parts DEF Age
<1> QED
  BY <1>1, <1>2, <1>3, <1>4, <1>5, <1>6, <1>7, <1>8, <1>9, <1>10, <1>11, <1>12, <1>13,
     <1>14, <1>15, <1>16, <1>17, <1>18, <1>19, <1>20, <1>21, <1>22, <1>23, <1>24, <1>25,
     <1>26, <1>27, <1>28, <1>29, <1>30
     DEF Next, Continuation, Round

(* Orders are counted per work and save.                                    *)
LEMMA CountsTyped ==
  ASSUME Base, [Next]_vars
  PROVE  sent' \in [Works -> [Saves -> Nat]] /\ confirmed' \in [Saves -> Nat]
<1>1. CASE Upload
  BY <1>1 DEF Upload, Base, Shape
<1>2. CASE SaveSettings
  BY <1>2 DEF SaveSettings, Base, Shape
<1>3. CASE EmergencyStop
  BY <1>3 DEF EmergencyStop, Base, Shape
<1>4. CASE ClearStop
  BY <1>4 DEF ClearStop, Base, Shape
<1>5. CASE Crash
  BY <1>5 DEF Crash, Base, Shape
<1>6. CASE StartContinuation
  BY <1>6 DEF StartContinuation, Base, Shape
<1>7. CASE StartRound
  BY <1>7 DEF StartRound, Base, Shape
<1>8. CASE StartChat
  BY <1>8 DEF StartChat, Base, Shape
<1>9. CASE Probe
  BY <1>9 DEF Probe, Base, Shape
<1>10. CASE ReadFleet
  BY <1>10 DEF ReadFleet, Base, Shape, Reading
<1>11. CASE ReadArmy
  BY <1>11 DEF ReadArmy, Base, Shape, Reading
<1>12. CASE ReadCampaign
  BY <1>12 DEF ReadCampaign, Base, Shape, Reading
<1>13. CASE SendConfirmed
  BY <1>13, Parts, Placed DEF SendConfirmed, Base, Shape, AtSave, Sending
<1>14. CASE SendUnconfirmed
  BY <1>14, Parts, Placed DEF SendUnconfirmed, Base, Shape, AtSave, Sending
<1>15. CASE Refused
  BY <1>15 DEF Refused, Base, Shape
<1>16. CASE RecordOrder
  BY <1>16 DEF RecordOrder, Base, Shape
<1>17. CASE Consume
  BY <1>17 DEF Consume, Base, Shape
<1>18. CASE Close
  BY <1>18 DEF Close, Base, Shape
<1>19. CASE Pin
  BY <1>19 DEF Pin, Base, Shape
<1>20. CASE AgentsDone
  BY <1>20 DEF AgentsDone, Base, Shape
<1>21. CASE JointNotDue
  BY <1>21 DEF JointNotDue, Base, Shape
<1>22. CASE JointAnswer
  BY <1>22 DEF JointAnswer, Base, Shape
<1>23. CASE JointFails
  BY <1>23 DEF JointFails, Base, Shape
<1>24. CASE JointDone
  BY <1>24 DEF JointDone, Base, Shape
<1>25. CASE NoteReviewed
  BY <1>25 DEF NoteReviewed, Base, Shape
<1>26. CASE Coalesce
  BY <1>26 DEF Coalesce, Base, Shape
<1>27. CASE \E d \in Domains : QueueDirective(d)
  BY <1>27 DEF QueueDirective, Base, Shape
<1>28. CASE \E w \in Works : AgentOrders(w)
  BY <1>28 DEF AgentOrders, Base, Shape
<1>29. CASE UNCHANGED vars
  BY <1>29 DEF Base, Shape
<1>30. CASE Age
  BY <1>30 DEF Age, Base, Shape
<1> QED
  BY <1>1, <1>2, <1>3, <1>4, <1>5, <1>6, <1>7, <1>8, <1>9, <1>10, <1>11, <1>12, <1>13,
     <1>14, <1>15, <1>16, <1>17, <1>18, <1>19, <1>20, <1>21, <1>22, <1>23, <1>24, <1>25,
     <1>26, <1>27, <1>28, <1>29, <1>30
     DEF Next, Continuation, Round

(* Months are natural numbers, also after due months were moved on.         *)
LEMMA TimesTyped ==
  ASSUME Base, [Next]_vars
  PROVE  /\ months' \in [Saves -> Nat \ {0}] /\ next' \in [source: Nat, due: Nat]
         /\ jointDue' \in Nat /\ owedAt' \in Nat
<1>1. CASE Upload
  BY <1>1 DEF Upload, Base, Shape
<1>2. CASE SaveSettings
  BY <1>2, Parts DEF SaveSettings, Base, Shape
<1>3. CASE EmergencyStop
  BY <1>3 DEF EmergencyStop, Base, Shape
<1>4. CASE ClearStop
  BY <1>4 DEF ClearStop, Base, Shape
<1>5. CASE Crash
  BY <1>5 DEF Crash, Base, Shape
<1>6. CASE StartContinuation
  BY <1>6 DEF StartContinuation, Base, Shape
<1>7. CASE StartRound
  BY <1>7 DEF StartRound, Base, Shape
<1>8. CASE StartChat
  BY <1>8 DEF StartChat, Base, Shape
<1>9. CASE Probe
  BY <1>9 DEF Probe, Base, Shape
<1>10. CASE ReadFleet
  BY <1>10 DEF ReadFleet, Base, Shape, Reading
<1>11. CASE ReadArmy
  BY <1>11 DEF ReadArmy, Base, Shape, Reading
<1>12. CASE ReadCampaign
  BY <1>12 DEF ReadCampaign, Base, Shape, Reading
<1>13. CASE SendConfirmed
  BY <1>13 DEF SendConfirmed, Base, Shape
<1>14. CASE SendUnconfirmed
  BY <1>14 DEF SendUnconfirmed, Base, Shape
<1>15. CASE Refused
  BY <1>15 DEF Refused, Base, Shape
<1>16. CASE RecordOrder
  BY <1>16 DEF RecordOrder, Base, Shape
<1>17. CASE Consume
  BY <1>17 DEF Consume, Base, Shape
<1>18. CASE Close
  BY <1>18 DEF Close, Base, Shape
<1>19. CASE Pin
  BY <1>19 DEF Pin, Base, Shape
<1>20. CASE AgentsDone
  BY <1>20, Parts, Placed DEF AgentsDone, Base, Shape, RoundPCs
<1>21. CASE JointNotDue
  BY <1>21, Parts, Placed DEF JointNotDue, Base, Shape, RoundPCs
<1>22. CASE JointAnswer
  BY <1>22, Placed DEF JointAnswer, Base, Shape, RoundPCs
<1>23. CASE JointFails
  BY <1>23, Placed DEF JointFails, Base, Shape, RoundPCs, RetryMonth
<1>24. CASE JointDone
  BY <1>24, Parts, Placed, AdvancedIsLater DEF JointDone, Base, Shape, RoundPCs
<1>25. CASE NoteReviewed
  BY <1>25 DEF NoteReviewed, Base, Shape
<1>26. CASE Coalesce
  BY <1>26, Parts, Placed, AdvancedIsLater DEF Coalesce, CoalescedDue, Base, Shape, RoundPCs
<1>27. CASE \E d \in Domains : QueueDirective(d)
  BY <1>27 DEF QueueDirective, Base, Shape
<1>28. CASE \E w \in Works : AgentOrders(w)
  BY <1>28 DEF AgentOrders, Base, Shape
<1>29. CASE UNCHANGED vars
  BY <1>29 DEF Base, Shape
<1>30. CASE Age
  BY <1>30 DEF Age, Base, Shape
<1> QED
  BY <1>1, <1>2, <1>3, <1>4, <1>5, <1>6, <1>7, <1>8, <1>9, <1>10, <1>11, <1>12, <1>13,
     <1>14, <1>15, <1>16, <1>17, <1>18, <1>19, <1>20, <1>21, <1>22, <1>23, <1>24, <1>25,
     <1>26, <1>27, <1>28, <1>29, <1>30
     DEF Next, Continuation, Round

(* Saves only grow, and no record names one that has not arrived.           *)
LEMMA SavesTyped ==
  ASSUME Base, [Next]_vars
  PROVE  /\ save' \in Known /\ save' \in {save, save + 1}
         /\ \A w \in Works : attempts'[w] <= save'
         /\ consumed' \in 0..save' /\ reviewed' \in 0..save' /\ floor' \in 0..save'
<1>1. CASE Upload
  BY <1>1, Parts DEF Upload, Base, Shape, Known
<1>2. CASE SaveSettings
  BY <1>2 DEF SaveSettings, Base, Shape
<1>3. CASE EmergencyStop
  BY <1>3 DEF EmergencyStop, Base, Shape
<1>4. CASE ClearStop
  BY <1>4 DEF ClearStop, Base, Shape
<1>5. CASE Crash
  BY <1>5 DEF Crash, Base, Shape
<1>6. CASE StartContinuation
  BY <1>6 DEF StartContinuation, Base, Shape
<1>7. CASE StartRound
  BY <1>7 DEF StartRound, Base, Shape
<1>8. CASE StartChat
  BY <1>8 DEF StartChat, Base, Shape
<1>9. CASE Probe
  BY <1>9 DEF Probe, Base, Shape, Known, MarkAttempt
<1>10. CASE ReadFleet
  BY <1>10 DEF ReadFleet, Base, Shape, Reading
<1>11. CASE ReadArmy
  BY <1>11 DEF ReadArmy, Base, Shape, Reading
<1>12. CASE ReadCampaign
  BY <1>12 DEF ReadCampaign, Base, Shape, Reading
<1>13. CASE SendConfirmed
  BY <1>13 DEF SendConfirmed, Base, Shape
<1>14. CASE SendUnconfirmed
  BY <1>14 DEF SendUnconfirmed, Base, Shape
<1>15. CASE Refused
  BY <1>15 DEF Refused, Base, Shape
<1>16. CASE RecordOrder
  BY <1>16 DEF RecordOrder, Base, Shape
<1>17. CASE Consume
  BY <1>17, Parts DEF Consume, Base, Shape
<1>18. CASE Close
  BY <1>18, Parts DEF Close, Base, Shape, JobShape, AtSave, Known
<1>19. CASE Pin
  BY <1>19 DEF Pin, Base, Shape
<1>20. CASE AgentsDone
  BY <1>20 DEF AgentsDone, Base, Shape
<1>21. CASE JointNotDue
  BY <1>21 DEF JointNotDue, Base, Shape
<1>22. CASE JointAnswer
  BY <1>22 DEF JointAnswer, Base, Shape
<1>23. CASE JointFails
  BY <1>23 DEF JointFails, Base, Shape
<1>24. CASE JointDone
  BY <1>24 DEF JointDone, Base, Shape
<1>25. CASE NoteReviewed
  BY <1>25, Parts, Placed DEF NoteReviewed, Base, Shape, RoundPCs
<1>26. CASE Coalesce
  BY <1>26, Parts, Placed DEF Coalesce, Base, Shape, RoundPCs
<1>27. CASE \E d \in Domains : QueueDirective(d)
  BY <1>27 DEF QueueDirective, Base, Shape
<1>28. CASE \E w \in Works : AgentOrders(w)
  BY <1>28 DEF AgentOrders, Base, Shape, Known
<1>29. CASE UNCHANGED vars
  BY <1>29 DEF Base, Shape
<1>30. CASE Age
  BY <1>30 DEF Age, Base, Shape
<1> QED
  BY <1>1, <1>2, <1>3, <1>4, <1>5, <1>6, <1>7, <1>8, <1>9, <1>10, <1>11, <1>12, <1>13,
     <1>14, <1>15, <1>16, <1>17, <1>18, <1>19, <1>20, <1>21, <1>22, <1>23, <1>24, <1>25,
     <1>26, <1>27, <1>28, <1>29, <1>30
     DEF Next, Continuation, Round

(* First picks one of the works that are due.                               *)
LEMMA FirstIsDue == ASSUME DueWorks # {} PROVE First(DueWorks) \in DueWorks
BY DEF First, DueWorks, Works

(* A probe gives the job up, or notes an attempt on the newest save.        *)
LEMMA ProbeEffect ==
  ASSUME Base, Probe
  PROVE  /\ job.pc = "probe"
         /\ \/ job' = NoJob /\ attempts' = attempts
            \/ /\ save # 0 /\ consumed # save
               /\ \E w \in Works :
                    /\ work[w].phase # "none" /\ work[w].acted # save /\ attempts[w] # save
                    /\ attempts' = [attempts EXCEPT ![w] = save]
                    /\ job' = [job EXCEPT !.pc = "read", !.work = w, !.at = save]
                    /\ job'.pc = "read" /\ job'.work = w /\ job'.at = save
                    /\ job'.kind = job.kind /\ job'.source = job.source
<1>1. CASE DueWorks = {}
  BY <1>1 DEF Probe
<1>2. CASE DueWorks # {}
  <2> DEFINE w == First(DueWorks)
  <2>1. w \in DueWorks
    BY <1>2, FirstIsDue
  <2>2. save # 0 /\ ~Consumed /\ w \in Works /\ DueWork(w)
    BY <2>1 DEF DueWorks
  <2>3. /\ attempts' = [attempts EXCEPT ![w] = save] /\ job.pc = "probe"
        /\ job' = [job EXCEPT !.pc = "read", !.work = w, !.at = save]
    BY <1>2 DEF Probe, MarkAttempt
  <2> HIDE DEF w
  <2>4. /\ work[w].phase # "none" /\ work[w].acted # save /\ attempts[w] # save
        /\ consumed # save
    BY <2>2 DEF DueWork, Untried, Pending, Waiting, Attempted, Consumed
  <2>5. /\ job'.pc = "read" /\ job'.work = w /\ job'.at = save
        /\ job'.kind = job.kind /\ job'.source = job.source
    BY <2>3, Parts DEF JobDoc
  <2> QED BY <2>2, <2>3, <2>4, <2>5
<1> QED BY <1>1, <1>2

(* An upload adds one save and touches nothing a job has noted.             *)
LEMMA UploadEffect ==
  ASSUME Base, Upload
  PROVE  /\ save' \in Saves /\ save' > save /\ save \in Nat
         /\ UNCHANGED <<sent, confirmed, attempts, work, job, consumed, struck>>
         /\ confirmed[save'] = 0 /\ \A w \in Works : sent[w][save'] = 0
         /\ crossed \subseteq crossed'
         /\ job.kind = "continuation" => save' \in crossed'
<1>1. /\ save' = save + 1 /\ save' \in Saves /\ save' > save /\ save \in Nat
  BY Parts DEF Upload, Saves, Known
<1>2. confirmed[save'] = 0 /\ \A w \in Works : sent[w][save'] = 0
  BY <1>1 DEF Base, Unsent
<1> QED BY <1>1, <1>2 DEF Upload

(* Reading a save moves its job on, gives it up, or ends the work.          *)
LEMMA ReadEffect ==
  ASSUME Base, ReadFleet \/ ReadArmy \/ ReadCampaign
  PROVE  /\ job.pc = "read"
         /\ \/ job' = NoJob
            \/ job' = [job EXCEPT !.pc = "send"] /\ job.work # "army"
         /\ \A w \in Works : w # job.work => work'[w] = work[w]
         /\ \A w \in {"fleet", "campaign"} :
              work[w].phase # "none" /\ work[w].acted = save =>
                work'[w].phase # "none" /\ work'[w].acted = save
<1>1. CASE ReadFleet
  <2>1. job.pc = "read" /\ job.work = "fleet"
    BY <1>1 DEF ReadFleet, Reading
  <2>2. \/ work["fleet"].acted # save /\ job' = NoJob /\ work' = [work EXCEPT !["fleet"] = NoWork]
        \/ work' = work /\ job' = NoJob
        \/ work' = [work EXCEPT !["fleet"].checked = save] /\ job' \in {NoJob, [job EXCEPT !.pc = "send"]}
    BY <1>1 DEF ReadFleet, Concluded, Waiting
  <2>3. "fleet" # "campaign" /\ "fleet" # "army" /\ work["fleet"] \in WorkDoc
    BY Parts
  <2> QED BY <2>1, <2>2, <2>3, Parts DEF WorkDoc
<1>2. CASE ReadArmy
  <2>1. job.pc = "read" /\ job.work = "army" /\ job' = NoJob
    BY <1>2 DEF ReadArmy, Reading, Concluded
  <2>2. PICK d : work' = [work EXCEPT !["army"] = d]
    BY <1>2 DEF ReadArmy, Concluded
  <2>3. \A w \in Works : w # "army" => work'[w] = work[w]
    BY <2>2, Parts
  <2>4. \A w \in {"fleet", "campaign"} : w \in Works /\ w # "army"
    BY Parts
  <2>5. \A w \in Works : w # job.work => work'[w] = work[w]
    BY <2>1, <2>3
  <2>6. \A w \in {"fleet", "campaign"} : work'[w] = work[w]
    BY <2>3, <2>4
  <2> QED BY <2>1, <2>5, <2>6
<1>3. CASE ReadCampaign
  <2>1. job.pc = "read" /\ job.work = "campaign"
    BY <1>3 DEF ReadCampaign, Reading
  <2>2. \/ work["campaign"].acted # save /\ job' = NoJob
           /\ \E d : work' = [work EXCEPT !["campaign"] = d]
        \/ work' = work /\ job' \in {NoJob, [job EXCEPT !.pc = "send"]}
    BY <1>3 DEF ReadCampaign, Concluded, Waiting
  <2> QED BY <2>1, <2>2, Parts
<1> QED BY <1>1, <1>2, <1>3

(* All records keep their types.                                            *)
LEMMA ShapeKept ==
  ASSUME Base, [Next]_vars
  PROVE  Shape'
<1>1. job' \in JobDoc /\ work' \in [Works -> WorkDoc] /\ attempts' \in [Works -> Known]
  BY JobTyped, WorkTyped
<1>2. sent' \in [Works -> [Saves -> Nat]] /\ confirmed' \in [Saves -> Nat]
  BY CountsTyped
<1>3. /\ months' \in [Saves -> Nat \ {0}] /\ next' \in [source: Nat, due: Nat]
      /\ jointDue' \in Nat /\ owedAt' \in Nat
  BY TimesTyped
<1>4. save' \in Known /\ consumed' \in 0..save' /\ reviewed' \in 0..save' /\ floor' \in 0..save'
  BY SavesTyped
<1>5. \A w \in Works : attempts'[w] <= save'
  BY SavesTyped
<1> QED BY <1>1, <1>2, <1>3, <1>4, <1>5 DEF Shape

(* A job is at a step of its own kind.                                      *)
LEMMA JobShapeKept ==
  ASSUME Base, [Next]_vars
  PROVE  JobShape'
<1>1. CASE Upload
  BY <1>1, Parts DEF Upload, JobShape, Base
<1>2. CASE SaveSettings
  BY <1>2 DEF SaveSettings, JobShape, Base
<1>3. CASE EmergencyStop
  BY <1>3 DEF EmergencyStop, JobShape, Base
<1>4. CASE ClearStop
  BY <1>4 DEF ClearStop, JobShape, Base
<1>5. CASE Crash
  BY <1>5, Starting DEF Crash, JobShape, AtSave, RoundPCs
<1>6. CASE StartContinuation
  <2>1. job' = [NoJob EXCEPT !.kind = "continuation", !.pc = "probe", !.source = save] /\ save # 0
    BY <1>6 DEF StartContinuation, DueWorks
  <2> QED BY <1>6, <2>1, Parts, Starting DEF JobShape, JobDoc, AtSave, RoundPCs, StartContinuation
<1>7. CASE StartRound
  BY <1>7 DEF StartRound, JobShape, AtSave, RoundPCs, DueSave
<1>8. CASE StartChat
  BY <1>8, Parts DEF StartChat, JobShape, AtSave
<1>9. CASE Probe
  <2>1. CASE job' = NoJob /\ attempts' = attempts
    BY <1>9, <2>1, ProbeEffect, Parts, Starting DEF Probe, JobShape, Base, AtSave, RoundPCs
  <2>2. CASE ~(job' = NoJob /\ attempts' = attempts)
    <3>1. PICK w \in Works :
            /\ work[w].acted # save /\ attempts[w] # save /\ work[w].phase # "none"
            /\ attempts' = [attempts EXCEPT ![w] = save]
            /\ job'.pc = "read" /\ job'.work = w /\ job'.at = save
            /\ job'.kind = job.kind /\ job'.source = job.source
      BY <1>9, <2>2, ProbeEffect
    <3>2. save # 0 /\ consumed # save /\ job.pc = "probe"
      BY <1>9, <2>2, ProbeEffect
    <3> QED BY <1>9, <3>1, <3>2, Parts DEF Probe, JobShape, Base, AtSave, RoundPCs
  <2> QED BY <2>1, <2>2
<1>10. CASE ReadFleet
  BY <1>10, Parts, Starting
     DEF ReadFleet, JobShape, Base, JobDoc, AtSave, RoundPCs, Reading, Concluded
<1>11. CASE ReadArmy
  BY <1>11, Starting DEF ReadArmy, JobShape, AtSave, RoundPCs, Concluded
<1>12. CASE ReadCampaign
  <2>1. job' = NoJob \/ job' = [job EXCEPT !.pc = "send"]
    BY <1>12 DEF ReadCampaign, Concluded
  <2>2. job.pc = "read" /\ job.work = "campaign" /\ UNCHANGED save /\ JobShape
    BY <1>12 DEF ReadCampaign, Reading, Base
  <2>3. CASE job' = NoJob
    BY <2>2, <2>3, Starting DEF JobShape, AtSave, RoundPCs
  <2>4. CASE job' = [job EXCEPT !.pc = "send"]
    BY <2>2, <2>4, Parts DEF JobShape, JobDoc, AtSave, RoundPCs
  <2> QED BY <2>1, <2>3, <2>4
<1>13. CASE SendConfirmed
  BY <1>13, Parts DEF SendConfirmed, JobShape, Base, AtSave
<1>14. CASE SendUnconfirmed
  BY <1>14, Starting DEF SendUnconfirmed, JobShape, AtSave, RoundPCs
<1>15. CASE Refused
  BY <1>15, Starting DEF Refused, JobShape, AtSave, RoundPCs
<1>16. CASE RecordOrder
  BY <1>16 DEF RecordOrder, JobShape, Base, AtSave
<1>17. CASE Consume
  BY <1>17 DEF Consume, JobShape, Base, AtSave
<1>18. CASE Close
  BY <1>18, Starting DEF Close, JobShape, AtSave, RoundPCs
<1>19. CASE Pin
  BY <1>19, Parts DEF Pin, JobShape, Base, JobDoc, AtSave
<1>20. CASE AgentsDone
  BY <1>20 DEF AgentsDone, JobShape, Base, AtSave, RoundPCs
<1>21. CASE JointNotDue
  BY <1>21 DEF JointNotDue, JobShape, Base, AtSave, RoundPCs
<1>22. CASE JointAnswer
  BY <1>22 DEF JointAnswer, JobShape, Base, AtSave, RoundPCs
<1>23. CASE JointFails
  BY <1>23 DEF JointFails, JobShape, Base, AtSave, RoundPCs
<1>24. CASE JointDone
  BY <1>24 DEF JointDone, JobShape, Base, AtSave, RoundPCs
<1>25. CASE NoteReviewed
  BY <1>25 DEF NoteReviewed, JobShape, Base, AtSave, RoundPCs
<1>26. CASE Coalesce
  BY <1>26, Starting DEF Coalesce, JobShape, AtSave, RoundPCs
<1>27. CASE \E d \in Domains : QueueDirective(d)
  BY <1>27 DEF QueueDirective, JobShape, Base
<1>28. CASE \E w \in Works : AgentOrders(w)
  BY <1>28 DEF AgentOrders, JobShape, Base
<1>29. CASE UNCHANGED vars
  BY <1>29 DEF JobShape, Base
<1>30. CASE Age
  BY <1>30 DEF Age, JobShape, Base
<1> QED
  BY <1>1, <1>2, <1>3, <1>4, <1>5, <1>6, <1>7, <1>8, <1>9, <1>10, <1>11, <1>12, <1>13,
     <1>14, <1>15, <1>16, <1>17, <1>18, <1>19, <1>20, <1>21, <1>22, <1>23, <1>24, <1>25,
     <1>26, <1>27, <1>28, <1>29, <1>30
     DEF Next, Continuation, Round

(* Nothing happens on a save before it arrives.                             *)
LEMMA UnsentKept ==
  ASSUME Base, [Next]_vars
  PROVE  Unsent'
<1>1. CASE Upload
  BY <1>1, Parts DEF Upload, Unsent, Base
<1>2. CASE SaveSettings
  BY <1>2 DEF SaveSettings, Unsent, Base
<1>3. CASE EmergencyStop
  BY <1>3 DEF EmergencyStop, Unsent, Base
<1>4. CASE ClearStop
  BY <1>4 DEF ClearStop, Unsent, Base
<1>5. CASE Crash
  BY <1>5 DEF Crash, Unsent, Base, Shape, JobShape, Known
<1>6. CASE StartContinuation
  BY <1>6 DEF StartContinuation, Unsent, Base
<1>7. CASE StartRound
  BY <1>7 DEF StartRound, Unsent, Base
<1>8. CASE StartChat
  BY <1>8 DEF StartChat, Unsent, Base
<1>9. CASE Probe
  BY <1>9 DEF Probe, Unsent, Base
<1>10. CASE ReadFleet
  BY <1>10 DEF ReadFleet, Unsent, Base, Reading
<1>11. CASE ReadArmy
  BY <1>11 DEF ReadArmy, Unsent, Base, Reading
<1>12. CASE ReadCampaign
  BY <1>12 DEF ReadCampaign, Unsent, Base, Reading
<1>13. CASE SendConfirmed
  BY <1>13, Parts DEF SendConfirmed, Unsent, Base, Sending
<1>14. CASE SendUnconfirmed
  BY <1>14, Parts DEF SendUnconfirmed, Unsent, Base, Sending
<1>15. CASE Refused
  BY <1>15 DEF Refused, Unsent, Base
<1>16. CASE RecordOrder
  BY <1>16 DEF RecordOrder, Unsent, Base
<1>17. CASE Consume
  BY <1>17 DEF Consume, Unsent, Base
<1>18. CASE Close
  BY <1>18 DEF Close, Unsent, Base
<1>19. CASE Pin
  BY <1>19 DEF Pin, Unsent, Base
<1>20. CASE AgentsDone
  BY <1>20 DEF AgentsDone, Unsent, Base
<1>21. CASE JointNotDue
  BY <1>21 DEF JointNotDue, Unsent, Base
<1>22. CASE JointAnswer
  BY <1>22 DEF JointAnswer, Unsent, Base
<1>23. CASE JointFails
  BY <1>23 DEF JointFails, Unsent, Base
<1>24. CASE JointDone
  BY <1>24 DEF JointDone, Unsent, Base
<1>25. CASE NoteReviewed
  BY <1>25 DEF NoteReviewed, Unsent, Base
<1>26. CASE Coalesce
  BY <1>26 DEF Coalesce, Unsent, Base
<1>27. CASE \E d \in Domains : QueueDirective(d)
  BY <1>27 DEF QueueDirective, Unsent, Base
<1>28. CASE \E w \in Works : AgentOrders(w)
  BY <1>28 DEF AgentOrders, Unsent, Base
<1>29. CASE UNCHANGED vars
  BY <1>29 DEF Unsent, Base
<1>30. CASE Age
  BY <1>30 DEF Age, Unsent, Base
<1> QED
  BY <1>1, <1>2, <1>3, <1>4, <1>5, <1>6, <1>7, <1>8, <1>9, <1>10, <1>11, <1>12, <1>13,
     <1>14, <1>15, <1>16, <1>17, <1>18, <1>19, <1>20, <1>21, <1>22, <1>23, <1>24, <1>25,
     <1>26, <1>27, <1>28, <1>29, <1>30
     DEF Next, Continuation, Round

(* The noted attempt stays the newest save while its continuation runs.     *)
LEMMA JobOnSaveKept ==
  ASSUME Base, JobOnSave, [Next]_vars
  PROVE  JobOnSave'
<1>1. CASE Upload
  BY <1>1, Parts DEF Upload, JobOnSave, Base, Shape, JobShape, OnSave, AtSave
<1>2. CASE SaveSettings
  BY <1>2 DEF SaveSettings, JobOnSave
<1>3. CASE EmergencyStop
  BY <1>3 DEF EmergencyStop, JobOnSave
<1>4. CASE ClearStop
  BY <1>4 DEF ClearStop, JobOnSave
<1>5. CASE Crash
  BY <1>5, Starting DEF Crash, JobOnSave, OnSave
<1>6. CASE StartContinuation
  BY <1>6 DEF StartContinuation, JobOnSave, OnSave
<1>7. CASE StartRound
  BY <1>7 DEF StartRound, JobOnSave, OnSave
<1>8. CASE StartChat
  BY <1>8 DEF StartChat, JobOnSave, OnSave
<1>9. CASE Probe
  <2>1. CASE job' = NoJob /\ attempts' = attempts
    BY <1>9, <2>1, ProbeEffect, Parts, Starting DEF Probe, JobOnSave, OnSave
  <2>2. CASE ~(job' = NoJob /\ attempts' = attempts)
    <3>1. PICK w \in Works :
            /\ work[w].acted # save /\ attempts[w] # save /\ work[w].phase # "none"
            /\ attempts' = [attempts EXCEPT ![w] = save]
            /\ job'.pc = "read" /\ job'.work = w /\ job'.at = save
            /\ job'.kind = job.kind /\ job'.source = job.source
      BY <1>9, <2>2, ProbeEffect
    <3>2. save # 0 /\ consumed # save /\ job.pc = "probe"
      BY <1>9, <2>2, ProbeEffect
    <3> QED BY <1>9, <3>1, <3>2, Parts DEF Probe, JobOnSave, OnSave
  <2> QED BY <2>1, <2>2
<1>10. CASE ReadFleet
  BY <1>10, Starting
     DEF ReadFleet, JobOnSave, Base, Shape, OnSave, JobDoc, Reading, Concluded
<1>11. CASE ReadArmy
  BY <1>11, Starting DEF ReadArmy, JobOnSave, OnSave, Concluded
<1>12. CASE ReadCampaign
  BY <1>12, Starting
     DEF ReadCampaign, JobOnSave, Base, Shape, OnSave, JobDoc, Reading, Concluded
<1>13. CASE SendConfirmed
  BY <1>13 DEF SendConfirmed, JobOnSave, OnSave
<1>14. CASE SendUnconfirmed
  BY <1>14, Starting DEF SendUnconfirmed, JobOnSave, OnSave
<1>15. CASE Refused
  BY <1>15, Starting DEF Refused, JobOnSave, OnSave
<1>16. CASE RecordOrder
  BY <1>16 DEF RecordOrder, JobOnSave, OnSave
<1>17. CASE Consume
  BY <1>17 DEF Consume, JobOnSave, OnSave
<1>18. CASE Close
  BY <1>18, Starting DEF Close, JobOnSave, OnSave
<1>19. CASE Pin
  BY <1>19 DEF Pin, JobOnSave, OnSave
<1>20. CASE AgentsDone
  BY <1>20 DEF AgentsDone, JobOnSave, OnSave
<1>21. CASE JointNotDue
  BY <1>21 DEF JointNotDue, JobOnSave, OnSave
<1>22. CASE JointAnswer
  BY <1>22 DEF JointAnswer, JobOnSave, OnSave
<1>23. CASE JointFails
  BY <1>23 DEF JointFails, JobOnSave, OnSave
<1>24. CASE JointDone
  BY <1>24 DEF JointDone, JobOnSave, OnSave
<1>25. CASE NoteReviewed
  BY <1>25 DEF NoteReviewed, JobOnSave, OnSave
<1>26. CASE Coalesce
  BY <1>26, Starting DEF Coalesce, JobOnSave, OnSave
<1>27. CASE \E d \in Domains : QueueDirective(d)
  BY <1>27 DEF QueueDirective, JobOnSave
<1>28. CASE \E w \in Works : AgentOrders(w)
  BY <1>28 DEF AgentOrders, JobOnSave, OnSave
<1>29. CASE UNCHANGED vars
  BY <1>29 DEF JobOnSave
<1>30. CASE Age
  BY <1>30 DEF Age, JobOnSave
<1> QED
  BY <1>1, <1>2, <1>3, <1>4, <1>5, <1>6, <1>7, <1>8, <1>9, <1>10, <1>11, <1>12, <1>13,
     <1>14, <1>15, <1>16, <1>17, <1>18, <1>19, <1>20, <1>21, <1>22, <1>23, <1>24, <1>25,
     <1>26, <1>27, <1>28, <1>29, <1>30
     DEF Next, Continuation, Round

(* No second attempt on a save.                                             *)
LEMMA TriedKept ==
  ASSUME Base, JobOnSave, Tried, [Next]_vars
  PROVE  Tried'
<1>1. CASE Upload
  BY <1>1, UploadEffect, Parts DEF Tried, JobDoc, Base, JobShape, AtSave
<1>2. CASE SaveSettings
  BY <1>2 DEF SaveSettings, Tried
<1>3. CASE EmergencyStop
  BY <1>3 DEF EmergencyStop, Tried
<1>4. CASE ClearStop
  BY <1>4 DEF ClearStop, Tried
<1>5. CASE Crash
  BY <1>5, Starting DEF Crash, Tried
<1>6. CASE StartContinuation
  BY <1>6 DEF StartContinuation, Tried
<1>7. CASE StartRound
  BY <1>7 DEF StartRound, Tried
<1>8. CASE StartChat
  BY <1>8 DEF StartChat, Tried
<1>9. CASE Probe
  <2>1. CASE job' = NoJob /\ attempts' = attempts
    BY <1>9, <2>1, ProbeEffect, Parts, Starting DEF Probe, Tried
  <2>2. CASE ~(job' = NoJob /\ attempts' = attempts)
    <3>1. PICK w \in Works :
            /\ work[w].acted # save /\ attempts[w] # save /\ work[w].phase # "none"
            /\ attempts' = [attempts EXCEPT ![w] = save]
            /\ job'.pc = "read" /\ job'.work = w /\ job'.at = save
            /\ job'.kind = job.kind /\ job'.source = job.source
      BY <1>9, <2>2, ProbeEffect
    <3>2. save # 0 /\ consumed # save /\ job.pc = "probe"
      BY <1>9, <2>2, ProbeEffect
    <3> QED BY <1>9, <3>1, <3>2, Parts DEF Probe, Tried
  <2> QED BY <2>1, <2>2
<1>10. CASE ReadFleet
  BY <1>10, ReadEffect, Parts, Placed, Starting
     DEF ReadFleet, Reading, Tried, JobOnSave, OnSave, JobDoc
<1>11. CASE ReadArmy
  BY <1>11, ReadEffect, Parts, Placed, Starting
     DEF ReadArmy, Reading, Tried, JobOnSave, OnSave, JobDoc
<1>12. CASE ReadCampaign
  BY <1>12, ReadEffect, Parts, Placed, Starting
     DEF ReadCampaign, Reading, Tried, JobOnSave, OnSave, JobDoc
<1>13. CASE SendConfirmed
  BY <1>13 DEF SendConfirmed, Tried, JobOnSave, Base, Shape, OnSave, Sending
<1>14. CASE SendUnconfirmed
  <2>1. /\ job.pc = "send" /\ job' = NoJob /\ UNCHANGED <<save, crossed, attempts>>
        /\ sent' = [sent EXCEPT ![job.work][save] = @ + 1]
        /\ work' = work \/ work' = [work EXCEPT !["fleet"].acted = save]
    BY <1>14 DEF SendUnconfirmed, Sending
  <2>2. save \in Saves /\ sent \in [Works -> [Saves -> Nat]]
    BY <2>1, Placed DEF AtSave, Base, Shape
  <2>3. save \notin crossed => sent[job.work][save] = 0 /\ attempts[job.work] = save
    BY <2>1, <2>2, Parts DEF Tried, JobOnSave, OnSave
  <2>4. \A w \in Works, s \in Saves \ crossed' : sent'[w][s] <= 1
    BY <2>1, <2>2, <2>3, Parts DEF Tried
  <2>5. ASSUME save \notin crossed, NEW w \in Works, sent'[w][save] # 0
        PROVE  attempts[w] = save \/ work'[w].phase = "none" \/ work'[w].acted = save
    <3>1. CASE w = job.work
      BY <3>1, <2>3, <2>5
    <3>2. CASE w # job.work
      <4>1. attempts[w] = save \/ work[w].phase = "none" \/ work[w].acted = save
        BY <3>2, <2>1, <2>2, <2>5, Parts DEF Tried
      <4> QED BY <4>1, <2>1, Parts DEF WorkDoc
    <3> QED BY <3>1, <3>2
  <2> QED BY <2>1, <2>4, <2>5, Starting DEF Tried
<1>15. CASE Refused
  BY <1>15, Starting DEF Refused, Tried
<1>16. CASE RecordOrder
  BY <1>16 DEF RecordOrder, Tried, JobOnSave, Base, Shape, OnSave
<1>17. CASE Consume
  BY <1>17 DEF Consume, Tried
<1>18. CASE Close
  BY <1>18, Starting DEF Close, Tried
<1>19. CASE Pin
  BY <1>19 DEF Pin, Tried
<1>20. CASE AgentsDone
  BY <1>20 DEF AgentsDone, Tried
<1>21. CASE JointNotDue
  BY <1>21 DEF JointNotDue, Tried
<1>22. CASE JointAnswer
  BY <1>22 DEF JointAnswer, Tried
<1>23. CASE JointFails
  BY <1>23 DEF JointFails, Tried
<1>24. CASE JointDone
  BY <1>24 DEF JointDone, Tried
<1>25. CASE NoteReviewed
  BY <1>25 DEF NoteReviewed, Tried
<1>26. CASE Coalesce
  BY <1>26, Starting DEF Coalesce, Tried
<1>27. CASE \E d \in Domains : QueueDirective(d)
  BY <1>27 DEF QueueDirective, Tried
<1>28. CASE \E w \in Works : AgentOrders(w)
  BY <1>28 DEF AgentOrders, Tried, Base, Shape
<1>29. CASE UNCHANGED vars
  BY <1>29 DEF Tried
<1>30. CASE Age
  BY <1>30 DEF Age, Tried
<1> QED
  BY <1>1, <1>2, <1>3, <1>4, <1>5, <1>6, <1>7, <1>8, <1>9, <1>10, <1>11, <1>12, <1>13,
     <1>14, <1>15, <1>16, <1>17, <1>18, <1>19, <1>20, <1>21, <1>22, <1>23, <1>24, <1>25,
     <1>26, <1>27, <1>28, <1>29, <1>30
     DEF Next, Continuation, Round

(* No second confirmed order on a save.                                     *)
LEMMA OrderedKept ==
  ASSUME Base, JobOnSave, Ordered, [Next]_vars
  PROVE  Ordered'
<1>1. CASE Upload
  BY <1>1, UploadEffect, Parts DEF Ordered, JobDoc, Base, JobShape, AtSave
<1>2. CASE SaveSettings
  BY <1>2 DEF SaveSettings, Ordered
<1>3. CASE EmergencyStop
  BY <1>3 DEF EmergencyStop, Ordered
<1>4. CASE ClearStop
  BY <1>4 DEF ClearStop, Ordered
<1>5. CASE Crash
  BY <1>5, Starting DEF Crash, Ordered, JobOnSave, Base, JobShape, OnSave, AtSave
<1>6. CASE StartContinuation
  BY <1>6 DEF StartContinuation, Ordered, Base, JobShape
<1>7. CASE StartRound
  BY <1>7 DEF StartRound, Ordered, Base, JobShape
<1>8. CASE StartChat
  BY <1>8 DEF StartChat, Ordered, Base, JobShape
<1>9. CASE Probe
  BY <1>9, ProbeEffect, Parts, Placed, Starting DEF Probe, Ordered, JobDoc
<1>10. CASE ReadFleet
  BY <1>10, ReadEffect, Parts, Placed, Starting
     DEF ReadFleet, Reading, Ordered, OnSave, JobDoc
<1>11. CASE ReadArmy
  BY <1>11, ReadEffect, Parts, Placed, Starting
     DEF ReadArmy, Reading, Ordered, OnSave, JobDoc
<1>12. CASE ReadCampaign
  BY <1>12, ReadEffect, Parts, Placed, Starting
     DEF ReadCampaign, Reading, Ordered, OnSave, JobDoc
<1>13. CASE SendConfirmed
  BY <1>13 DEF SendConfirmed, Ordered, JobOnSave, Base, Shape, OnSave
<1>14. CASE SendUnconfirmed
  BY <1>14 DEF SendUnconfirmed, Ordered
<1>15. CASE Refused
  BY <1>15 DEF Refused, Ordered
<1>16. CASE RecordOrder
  BY <1>16 DEF RecordOrder, Ordered
<1>17. CASE Consume
  BY <1>17 DEF Consume, Ordered, JobOnSave, OnSave
<1>18. CASE Close
  BY <1>18, Starting DEF Close, Ordered
<1>19. CASE Pin
  BY <1>19 DEF Pin, Ordered
<1>20. CASE AgentsDone
  BY <1>20 DEF AgentsDone, Ordered
<1>21. CASE JointNotDue
  BY <1>21 DEF JointNotDue, Ordered
<1>22. CASE JointAnswer
  BY <1>22 DEF JointAnswer, Ordered
<1>23. CASE JointFails
  BY <1>23 DEF JointFails, Ordered
<1>24. CASE JointDone
  BY <1>24 DEF JointDone, Ordered
<1>25. CASE NoteReviewed
  BY <1>25 DEF NoteReviewed, Ordered
<1>26. CASE Coalesce
  BY <1>26, Starting DEF Coalesce, Ordered
<1>27. CASE \E d \in Domains : QueueDirective(d)
  BY <1>27 DEF QueueDirective, Ordered
<1>28. CASE \E w \in Works : AgentOrders(w)
  BY <1>28 DEF AgentOrders, Ordered
<1>29. CASE UNCHANGED vars
  BY <1>29 DEF Ordered
<1>30. CASE Age
  BY <1>30 DEF Age, Ordered
<1> QED
  BY <1>1, <1>2, <1>3, <1>4, <1>5, <1>6, <1>7, <1>8, <1>9, <1>10, <1>11, <1>12, <1>13,
     <1>14, <1>15, <1>16, <1>17, <1>18, <1>19, <1>20, <1>21, <1>22, <1>23, <1>24, <1>25,
     <1>26, <1>27, <1>28, <1>29, <1>30
     DEF Next, Continuation, Round

(* An order newer than the newest save keeps holding rounds back.           *)
LEMMA HeldKept ==
  ASSUME Base, JobOnSave, Held, [Next]_vars
  PROVE  Held'
<1>1. CASE Upload
  <2>1. job.pc = "record" => job.at < save'
    BY <1>1, UploadEffect, Placed, Parts DEF AtSave
  <2> QED BY <1>1, <2>1, UploadEffect, Parts DEF Held
<1>2. CASE SaveSettings
  BY <1>2 DEF SaveSettings, Held
<1>3. CASE EmergencyStop
  BY <1>3 DEF EmergencyStop, Held
<1>4. CASE ClearStop
  BY <1>4 DEF ClearStop, Held
<1>5. CASE Crash
  BY <1>5, Starting DEF Crash, Held, Base, Shape, JobShape, JobDoc
<1>6. CASE StartContinuation
  BY <1>6 DEF StartContinuation, Held, Base, JobShape
<1>7. CASE StartRound
  <2>1. /\ job.kind = "none" /\ ~Blocked /\ job'.kind = "round" /\ job'.pc = "pin" /\ save # 0
    BY <1>7, Starting DEF StartRound, DueSave, JobDoc
  <2>2. consumed # save /\ \A w \in {"fleet", "campaign"} : ~(work[w].phase # "none" /\ work[w].acted = save)
    BY <2>1, Parts DEF Blocked, Consumed, Blocks, Pending, Waiting
  <2>3. job.pc # "record" /\ UNCHANGED <<save, confirmed, struck, consumed, work>>
    BY <1>7, <2>1 DEF StartRound, Base, JobShape
  <2> QED BY <2>1, <2>2, <2>3 DEF Held
<1>8. CASE StartChat
  BY <1>8 DEF StartChat, Held, Base, JobShape
<1>9. CASE Probe
  BY <1>9, ProbeEffect, Parts, Placed, Starting
     DEF Probe, Held, Base, JobShape, AtSave, JobDoc
<1>10. CASE ReadFleet
  BY <1>10, ReadEffect, Parts, Placed, Starting
     DEF ReadFleet, Reading, Held, Base, JobShape, AtSave, JobDoc
<1>11. CASE ReadArmy
  BY <1>11, ReadEffect, Parts, Placed, Starting
     DEF ReadArmy, Reading, Held, Base, JobShape, AtSave, JobDoc
<1>12. CASE ReadCampaign
  BY <1>12, ReadEffect, Parts, Placed, Starting
     DEF ReadCampaign, Reading, Held, Base, JobShape, AtSave, JobDoc
<1>13. CASE SendConfirmed
  BY <1>13 DEF SendConfirmed, Held, Base, JobShape, AtSave
<1>14. CASE SendUnconfirmed
  <2>1. /\ job.pc = "send" /\ job' = NoJob /\ UNCHANGED <<save, confirmed, struck, consumed>>
        /\ work' = work \/ work' = [work EXCEPT !["fleet"].acted = save]
    BY <1>14 DEF SendUnconfirmed
  <2>2. \A w \in {"fleet", "campaign"} : work[w].phase # "none" /\ work[w].acted = save
                                       => work'[w].phase # "none" /\ work'[w].acted = save
    BY <2>1, Parts DEF WorkDoc
  <2> QED BY <2>1, <2>2, Starting DEF Held
<1>15. CASE Refused
  BY <1>15, Starting DEF Refused, Held
<1>16. CASE RecordOrder
  <2>1. /\ job.pc = "record" /\ job' = [job EXCEPT !.pc = "consume"]
        /\ UNCHANGED <<save, confirmed, struck, consumed>>
        /\ job.work \in {"fleet", "campaign"}
    BY <1>16, Parts DEF RecordOrder, Base, JobShape, Works
  <2>2. PICK phase \in {"template", "fleet", "waiting"} :
          work' = [work EXCEPT ![job.work].phase = phase, ![job.work].acted = job.at]
    BY <1>16 DEF RecordOrder
  <2>3. work'[job.work].phase # "none" /\ work'[job.work].acted = job.at
    BY <2>2, Parts DEF WorkDoc
  <2>4. job'.pc = "consume" /\ job'.kind = "continuation"
    BY <2>1, Parts DEF JobDoc, Base, JobShape, AtSave
  <2> QED BY <2>1, <2>3, <2>4 DEF Held
<1>17. CASE Consume
  BY <1>17 DEF Consume, Held, JobOnSave, OnSave
<1>18. CASE Close
  BY <1>18, Starting DEF Close, Held
<1>19. CASE Pin
  BY <1>19 DEF Pin, Held
<1>20. CASE AgentsDone
  BY <1>20 DEF AgentsDone, Held
<1>21. CASE JointNotDue
  BY <1>21 DEF JointNotDue, Held
<1>22. CASE JointAnswer
  BY <1>22 DEF JointAnswer, Held
<1>23. CASE JointFails
  BY <1>23 DEF JointFails, Held
<1>24. CASE JointDone
  BY <1>24 DEF JointDone, Held
<1>25. CASE NoteReviewed
  BY <1>25 DEF NoteReviewed, Held
<1>26. CASE Coalesce
  BY <1>26, Starting DEF Coalesce, Held
<1>27. CASE \E d \in Domains : QueueDirective(d)
  BY <1>27 DEF QueueDirective, Held
<1>28. CASE \E w \in Works : AgentOrders(w)
  BY <1>28 DEF AgentOrders, Held
<1>29. CASE UNCHANGED vars
  BY <1>29 DEF Held
<1>30. CASE Age
  BY <1>30 DEF Age, Held
<1> QED
  BY <1>1, <1>2, <1>3, <1>4, <1>5, <1>6, <1>7, <1>8, <1>9, <1>10, <1>11, <1>12, <1>13,
     <1>14, <1>15, <1>16, <1>17, <1>18, <1>19, <1>20, <1>21, <1>22, <1>23, <1>24, <1>25,
     <1>26, <1>27, <1>28, <1>29, <1>30
     DEF Next, Continuation, Round

(* The save a round was done with is not due again.                         *)
LEMMA MovedKept ==
  ASSUME Base, Moved, [Next]_vars
  PROVE  Moved'
<1>1. CASE Upload
  BY <1>1, Parts DEF Upload, Moved, Base, Shape
<1>2. CASE SaveSettings
  BY <1>2 DEF SaveSettings, Moved, Base, JobShape, RoundPCs
<1>3. CASE EmergencyStop
  BY <1>3 DEF EmergencyStop, Moved
<1>4. CASE ClearStop
  BY <1>4 DEF ClearStop, Moved
<1>5. CASE Crash
  BY <1>5, Starting DEF Crash, Moved, RoundPCs
<1>6. CASE StartContinuation
  BY <1>6 DEF StartContinuation, Moved, Base, Shape, RoundPCs
<1>7. CASE StartRound
  <2>1. /\ job'.kind = "round" /\ job'.pc = "pin" /\ save # 0 /\ reviewed # save
        /\ months[save] >= next.due /\ UNCHANGED <<save, floor, reviewed, next, months>>
    BY <1>7, Starting DEF StartRound, DueSave, JobDoc
  <2>2. save \in Saves /\ floor \in 0..save
    BY <2>1, Parts DEF Base, Shape
  <2>3. floor # save
    BY <2>1, <2>2, Parts DEF Moved
  <2> QED BY <2>1, <2>2, <2>3, Parts DEF Moved, RoundPCs
<1>8. CASE StartChat
  BY <1>8 DEF StartChat, Moved, Base, Shape
<1>9. CASE Probe
  BY <1>9, ProbeEffect, Parts, Placed, Starting
     DEF Probe, Moved, Base, JobShape, AtSave, RoundPCs, JobDoc
<1>10. CASE ReadFleet
  BY <1>10, ReadEffect, Parts, Placed, Starting
     DEF ReadFleet, Reading, Moved, Base, JobShape, AtSave, RoundPCs, JobDoc
<1>11. CASE ReadArmy
  BY <1>11, ReadEffect, Parts, Placed, Starting
     DEF ReadArmy, Reading, Moved, Base, JobShape, AtSave, RoundPCs, JobDoc
<1>12. CASE ReadCampaign
  BY <1>12, ReadEffect, Parts, Placed, Starting
     DEF ReadCampaign, Reading, Moved, Base, JobShape, AtSave, RoundPCs, JobDoc
<1>13. CASE SendConfirmed
  BY <1>13 DEF SendConfirmed, Moved, RoundPCs
<1>14. CASE SendUnconfirmed
  BY <1>14, Starting DEF SendUnconfirmed, Moved, RoundPCs
<1>15. CASE Refused
  BY <1>15, Starting DEF Refused, Moved, RoundPCs
<1>16. CASE RecordOrder
  BY <1>16 DEF RecordOrder, Moved, RoundPCs
<1>17. CASE Consume
  BY <1>17 DEF Consume, Moved, RoundPCs
<1>18. CASE Close
  <2>1. /\ job.kind = "continuation" /\ job.source \in 1..save /\ job' = NoJob
        /\ reviewed' = job.source /\ UNCHANGED <<save, floor, next, months>>
    BY <1>18 DEF Close, Base, JobShape, AtSave
  <2>2. floor \in 0..save /\ save \in Nat /\ floor <= job.source
    BY <2>1, Parts DEF Base, Shape, Moved
  <2> QED BY <2>1, <2>2, Starting DEF Moved, RoundPCs
<1>19. CASE Pin
  BY <1>19 DEF Pin, Moved, Base, Shape
<1>20. CASE AgentsDone
  <2>1. /\ job.pc = "agents" /\ job'.pc \in {"joint", "coalesce"} /\ job'.at = job.at
        /\ job'.kind = job.kind /\ job.kind \in {"round", "chat"}
        /\ job'.pc = "coalesce" => job.kind = "chat"
        /\ UNCHANGED <<save, floor, reviewed, months>>
    BY <1>20, Parts DEF AgentsDone, JobDoc, Base, JobShape, AtSave
  <2>2. save \in Saves /\ job.at \in Saves /\ job.at <= save /\ floor <= job.at /\ floor \in 0..save
    BY <2>1, Placed DEF RoundPCs, Moved, Base, Shape
  <2>3. next' = next \/ next'.due = months[job.at] + Interval
    BY <1>20 DEF AgentsDone
  <2>4. floor = save => job.at = save
    BY <2>2, Parts DEF Known
  <2>5. next'.due # next.due => next'.due > months[job.at]
    BY <2>2, <2>3, Parts
  <2>6. save # 0 /\ floor = save => reviewed = save \/ months[save] < next'.due
    BY <2>2, <2>4, <2>5, Parts DEF Moved
  <2> QED BY <2>1, <2>2, <2>6 DEF Moved, RoundPCs
<1>21. CASE JointNotDue
  BY <1>21 DEF JointNotDue, Moved, RoundPCs
<1>22. CASE JointAnswer
  BY <1>22 DEF JointAnswer, Moved, RoundPCs
<1>23. CASE JointFails
  BY <1>23 DEF JointFails, Moved, RoundPCs
<1>24. CASE JointDone
  BY <1>24 DEF JointDone, Moved, RoundPCs
<1>25. CASE NoteReviewed
  <2>1. /\ job.pc = "reviewed" /\ job'.pc = "coalesce" /\ job'.at = job.at /\ job.kind = "round"
        /\ job'.kind = job.kind /\ reviewed' = job.at /\ UNCHANGED <<save, floor, months, next>>
    BY <1>25, Parts DEF NoteReviewed, JobDoc, Base, JobShape, AtSave
  <2>2. save \in Nat /\ job.at \in Nat /\ job.at <= save /\ floor <= job.at /\ floor \in 0..save
    BY <2>1, Placed, Parts DEF RoundPCs, Moved, Base, Shape
  <2> QED BY <2>1, <2>2 DEF Moved, RoundPCs
<1>26. CASE Coalesce
  <2>1. /\ job.pc = "coalesce" /\ job' = NoJob /\ UNCHANGED <<save, reviewed, months>>
        /\ next' = [next EXCEPT !.due = CoalescedDue]
        /\ floor' = IF job.recorded THEN save ELSE IF job.kind = "round" THEN job.at ELSE floor
    BY <1>26 DEF Coalesce
  <2>2. save \in Saves /\ job.at \in Saves
    BY <2>1, Placed DEF RoundPCs
  <2>3. next'.due = CoalescedDue
    BY <2>1, Parts
  <2>4. CASE job.recorded
    <3>a. next.due \in Nat /\ Interval \in Nat \ {0} /\ months[save] \in Nat
      BY <2>2, Parts
    <3>1. CoalescedDue > months[save]
      <4>1. CASE next.due <= months[save]
        <5>1. CoalescedDue = Advanced(next.due, Interval, months[save])
          BY <2>4, <4>1 DEF CoalescedDue
        <5> QED BY <3>a, <5>1, AdvancedIsLater
      <4>2. CASE ~(next.due <= months[save])
        BY <2>4, <3>a, <4>2 DEF CoalescedDue
      <4> QED BY <4>1, <4>2
    <3> QED BY <2>1, <2>2, <2>3, <3>1, Parts, Starting DEF Moved, RoundPCs
  <2>5. CASE ~job.recorded
    <3>1. CoalescedDue = next.due
      BY <2>5 DEF CoalescedDue
    <3> QED BY <2>1, <2>3, <2>5, <3>1, Starting DEF Moved, RoundPCs
  <2> QED BY <2>4, <2>5
<1>27. CASE \E d \in Domains : QueueDirective(d)
  BY <1>27 DEF QueueDirective, Moved
<1>28. CASE \E w \in Works : AgentOrders(w)
  BY <1>28 DEF AgentOrders, Moved
<1>29. CASE UNCHANGED vars
  BY <1>29 DEF Moved
<1>30. CASE Age
  BY <1>30 DEF Age, Moved
<1> QED
  BY <1>1, <1>2, <1>3, <1>4, <1>5, <1>6, <1>7, <1>8, <1>9, <1>10, <1>11, <1>12, <1>13,
     <1>14, <1>15, <1>16, <1>17, <1>18, <1>19, <1>20, <1>21, <1>22, <1>23, <1>24, <1>25,
     <1>26, <1>27, <1>28, <1>29, <1>30
     DEF Next, Continuation, Round

(* Owed directives stay due.                                                *)
LEMMA OwedKept ==
  ASSUME Base, Owed, [Next]_vars
  PROVE  Owed'
<1>1. CASE Upload
  BY <1>1 DEF Upload, Owed, OwedIsDue
<1>2. CASE SaveSettings
  BY <1>2 DEF SaveSettings, Owed, OwedIsDue
<1>3. CASE EmergencyStop
  BY <1>3 DEF EmergencyStop, Owed, OwedIsDue
<1>4. CASE ClearStop
  BY <1>4 DEF ClearStop, Owed, OwedIsDue
<1>5. CASE Crash
  <2>1. job' = NoJob /\ UNCHANGED <<owed, jointDue, owedAt>>
    BY <1>5 DEF Crash
  <2>2. job.pc = "queue" => jointDue <= owedAt + 1
    BY Parts DEF Owed, Base, Shape
  <2> QED BY <2>1, <2>2, Starting DEF Owed, OwedIsDue
<1>6. CASE StartContinuation
  BY <1>6 DEF StartContinuation, Owed, OwedIsDue, Base, JobShape
<1>7. CASE StartRound
  BY <1>7 DEF StartRound, Owed, OwedIsDue, Base, JobShape
<1>8. CASE StartChat
  BY <1>8 DEF StartChat, Owed, OwedIsDue, Base, JobShape
<1>9. CASE Probe
  BY <1>9, ProbeEffect, Parts, Placed, Starting DEF Probe, Owed, OwedIsDue, JobDoc
<1>10. CASE ReadFleet
  BY <1>10, ReadEffect, Parts, Placed, Starting
     DEF ReadFleet, Reading, Owed, OwedIsDue, JobDoc
<1>11. CASE ReadArmy
  BY <1>11, ReadEffect, Parts, Placed, Starting
     DEF ReadArmy, Reading, Owed, OwedIsDue, JobDoc
<1>12. CASE ReadCampaign
  BY <1>12, ReadEffect, Parts, Placed, Starting
     DEF ReadCampaign, Reading, Owed, OwedIsDue, JobDoc
<1>13. CASE SendConfirmed
  BY <1>13 DEF SendConfirmed, Owed, OwedIsDue
<1>14. CASE SendUnconfirmed
  BY <1>14, Starting DEF SendUnconfirmed, Owed, OwedIsDue
<1>15. CASE Refused
  BY <1>15, Starting DEF Refused, Owed, OwedIsDue
<1>16. CASE RecordOrder
  BY <1>16 DEF RecordOrder, Owed, OwedIsDue
<1>17. CASE Consume
  BY <1>17 DEF Consume, Owed, OwedIsDue
<1>18. CASE Close
  BY <1>18, Starting DEF Close, Owed, OwedIsDue
<1>19. CASE Pin
  BY <1>19 DEF Pin, Owed, OwedIsDue
<1>20. CASE AgentsDone
  BY <1>20 DEF AgentsDone, Owed, OwedIsDue
<1>21. CASE JointNotDue
  BY <1>21 DEF JointNotDue, Owed, OwedIsDue
<1>22. CASE JointAnswer
  BY <1>22 DEF JointAnswer, Owed, OwedIsDue
<1>23. CASE JointFails
  BY <1>23, Placed DEF JointFails, Owed, OwedIsDue, Base, Shape, RoundPCs, RetryMonth
<1>24. CASE JointDone
  BY <1>24, AdvancedIsLater, Parts, Placed, Starting
     DEF JointDone, Owed, OwedIsDue, RoundPCs, Base, Shape, JobDoc
<1>25. CASE NoteReviewed
  BY <1>25 DEF NoteReviewed, Owed, OwedIsDue
<1>26. CASE Coalesce
  BY <1>26, Starting DEF Coalesce, Owed, OwedIsDue
<1>27. CASE \E d \in Domains : QueueDirective(d)
  BY <1>27 DEF QueueDirective, Owed, OwedIsDue
<1>28. CASE \E w \in Works : AgentOrders(w)
  BY <1>28 DEF AgentOrders, Owed, OwedIsDue
<1>29. CASE UNCHANGED vars
  BY <1>29 DEF Owed, OwedIsDue
<1>30. CASE Age
  BY <1>30 DEF Age, Owed, OwedIsDue
<1> QED
  BY <1>1, <1>2, <1>3, <1>4, <1>5, <1>6, <1>7, <1>8, <1>9, <1>10, <1>11, <1>12, <1>13,
     <1>14, <1>15, <1>16, <1>17, <1>18, <1>19, <1>20, <1>21, <1>22, <1>23, <1>24, <1>25,
     <1>26, <1>27, <1>28, <1>29, <1>30
     DEF Next, Continuation, Round

-----------------------------------------------------------------------------
(* The theorems.                                                            *)

IInv == Base /\ JobOnSave /\ Tried /\ Ordered /\ Held /\ Moved /\ Owed

(* The parts are inductive together.                                        *)
LEMMA IInvInductive == Spec => []IInv
<1>1. Init => IInv
  BY InitHolds DEF IInv
<1>2. IInv /\ [Next]_vars => IInv'
  <2> SUFFICES ASSUME IInv, [Next]_vars PROVE IInv'
    OBVIOUS
  <2>1. Base'
    BY ShapeKept, JobShapeKept, UnsentKept DEF IInv, Base
  <2>2. JobOnSave' /\ Tried' /\ Ordered'
    BY JobOnSaveKept, TriedKept, OrderedKept DEF IInv
  <2>3. Held' /\ Moved' /\ Owed'
    BY HeldKept, MovedKept, OwedKept DEF IInv
  <2> QED BY <2>1, <2>2, <2>3 DEF IInv
<1> QED BY <1>1, <1>2, PTL DEF Spec

(* A save leads to at most one confirmed continuation, however many saves   *)
(* and pieces of work there are (run_save_continuations); OneOrderPerSave   *)
(* leaves out saves that came meanwhile and those a crash struck.           *)
THEOREM AtMostOneOrderPerSave == Spec => []OneOrderPerSave
<1>1. IInv => OneOrderPerSave
  BY DEF IInv, Ordered, OneOrderPerSave
<1> QED BY <1>1, IInvInductive, PTL

(* Work is tried once on a save, also over a crash between its order and    *)
(* the record of it, because the attempt is noted before.                   *)
THEOREM WorkTriedOncePerSave == Spec => []TriedOncePerSave
<1>1. IInv => TriedOncePerSave
  BY DEF IInv, Tried, TriedOncePerSave
<1> QED BY <1>1, IInvInductive, PTL

(* While directives of a joint review are owed, the review is being queued  *)
(* or is due again within a month (run_if_due).                             *)
THEOREM OwedDirectivesAreDue == Spec => []OwedIsDue
<1>1. IInv => OwedIsDue
  BY DEF IInv, Owed
<1> QED BY <1>1, IInvInductive, PTL

(* A round is pinned to a save only when that shows every confirmed order   *)
(* of a continuation, but for a crash (probe_save_continuations, Blocked).  *)
THEOREM RoundsKnowTheOrders == Spec => RoundsSeeOrders
<1>1. IInv /\ [Next]_vars =>
        (At("pin") /\ job'.pc = "agents" => save \in struck \/ confirmed[save] = 0)
  BY DEF IInv, Held, Base, Shape, JobShape, JobDoc, AtSave
<1> QED BY <1>1, IInvInductive, PTL DEF Spec, RoundsSeeOrders

(* A round is pinned only to a save that came after the one earlier rounds  *)
(* were done with (coalesce_next_review_after_turn).                        *)
THEOREM RoundsAlwaysMoveOn == Spec => RoundsMoveOn
<1>1. IInv /\ [Next]_vars => (At("pin") /\ job'.pc = "agents" => save > floor)
  BY DEF IInv, Moved, Base, Shape, Known
<1> QED BY <1>1, IInvInductive, PTL DEF Spec, RoundsMoveOn

-----------------------------------------------------------------------------
(* CompatibilityControl.                                                    *)

(* What is known of a live round that no late result was written into.     *)
Sound == LiveActive /\ control.run \notin strayed

(* The scenarios of the round that have been started: all before the       *)
(* current one, and the current one once it is executed.                   *)
Begun ==
  IF control.phase \in {"executing_action", "awaiting_operator_verdict", "halted"}
  THEN control.index + 1 ELSE control.index

AnswersKnown ==
  /\ proxy.outcome = "network_confirmed" => proxy.last \in approved
  /\ \A c \in calls : c.stage = "network_confirmed" => Request(c.run, c.scenario) \in approved
  /\ \A r \in Runs \ strayed : \A s \in Scenarios :
       reports[r].stage[s] = "network_confirmed" => Request(r, s) \in approved

RunsWritten ==
  /\ \A c \in calls : Written(c.run)
  /\ \A r \in Runs, s \in Scenarios : Request(r, s) \in asked => Written(r)
  /\ baseline # 0 => Written(baseline)

RoundOfPlan ==
  /\ control.checked \in Buildable \cup {NoPlan}
  /\ Sound =>
       /\ plan \in Buildable \cap Configured /\ control.checked = plan
       /\ control.enabled = Enabled[plan]
       /\ control.run \in Runs /\ reports[control.run].mode = "live"
       /\ reports[control.run].enabled = EnabledIn(plan)

RoundInOrder ==
  Sound =>
    /\ Begun <= Len(control.enabled)
    /\ \A i \in 1..control.index : Passable(reports[control.run], control.enabled[i])
    /\ \A s \in Scenarios : Request(control.run, s) \in asked =>
         \E i \in 1..Begun : control.enabled[i] = s

CallsOfRound ==
  /\ \A c, d \in calls : c.run = d.run /\ c.run \notin strayed => c = d
  /\ Sound => \A c \in calls : c.run = control.run =>
       control.phase = "executing_action" /\ c.scenario = Current

JobsApart ==
  /\ holder = "job" /\ LiveActive => control.run \in strayed
  /\ holder = "live" => ~busy

SuiteInv ==
  /\ CompatibilityTypeOK /\ AnswersKnown /\ RunsWritten /\ RoundOfPlan /\ RoundInOrder
  /\ CallsOfRound /\ JobsApart /\ JobsExcluded /\ PassedIsEarned
-----------------------------------------------------------------------------
(* What the edits of the documents do.                                      *)

LEMMA RunIsNumber == \A r \in Runs : r \in Nat /\ r # 0
  BY CompatibilityAssumption DEF Runs

LEMMA BlankIsReport == BlankReport \in ReportDoc
  BY DEF BlankReport, ReportDoc, ScenarioStages, Unrun, Unjudged

LEMMA EnabledFits ==
  ASSUME NEW p \in Plans
  PROVE  Enabled[p] \in Seq(Scenarios) /\ EnabledIn(p) \subseteq Scenarios
<1>1. Enabled[p] \in Seq(Scenarios)
  BY CompatibilityAssumption
<1>2. \A i \in DOMAIN Enabled[p] : Enabled[p][i] \in Scenarios
  BY <1>1
<1> QED
  BY <1>1, <1>2 DEF EnabledIn

LEMMA NewIsReport ==
  ASSUME plan \in Plans, NEW kind \in {"offline", "live"},
         NEW status \in {"running", "passed", "failed"}
  PROVE  LET report == NewReport(kind, status)
         IN /\ report \in ReportDoc
            /\ report.mode = kind /\ report.status = status /\ report.enabled = EnabledIn(plan)
            /\ \A s \in Scenarios : report.stage[s] = "not_run"
<1>2. EnabledIn(plan) \in SUBSET Scenarios
  BY EnabledFits
<1>3. Unrun \in [Scenarios -> ScenarioStages] /\ \A s \in Scenarios : Unrun[s] = "not_run"
  BY DEF Unrun, ScenarioStages
<1>4. Unjudged \in [Scenarios -> {"not_checked", "skipped"} \cup Verdicts]
  BY DEF Unjudged
<1>5. NewReport(kind, status) \in ReportDoc
  BY <1>2, <1>3, <1>4 DEF ReportDoc, NewReport
<1> QED
  BY <1>3, <1>5 DEF NewReport

LEMMA StageEdit ==
  ASSUME NEW report \in ReportDoc, NEW s \in Scenarios, NEW x \in ScenarioStages
  PROVE  LET new == [report EXCEPT !.stage[s] = x]
         IN /\ new \in ReportDoc
            /\ new.mode = report.mode /\ new.status = report.status
            /\ new.enabled = report.enabled /\ new.verdict = report.verdict
            /\ \A t \in Scenarios : new.stage[t] = IF t = s THEN x ELSE report.stage[t]
<1> DEFINE stages == [report.stage EXCEPT ![s] = x]
<1>1. report.stage \in [Scenarios -> ScenarioStages]
  BY DEF ReportDoc
<1>2. /\ stages \in [Scenarios -> ScenarioStages]
      /\ \A t \in Scenarios : stages[t] = IF t = s THEN x ELSE report.stage[t]
  BY <1>1
<1>3. [report EXCEPT !.stage[s] = x] =
        [mode |-> report.mode, status |-> report.status, enabled |-> report.enabled,
         stage |-> stages, verdict |-> report.verdict]
  BY DEF ReportDoc
<1> HIDE DEF stages
<1>4. [mode |-> report.mode, status |-> report.status, enabled |-> report.enabled,
       stage |-> stages, verdict |-> report.verdict] \in ReportDoc
  BY <1>2 DEF ReportDoc
<1> QED
  BY <1>2, <1>3, <1>4

LEMMA VerdictEdit ==
  ASSUME NEW report \in ReportDoc, NEW s \in Scenarios,
         NEW x \in {"not_checked", "skipped"} \cup Verdicts
  PROVE  LET new == [report EXCEPT !.verdict[s] = x]
         IN /\ new \in ReportDoc
            /\ new.mode = report.mode /\ new.status = report.status
            /\ new.enabled = report.enabled /\ new.stage = report.stage
            /\ \A t \in Scenarios : new.verdict[t] = IF t = s THEN x ELSE report.verdict[t]
<1> DEFINE verdicts == [report.verdict EXCEPT ![s] = x]
<1>1. report.verdict \in [Scenarios -> {"not_checked", "skipped"} \cup Verdicts]
  BY DEF ReportDoc
<1>2. /\ verdicts \in [Scenarios -> {"not_checked", "skipped"} \cup Verdicts]
      /\ \A t \in Scenarios : verdicts[t] = IF t = s THEN x ELSE report.verdict[t]
  BY <1>1
<1>3. [report EXCEPT !.verdict[s] = x] =
        [mode |-> report.mode, status |-> report.status, enabled |-> report.enabled,
         stage |-> report.stage, verdict |-> verdicts]
  BY DEF ReportDoc
<1> HIDE DEF verdicts
<1>4. [mode |-> report.mode, status |-> report.status, enabled |-> report.enabled,
       stage |-> report.stage, verdict |-> verdicts] \in ReportDoc
  BY <1>2 DEF ReportDoc
<1> QED
  BY <1>2, <1>3, <1>4

LEMMA Closing ==
  ASSUME NEW report \in ReportDoc, NEW x \in {"passed", "failed", "incomplete"}
  PROVE  LET new == [report EXCEPT !.status = x]
         IN /\ new \in ReportDoc
            /\ new.mode = report.mode /\ new.status = x /\ new.enabled = report.enabled
            /\ new.stage = report.stage /\ new.verdict = report.verdict
<1>1. [report EXCEPT !.status = x] =
        [mode |-> report.mode, status |-> x, enabled |-> report.enabled,
         stage |-> report.stage, verdict |-> report.verdict]
  BY DEF ReportDoc
<1>2. [mode |-> report.mode, status |-> x, enabled |-> report.enabled,
       stage |-> report.stage, verdict |-> report.verdict] \in ReportDoc
  BY DEF ReportDoc
<1> QED
  BY <1>1, <1>2

(* An edit of the current report touches no other.                          *)
LEMMA Filing ==
  ASSUME reports \in [Runs -> ReportDoc], control.run \in Runs,
         NEW report \in ReportDoc, File(report)
  PROVE  /\ reports' \in [Runs -> ReportDoc]
         /\ \A r \in Runs : reports'[r] = IF r = control.run THEN report ELSE reports[r]
  BY DEF File
LEMMA Phasing ==
  ASSUME NEW c \in ControlDoc,
         NEW p \in LivePhases \cup {"offline_running", "finished"}
  PROVE  LET new == [c EXCEPT !.phase = p]
         IN /\ new \in ControlDoc
            /\ new.phase = p /\ new.checked = c.checked /\ new.run = c.run
            /\ new.enabled = c.enabled /\ new.index = c.index
  BY DEF ControlDoc

(* The current scenario is one of the catalogue, and the round that goes    *)
(* on has it behind it.                                                     *)
LEMMA CurrentFits ==
  ASSUME control \in ControlDoc, HasCurrent
  PROVE  /\ Current \in Scenarios
         /\ control.index + 1 \in 1..Len(control.enabled)
  BY DEF ControlDoc, HasCurrent, Current

LEMMA Going ==
  ASSUME control \in ControlDoc, HasCurrent
  PROVE  /\ Onward \in ControlDoc
         /\ Onward.checked = control.checked /\ Onward.run = control.run
         /\ Onward.enabled = control.enabled /\ Onward.index = control.index + 1
         /\ Onward.phase \in {"completed", "ready_for_action"}
<1> DEFINE p == IF control.index + 1 >= Len(control.enabled) THEN "completed"
                ELSE "ready_for_action"
<1>1. control.index + 1 \in Nat
  BY DEF ControlDoc
<1>2. p \in {"completed", "ready_for_action"}
  OBVIOUS
<1>3. Onward = [control EXCEPT !.index = control.index + 1, !.phase = p]
  BY DEF Onward
<1> HIDE DEF p
<1>4. Onward \in ControlDoc
  BY <1>1, <1>2, <1>3, Zenon DEF ControlDoc, LivePhases
<1>5. /\ Onward.checked = control.checked /\ Onward.run = control.run
      /\ Onward.enabled = control.enabled /\ Onward.index = control.index + 1
      /\ Onward.phase = p
  BY <1>3 DEF ControlDoc
<1> QED
  BY <1>2, <1>4, <1>5

(* What the steps of a call leave alone.                                    *)
LEMMA CallBecomes ==
  ASSUME calls \subseteq Call, NEW c \in calls,
         NEW stage \in {"armed"} \cup Outcomes \cup Failures, Becomes(c, stage)
  PROVE  /\ calls' = (calls \ {c}) \cup {[run |-> c.run, scenario |-> c.scenario, stage |-> stage]}
         /\ calls' \subseteq Call
         /\ UNCHANGED <<documents, others, restarts, testament>>
<1>1. c \in Call
  OBVIOUS
<1>2. [c EXCEPT !.stage = stage] = [run |-> c.run, scenario |-> c.scenario, stage |-> stage]
  BY <1>1 DEF Call
<1>3. [run |-> c.run, scenario |-> c.scenario, stage |-> stage] \in Call
  BY <1>1 DEF Call
<1> QED
  BY <1>2, <1>3 DEF Becomes
-----------------------------------------------------------------------------
(* What is read back after each step that edits the documents.              *)

(* A report that is opened.                                                 *)
LEMMA Opening ==
  ASSUME CompatibilityTypeOK, plan \in Plans, NEW r \in NewRun,
         NEW kind \in {"offline", "live"}, NEW status \in {"running", "passed", "failed"},
         reports' = [reports EXCEPT ![r] = NewReport(kind, status)]
  PROVE  /\ r \in Runs /\ ~Written(r)
         /\ reports' \in [Runs -> ReportDoc]
         /\ \A q \in Runs : q # r => reports'[q] = reports[q]
         /\ reports'[r].mode = kind /\ reports'[r].status = status
         /\ reports'[r].enabled = EnabledIn(plan)
         /\ \A s \in Scenarios : reports'[r].stage[s] = "not_run"
<1>1. r \in Runs /\ ~Written(r)
  BY DEF NewRun
<1>2. /\ NewReport(kind, status) \in ReportDoc
      /\ NewReport(kind, status).mode = kind /\ NewReport(kind, status).status = status
      /\ NewReport(kind, status).enabled = EnabledIn(plan)
      /\ \A s \in Scenarios : NewReport(kind, status).stage[s] = "not_run"
  BY NewIsReport
<1>3. reports \in [Runs -> ReportDoc]
  BY DEF CompatibilityTypeOK
<1> QED
  BY <1>1, <1>2, <1>3

LEMMA SavingPlan ==
  ASSUME NEW p \in Plans, SavePlan(p)
  PROVE  /\ plan' = p /\ ~LiveActive
         /\ \/ /\ control'.phase = "plan_ready" /\ control'.checked = NoPlan
               /\ control' \in ControlDoc
               /\ UNCHANGED <<calls, others, restarts>>
            \/ control' = control /\ Restarted
         /\ UNCHANGED <<reports, baseline, proxy, testament>>
<1>1. Stage("plan_ready", NoPlan) \in ControlDoc
  BY DEF Stage, ControlDoc
<1> QED
  BY <1>1 DEF SavePlan, Advance, Alive, Stage

LEMMA Checking ==
  ASSUME CompatibilityTypeOK, OfflineCheck
  PROVE  /\ ~LiveActive /\ plan \in Plans
         /\ \E r \in NewRun :
              /\ \/ reports' = reports
                 \/ \E status \in {"passed", "failed"} :
                      reports' = [reports EXCEPT ![r] = NewReport("offline", status)]
              /\ control' \in ControlDoc
              /\ control'.phase \in {"offline_passed", "offline_failed", "offline_running"}
              /\ control'.checked \in {control.checked, NoPlan} \cup (Buildable \cap {plan})
              /\ UNCHANGED <<calls, others, restarts>> \/ Restarted
         /\ UNCHANGED <<plan, baseline, proxy, testament>>
<1>1. ~LiveActive /\ plan \in Plans /\ UNCHANGED <<plan, baseline, proxy, testament>>
  BY DEF OfflineCheck, CompatibilityTypeOK
<1>2. control \in ControlDoc
  BY DEF CompatibilityTypeOK
<1> DEFINE status == IF Verified THEN "passed" ELSE "failed"
           phase == IF Verified THEN "offline_passed" ELSE "offline_failed"
           checked == IF Verified THEN plan ELSE NoPlan
<1>3. PICK r \in NewRun :
        \/ /\ reports' = [reports EXCEPT ![r] = NewReport("offline", status)]
           /\ control' = [control EXCEPT !.phase = phase, !.checked = checked, !.run = r]
           /\ Alive
        \/ /\ reports' \in {reports, [reports EXCEPT ![r] = NewReport("offline", status)]}
           /\ control' = [control EXCEPT !.phase = "offline_running", !.run = r]
           /\ Restarted
  BY DEF OfflineCheck
<1>4. /\ status \in {"passed", "failed"} /\ phase \in {"offline_passed", "offline_failed"}
      /\ checked \in {NoPlan} \cup (Buildable \cap {plan})
  BY DEF Verified
<1> HIDE DEF status, phase, checked
<1>5. r \in Runs
  BY DEF NewRun
<1>6. CASE control' = [control EXCEPT !.phase = phase, !.checked = checked, !.run = r] /\ Alive
  <2>1. control' \in ControlDoc
    <3>1. checked \in Plans \cup {NoPlan} /\ r \in Runs \cup {0}
      BY <1>4, <1>5, CompatibilityAssumption
    <3>2. phase \in LivePhases \cup {"idle", "plan_ready", "offline_running", "offline_passed",
                          "offline_failed", "finished"}
      BY <1>4
    <3> QED
      BY <1>2, <1>6, <3>1, <3>2, Zenon DEF ControlDoc
  <2>2. control'.phase = phase /\ control'.checked = checked
    BY <1>2, <1>6 DEF ControlDoc
  <2>3. reports' = reports \/ reports' = [reports EXCEPT ![r] = NewReport("offline", status)]
    BY <1>3
  <2> QED
    BY <1>1, <1>4, <1>6, <2>1, <2>2, <2>3 DEF Alive
<1>7. CASE control' = [control EXCEPT !.phase = "offline_running", !.run = r] /\ Restarted
  <2>1. control' \in ControlDoc
    BY <1>2, <1>5, <1>7, Zenon DEF ControlDoc
  <2>2. control'.phase = "offline_running" /\ control'.checked = control.checked
    BY <1>2, <1>7 DEF ControlDoc
  <2>3. reports' = reports \/ reports' = [reports EXCEPT ![r] = NewReport("offline", status)]
    BY <1>3
  <2> QED
    BY <1>1, <1>4, <1>7, <2>1, <2>2, <2>3
<1> QED
  BY <1>3, <1>6, <1>7

LEMMA LiveStarting ==
  ASSUME CompatibilityTypeOK, StartLive
  PROVE  /\ ~LiveActive /\ holder = "live" /\ plan \in Configured /\ control.checked = plan
         /\ plan \in Plans
         /\ \E r \in NewRun :
              \/ /\ reports' = [reports EXCEPT ![r] = NewReport("live", "running")]
                 /\ control' = [phase |-> "waiting_for_room", checked |-> control.checked,
                                run |-> r, enabled |-> Enabled[plan], index |-> 0]
                 /\ control' \in ControlDoc
                 /\ holder' = "none" /\ UNCHANGED <<calls, busy, manual, restarts>>
              \/ /\ \/ reports' = reports
                    \/ reports' = [reports EXCEPT ![r] = NewReport("live", "running")]
                 /\ UNCHANGED control /\ Restarted
         /\ proxy'.outcome = "none" /\ proxy' \in ProxyStatus
         /\ UNCHANGED <<plan, baseline, testament>>
<1>1. /\ ~LiveActive /\ holder = "live" /\ plan \in Configured /\ control.checked = plan
      /\ plan \in Plans /\ UNCHANGED <<plan, baseline, testament>>
  BY CompatibilityAssumption DEF StartLive, PlanIsChecked
<1>2. control \in ControlDoc
  BY DEF CompatibilityTypeOK
<1>3. Enabled[plan] \in Seq(Scenarios)
  BY <1>1, EnabledFits
<1>4. proxy'.outcome = "none" /\ proxy' \in ProxyStatus
  BY DEF StartLive, ProxyOff, ProxyStatus
<1>5. PICK r \in NewRun :
        \/ /\ reports' = [reports EXCEPT ![r] = NewReport("live", "running")]
           /\ control' = [control EXCEPT !.phase = "waiting_for_room", !.run = r,
                                         !.enabled = Enabled[plan], !.index = 0]
           /\ holder' = "none" /\ UNCHANGED <<calls, busy, manual, restarts>>
        \/ /\ reports' \in {reports, [reports EXCEPT ![r] = NewReport("live", "running")]}
           /\ UNCHANGED control /\ Restarted
  BY DEF StartLive
<1>6. r \in Runs
  BY DEF NewRun
<1>7. [phase |-> "waiting_for_room", checked |-> control.checked, run |-> r,
       enabled |-> Enabled[plan], index |-> 0] \in ControlDoc
  BY <1>2, <1>3, <1>6 DEF ControlDoc, LivePhases
<1>8. [control EXCEPT !.phase = "waiting_for_room", !.run = r, !.enabled = Enabled[plan],
                      !.index = 0] =
        [phase |-> "waiting_for_room", checked |-> control.checked, run |-> r,
         enabled |-> Enabled[plan], index |-> 0]
  <2> DEFINE a == [control EXCEPT !.phase = "waiting_for_room"]
             b == [a EXCEPT !.run = r]
             c == [b EXCEPT !.enabled = Enabled[plan]]
  <2>1. a \in ControlDoc /\ a = [control EXCEPT !.phase = "waiting_for_room"]
    BY <1>2 DEF ControlDoc, LivePhases
  <2>2. b \in ControlDoc
    BY <1>2, <1>6, Zenon DEF ControlDoc, LivePhases
  <2>3. c \in ControlDoc
    BY <1>2, <1>3, <1>6, Zenon DEF ControlDoc, LivePhases
  <2>4. /\ c.phase = "waiting_for_room" /\ c.checked = control.checked /\ c.run = r
        /\ c.enabled = Enabled[plan]
    BY <1>2 DEF ControlDoc
  <2>5. [control EXCEPT !.phase = "waiting_for_room", !.run = r, !.enabled = Enabled[plan],
                        !.index = 0] = [c EXCEPT !.index = 0]
    OBVIOUS
  <2> HIDE DEF c
  <2>6. [c EXCEPT !.index = 0] =
          [phase |-> c.phase, checked |-> c.checked, run |-> c.run, enabled |-> c.enabled,
           index |-> 0]
    BY <2>3 DEF ControlDoc
  <2> QED
    BY <2>4, <2>5, <2>6
<1> QED
  BY <1>1, <1>4, <1>5, <1>7, <1>8
(* The current report is edited: its plan and its kind stay.                *)
Edited ==
  /\ reports' \in [Runs -> ReportDoc]
  /\ \A r \in Runs : r # control.run => reports'[r] = reports[r]
  /\ control.run \in Runs
  /\ reports'[control.run].mode = reports[control.run].mode
  /\ reports'[control.run].enabled = reports[control.run].enabled

(* control.json is advanced to another phase, or the console restarts.      *)
Turned(phases) ==
  \/ /\ control' \in ControlDoc /\ control'.phase \in phases
     /\ control'.checked = control.checked /\ control'.run = control.run
     /\ control'.enabled = control.enabled /\ control'.index = control.index
     /\ UNCHANGED <<calls, others, restarts>>
  \/ UNCHANGED control /\ Restarted

LEMMA Phased ==
  ASSUME control \in ControlDoc, NEW p \in LivePhases \cup {"offline_running", "finished"},
         Advance([control EXCEPT !.phase = p])
  PROVE  Turned({p})
<1> DEFINE new == [control EXCEPT !.phase = p]
<1>1. /\ new \in ControlDoc
      /\ new.phase = p /\ new.checked = control.checked /\ new.run = control.run
      /\ new.enabled = control.enabled /\ new.index = control.index
  BY Phasing
<1>2. (control' = new /\ UNCHANGED <<calls, others, restarts>>) \/ (UNCHANGED control /\ Restarted)
  BY DEF Advance, Alive
<1> HIDE DEF new
<1> QED
  BY <1>1, <1>2 DEF Turned

LEMMA Executing ==
  ASSUME CompatibilityTypeOK, Execute
  PROVE  /\ control.phase = "ready_for_action" /\ control.run \in Runs /\ Written(control.run)
         /\ HasCurrent /\ Current \in Scenarios
         /\ control' \in ControlDoc /\ control'.phase = "executing_action"
         /\ control'.checked = control.checked /\ control'.run = control.run
         /\ control'.enabled = control.enabled /\ control'.index = control.index
         /\ calls' = calls \cup {[run |-> control.run, scenario |-> Current, stage |-> "begun"]}
         /\ calls' \subseteq Call
         /\ asked' = asked \cup {Request(control.run, Current)}
         /\ UNCHANGED <<plan, reports, baseline, proxy, others, restarts, approved, strayed>>
<1>1. control \in ControlDoc /\ calls \subseteq Call
  BY DEF CompatibilityTypeOK
<1>2. /\ control.phase = "ready_for_action" /\ Written(control.run) /\ control.run \in Runs
      /\ HasCurrent /\ control' = [control EXCEPT !.phase = "executing_action"]
      /\ calls' = calls \cup {[run |-> control.run, scenario |-> Current, stage |-> "begun"]}
      /\ asked' = asked \cup {Request(control.run, Current)}
      /\ UNCHANGED <<plan, reports, baseline, proxy, others, restarts, approved, strayed>>
  BY DEF Execute, Executable, HasReport, Written
<1>3. Current \in Scenarios
  BY <1>1, <1>2, CurrentFits
<1>4. [run |-> control.run, scenario |-> Current, stage |-> "begun"] \in Call
  BY <1>2, <1>3 DEF Call
<1>5. "executing_action" \in LivePhases
  BY DEF LivePhases
<1> QED
  BY <1>1, <1>2, <1>3, <1>4, <1>5, Phasing

LEMMA EndingCall ==
  ASSUME CompatibilityTypeOK, NEW c \in calls, ExecuteEnds(c)
  PROVE  /\ Edited /\ Written(control.run) /\ c \in Call
         /\ reports'[control.run].status = reports[control.run].status
         /\ reports'[control.run].verdict = reports[control.run].verdict
         /\ c.stage \in Outcomes \cup Failures
         /\ \A s \in Scenarios : reports'[control.run].stage[s] =
              IF s = c.scenario THEN c.stage ELSE reports[control.run].stage[s]
         /\ \/ /\ Awaited(c) /\ strayed' = strayed
            \/ /\ ~Awaited(c) /\ strayed' = strayed \cup {control.run}
         /\ \/ /\ control' \in ControlDoc /\ control'.phase = "awaiting_operator_verdict"
               /\ control'.checked = control.checked /\ control'.run = control.run
               /\ control'.enabled = control.enabled /\ control'.index = control.index
               /\ calls' = calls \ {c} /\ UNCHANGED <<others, restarts>>
            \/ UNCHANGED control /\ Restarted
         /\ UNCHANGED <<plan, baseline, proxy, asked, approved>>
<1>1. /\ control \in ControlDoc /\ c \in Call /\ reports \in [Runs -> ReportDoc]
      /\ Written(control.run) /\ control.run \in Runs
  BY DEF CompatibilityTypeOK, ExecuteEnds, HasReport, Written
<1>2. c.scenario \in Scenarios /\ c.stage \in Outcomes \cup Failures
  BY <1>1 DEF ExecuteEnds, Resolved, Call
<1>3. c.stage \in ScenarioStages /\ reports[control.run] \in ReportDoc
  BY <1>1, <1>2 DEF ScenarioStages
<1> DEFINE new == [reports[control.run] EXCEPT !.stage[c.scenario] = c.stage]
<1>4. /\ new \in ReportDoc
      /\ new.mode = reports[control.run].mode /\ new.status = reports[control.run].status
      /\ new.enabled = reports[control.run].enabled
      /\ new.verdict = reports[control.run].verdict
      /\ \A s \in Scenarios : new.stage[s] =
           IF s = c.scenario THEN c.stage ELSE reports[control.run].stage[s]
  BY <1>2, <1>3, StageEdit
<1>5. File(new)
  BY DEF ExecuteEnds
<1> HIDE DEF new
<1>6. /\ reports' \in [Runs -> ReportDoc]
      /\ \A r \in Runs : reports'[r] = IF r = control.run THEN new ELSE reports[r]
  BY <1>1, <1>4, <1>5, Filing
<1>7. \/ Awaited(c) /\ strayed' = strayed
      \/ ~Awaited(c) /\ strayed' = strayed \cup {control.run}
  BY DEF ExecuteEnds
<1>8. "awaiting_operator_verdict" \in LivePhases
  BY DEF LivePhases
<1> DEFINE after == [control EXCEPT !.phase = "awaiting_operator_verdict"]
<1>9. \/ control' = after /\ calls' = calls \ {c} /\ UNCHANGED <<others, restarts>>
      \/ UNCHANGED control /\ Restarted
  BY DEF ExecuteEnds, PhaseAfter
<1>11. /\ after \in ControlDoc /\ after.phase = "awaiting_operator_verdict"
       /\ after.checked = control.checked /\ after.run = control.run
       /\ after.enabled = control.enabled /\ after.index = control.index
  BY <1>1, <1>8, Phasing
<1> HIDE DEF after
<1>12. Edited
  BY <1>1, <1>4, <1>6 DEF Edited
<1>10. UNCHANGED <<plan, baseline, proxy, asked, approved>>
  BY DEF ExecuteEnds
<1> QED
  BY <1>1, <1>2, <1>4, <1>6, <1>7, <1>9, <1>10, <1>11, <1>12

(* The round goes on, the current scenario behind it.                       *)
GoneOn ==
  \/ /\ control' \in ControlDoc
     /\ control'.phase \in {"completed", "ready_for_action"}
     /\ control'.checked = control.checked /\ control'.run = control.run
     /\ control'.enabled = control.enabled /\ control'.index = control.index + 1
     /\ UNCHANGED <<calls, others, restarts>>
  \/ UNCHANGED control /\ Restarted

LEMMA Judging ==
  ASSUME CompatibilityTypeOK, NEW v \in Verdicts, RecordVerdict(v)
  PROVE  /\ Edited /\ Written(control.run) /\ HasCurrent /\ Current \in Scenarios
         /\ control.phase = "awaiting_operator_verdict"
         /\ reports'[control.run].status = reports[control.run].status
         /\ reports'[control.run].stage = reports[control.run].stage
         /\ \A s \in Scenarios : reports'[control.run].verdict[s] =
              IF s = Current THEN v ELSE reports[control.run].verdict[s]
         /\ \/ GoneOn /\ Succeeded(reports[control.run].stage[Current], v)
            \/ Turned({"halted"})
         /\ UNCHANGED <<plan, baseline, proxy, testament>>
<1>1. /\ control \in ControlDoc /\ reports \in [Runs -> ReportDoc]
      /\ Written(control.run) /\ control.run \in Runs /\ HasCurrent
      /\ control.phase = "awaiting_operator_verdict"
  BY DEF CompatibilityTypeOK, RecordVerdict, HasReport, Written
<1>2. Current \in Scenarios
  BY <1>1, CurrentFits
<1> DEFINE new == [reports[control.run] EXCEPT !.verdict[Current] = v]
<1>3. /\ new \in ReportDoc
      /\ new.mode = reports[control.run].mode /\ new.status = reports[control.run].status
      /\ new.enabled = reports[control.run].enabled
      /\ new.stage = reports[control.run].stage
      /\ \A s \in Scenarios : new.verdict[s] =
           IF s = Current THEN v ELSE reports[control.run].verdict[s]
  BY <1>1, <1>2, VerdictEdit
<1>4. File(new)
  BY DEF RecordVerdict
<1> HIDE DEF new
<1>5. /\ reports' \in [Runs -> ReportDoc]
      /\ \A r \in Runs : reports'[r] = IF r = control.run THEN new ELSE reports[r]
  BY <1>1, <1>3, <1>4, Filing
<1>6. "halted" \in LivePhases
  BY DEF LivePhases
<1>7. \/ GoneOn /\ Succeeded(reports[control.run].stage[Current], v)
      \/ Turned({"halted"})
  <2>1. CASE Succeeded(reports[control.run].stage[Current], v)
    <3>1. Advance(Onward)
      BY <2>1 DEF RecordVerdict
    <3> QED
      BY <1>1, <2>1, <3>1, Going DEF Advance, GoneOn, Alive
  <2>2. CASE ~Succeeded(reports[control.run].stage[Current], v)
    <3>1. Advance([control EXCEPT !.phase = "halted"])
      BY <2>2 DEF RecordVerdict
    <3> QED
      BY <1>1, <1>6, <3>1, Phased
  <2> QED
    BY <2>1, <2>2
<1>8. UNCHANGED <<plan, baseline, proxy, testament>>
  BY DEF RecordVerdict
<1> QED
  BY <1>1, <1>2, <1>3, <1>5, <1>7, <1>8 DEF Edited

LEMMA Skipping ==
  ASSUME CompatibilityTypeOK, SkipCurrent
  PROVE  /\ Edited /\ Written(control.run) /\ HasCurrent /\ Current \in Scenarios
         /\ control.phase = "ready_for_action"
         /\ reports'[control.run].status = reports[control.run].status
         /\ \A s \in Scenarios : reports'[control.run].stage[s] =
              IF s = Current THEN "skipped_by_operator" ELSE reports[control.run].stage[s]
         /\ \A s \in Scenarios : s # Current =>
              reports'[control.run].verdict[s] = reports[control.run].verdict[s]
         /\ GoneOn
         /\ UNCHANGED <<plan, baseline, proxy, testament>>
<1>1. /\ control \in ControlDoc /\ reports \in [Runs -> ReportDoc]
      /\ Written(control.run) /\ control.run \in Runs /\ HasCurrent
      /\ control.phase = "ready_for_action"
  BY DEF CompatibilityTypeOK, SkipCurrent, HasReport, Written
<1>2. Current \in Scenarios /\ "skipped_by_operator" \in ScenarioStages
  BY <1>1, CurrentFits DEF ScenarioStages
<1> DEFINE mid == [reports[control.run] EXCEPT !.stage[Current] = "skipped_by_operator"]
           new == [mid EXCEPT !.verdict[Current] = "skipped"]
<1>3. /\ mid \in ReportDoc
      /\ mid.mode = reports[control.run].mode /\ mid.status = reports[control.run].status
      /\ mid.enabled = reports[control.run].enabled
      /\ mid.verdict = reports[control.run].verdict
      /\ \A s \in Scenarios : mid.stage[s] =
           IF s = Current THEN "skipped_by_operator" ELSE reports[control.run].stage[s]
  BY <1>1, <1>2, StageEdit
<1>4. File(new)
  BY DEF SkipCurrent
<1> HIDE DEF mid
<1>5. /\ new \in ReportDoc
      /\ new.mode = mid.mode /\ new.status = mid.status /\ new.enabled = mid.enabled
      /\ new.stage = mid.stage
      /\ \A s \in Scenarios : new.verdict[s] = IF s = Current THEN "skipped" ELSE mid.verdict[s]
  BY <1>2, <1>3, VerdictEdit
<1> HIDE DEF new
<1>6. /\ reports' \in [Runs -> ReportDoc]
      /\ \A r \in Runs : reports'[r] = IF r = control.run THEN new ELSE reports[r]
  BY <1>1, <1>4, <1>5, Filing
<1>7. GoneOn
  <2>1. Advance(Onward)
    BY DEF SkipCurrent
  <2> QED
    BY <1>1, <2>1, Going DEF Advance, GoneOn, Alive
<1>8. UNCHANGED <<plan, baseline, proxy, testament>>
  BY DEF SkipCurrent
<1> QED
  BY <1>1, <1>2, <1>3, <1>5, <1>6, <1>7, <1>8 DEF Edited
LEMMA Finishing ==
  ASSUME CompatibilityTypeOK, Finish
  PROVE  /\ LiveActive
         /\ \/ /\ ~Written(control.run) /\ UNCHANGED <<reports, baseline>>
            \/ /\ Edited /\ Written(control.run)
               /\ reports'[control.run].stage = reports[control.run].stage
               /\ reports'[control.run].verdict = reports[control.run].verdict
               /\ reports'[control.run].status = "passed" => AllSucceeded(reports[control.run])
               /\ \/ baseline' = baseline
                  \/ baseline' = control.run /\ AllSucceeded(reports[control.run])
         /\ Turned({"finished"})
         /\ proxy' \in ProxyStatus
         /\ proxy'.outcome = proxy.outcome /\ proxy'.last = proxy.last
         /\ UNCHANGED <<plan, testament>>
<1>1. /\ control \in ControlDoc /\ reports \in [Runs -> ReportDoc] /\ proxy \in ProxyStatus
      /\ LiveActive /\ UNCHANGED <<plan, testament>>
  BY DEF CompatibilityTypeOK, Finish
<1>2. /\ proxy' \in ProxyStatus
      /\ proxy'.outcome = proxy.outcome /\ proxy'.last = proxy.last
  <2>1. proxy' = [proxy EXCEPT !.running = FALSE]
    BY DEF Finish
  <2> QED
    BY <1>1, <2>1 DEF ProxyStatus
<1>3. Turned({"finished"})
  <2>1. Advance([control EXCEPT !.phase = "finished"])
    BY DEF Finish
  <2> QED
    BY <1>1, <2>1, Phased
<1>4. CASE ~HasReport
  <2>1. UNCHANGED <<reports, baseline>>
    BY <1>4 DEF Finish
  <2> QED
    BY <1>1, <1>2, <1>3, <1>4, <2>1 DEF HasReport
<1>5. CASE HasReport
  <2> DEFINE status == StatusOf(reports[control.run])
             new == [reports[control.run] EXCEPT !.status = status]
  <2>1. control.run \in Runs /\ Written(control.run) /\ reports[control.run] \in ReportDoc
    BY <1>1, <1>5 DEF HasReport, Written
  <2>2. /\ status \in {"passed", "failed", "incomplete"}
        /\ status = "passed" => AllSucceeded(reports[control.run])
    BY DEF StatusOf
  <2>3. /\ File(new)
        /\ baseline' = baseline \/ (baseline' = control.run /\ status = "passed")
    BY <1>5 DEF Finish
  <2> HIDE DEF status
  <2>4. /\ new \in ReportDoc
        /\ new.mode = reports[control.run].mode /\ new.status = status
        /\ new.enabled = reports[control.run].enabled
        /\ new.stage = reports[control.run].stage
        /\ new.verdict = reports[control.run].verdict
    BY <2>1, <2>2, Closing
  <2> HIDE DEF new
  <2>5. /\ reports' \in [Runs -> ReportDoc]
        /\ \A r \in Runs : reports'[r] = IF r = control.run THEN new ELSE reports[r]
    BY <1>1, <2>1, <2>3, <2>4, Filing
  <2>6. Edited
    BY <2>1, <2>4, <2>5 DEF Edited
  <2> QED
    BY <1>1, <1>2, <1>3, <2>1, <2>2, <2>3, <2>4, <2>5, <2>6
<1> QED
  BY <1>4, <1>5

LEMMA Resetting ==
  ASSUME CompatibilityTypeOK, Reset
  PROVE  /\ control' \in ControlDoc
         /\ control'.phase \in {"offline_passed", "plan_ready", "idle"}
         /\ control'.checked = control.checked
         /\ UNCHANGED <<plan, reports, baseline, calls, proxy, others, restarts, testament>>
<1> DEFINE p == IF PlanIsChecked THEN "offline_passed"
                ELSE IF plan # NoPlan THEN "plan_ready" ELSE "idle"
<1>1. p \in {"offline_passed", "plan_ready", "idle"}
  OBVIOUS
<1>2. control' = [control EXCEPT !.phase = p, !.enabled = <<>>, !.index = 0]
  BY DEF Reset
<1> HIDE DEF p
<1>3. control \in ControlDoc
  BY DEF CompatibilityTypeOK
<1>4. <<>> \in Seq(Scenarios) /\ 0 \in Nat
  OBVIOUS
<1>5. control' \in ControlDoc
  BY <1>1, <1>2, <1>3, <1>4, Zenon DEF ControlDoc
<1>6. control'.phase = p /\ control'.checked = control.checked
  BY <1>2, <1>3 DEF ControlDoc
<1>7. UNCHANGED <<plan, reports, baseline, calls, proxy, others, restarts, testament>>
  BY DEF Reset
<1> QED
  BY <1>1, <1>5, <1>6, <1>7

(* The steps that leave the documents and the history alone; a result the   *)
(* proxy still publishes is the one it published before.                    *)
Quiet ==
  /\ UNCHANGED <<documents, testament>>
  /\ proxy' \in ProxyStatus
  /\ proxy'.outcome = "network_confirmed" =>
       proxy.outcome = "network_confirmed" /\ proxy'.last = proxy.last

LEMMA ProxyByHand ==
  ASSUME CompatibilityTypeOK, ManualEnds
  PROVE  Quiet /\ manual' = "none" /\ UNCHANGED <<calls, holder, busy, restarts>>
<1>1. proxy \in ProxyStatus
  BY DEF CompatibilityTypeOK
<1>2. proxy' = proxy \/ proxy' = Stopped \/ proxy' = [ProxyOff EXCEPT !.running = TRUE]
  BY DEF ManualEnds, Started
<1>3. CASE proxy' = Stopped
  <2>1. proxy' \in ProxyStatus /\ proxy'.outcome = proxy.outcome /\ proxy'.last = proxy.last
    BY <1>1, <1>3 DEF Stopped, ProxyStatus
  <2> QED
    BY <2>1 DEF ManualEnds, Quiet
<1>4. CASE proxy' = [ProxyOff EXCEPT !.running = TRUE]
  <2>1. proxy' \in ProxyStatus /\ proxy'.outcome = "none"
    BY <1>4 DEF ProxyOff, ProxyStatus
  <2> QED
    BY <2>1 DEF ManualEnds, Quiet
<1> QED
  BY <1>1, <1>2, <1>3, <1>4 DEF ManualEnds, Quiet

LEMMA WorkerQuiet ==
  ASSUME CompatibilityTypeOK, LockFlow \/ WorkerEnds
  PROVE  Quiet /\ UNCHANGED <<calls, others, restarts>>
<1>1. proxy \in ProxyStatus
  BY DEF CompatibilityTypeOK
<1>2. proxy' = [proxy EXCEPT !.flow = TRUE] \/ proxy' = [proxy EXCEPT !.running = FALSE]
  BY DEF LockFlow, WorkerEnds, Stopped
<1>3. proxy' \in ProxyStatus /\ proxy'.outcome = proxy.outcome /\ proxy'.last = proxy.last
  BY <1>1, <1>2 DEF ProxyStatus
<1> QED
  BY <1>3 DEF LockFlow, WorkerEnds, Quiet

LEMMA Answering ==
  ASSUME CompatibilityTypeOK, NEW outcome \in Outcomes, Answer(outcome)
  PROVE  /\ proxy' \in ProxyStatus
         /\ proxy'.last = proxy.armed /\ proxy'.outcome = outcome
         /\ proxy.armed \in Runs \X Scenarios
         /\ approved' = IF outcome = "network_confirmed" THEN approved \cup {proxy.armed}
                        ELSE approved
         /\ UNCHANGED <<documents, calls, others, restarts, asked, strayed>>
<1>1. proxy \in ProxyStatus
  BY DEF CompatibilityTypeOK
<1>2. proxy' = [proxy EXCEPT !.last = proxy.armed, !.outcome = outcome, !.armed = Idle]
  BY DEF Answer
<1>3. /\ proxy.armed \in (Runs \X Scenarios) \cup {Idle} /\ proxy.armed # Idle
      /\ Idle \in (Runs \X Scenarios) \cup {Idle} /\ outcome \in Outcomes \cup {"none"}
  BY <1>1 DEF Answer, ProxyStatus
<1>4. proxy' \in ProxyStatus
  BY <1>1, <1>2, <1>3, Zenon DEF ProxyStatus
<1>5. proxy'.last = proxy.armed /\ proxy'.outcome = outcome
  BY <1>1, <1>2 DEF ProxyStatus
<1> QED
  BY <1>3, <1>4, <1>5 DEF Answer

LEMMA Arming ==
  ASSUME CompatibilityTypeOK, NEW c \in calls, Arm(c) \/ ReadResult(c) \/ CallFails(c)
  PROVE  /\ Quiet /\ c \in Call
         /\ UNCHANGED <<others, restarts>> /\ calls' \subseteq Call
         /\ \E stage \in {"armed"} \cup Outcomes \cup Failures :
              /\ calls' = (calls \ {c}) \cup
                          {[run |-> c.run, scenario |-> c.scenario, stage |-> stage]}
              /\ stage = "network_confirmed" =>
                   /\ proxy.outcome = "network_confirmed"
                   /\ proxy.last = Request(c.run, c.scenario)
<1>1. proxy \in ProxyStatus /\ calls \subseteq Call /\ c \in Call
  BY DEF CompatibilityTypeOK
<1>2. CASE Arm(c)
  <2>1. Becomes(c, "armed")
    BY <1>2 DEF Arm
  <2>2. /\ calls' = (calls \ {c}) \cup {[run |-> c.run, scenario |-> c.scenario, stage |-> "armed"]}
        /\ calls' \subseteq Call
        /\ UNCHANGED <<documents, others, restarts, testament>>
    BY <1>1, <2>1, CallBecomes
  <2>3. proxy' \in ProxyStatus /\ proxy'.outcome = proxy.outcome /\ proxy'.last = proxy.last
    <3>1. proxy' = [proxy EXCEPT !.armed = Request(c.run, c.scenario)]
      BY <1>2 DEF Arm
    <3>2. Request(c.run, c.scenario) \in Runs \X Scenarios
      BY <1>1 DEF Request, Call
    <3> QED
      BY <1>1, <3>1, <3>2 DEF ProxyStatus
  <2> QED
    BY <1>1, <2>2, <2>3 DEF Quiet
<1>3. CASE ReadResult(c)
  <2>1. /\ Becomes(c, proxy.outcome) /\ UNCHANGED proxy
        /\ proxy.last = Request(c.run, c.scenario)
    BY <1>3 DEF ReadResult
  <2>2. proxy.outcome \in Outcomes
    BY <1>1, <1>3 DEF ReadResult, ProxyStatus
  <2>3. /\ calls' = (calls \ {c}) \cup
                    {[run |-> c.run, scenario |-> c.scenario, stage |-> proxy.outcome]}
        /\ calls' \subseteq Call
        /\ UNCHANGED <<documents, others, restarts, testament>>
    BY <1>1, <2>1, <2>2, CallBecomes
  <2> QED
    BY <1>1, <2>1, <2>2, <2>3 DEF Quiet
<1>4. CASE CallFails(c)
  <2>1. Becomes(c, "controller_error") /\ UNCHANGED proxy
    BY <1>4 DEF CallFails
  <2>2. "controller_error" \in Failures
    BY DEF Failures
  <2>3. /\ calls' = (calls \ {c}) \cup
                    {[run |-> c.run, scenario |-> c.scenario, stage |-> "controller_error"]}
        /\ calls' \subseteq Call
        /\ UNCHANGED <<documents, others, restarts, testament>>
    BY <1>1, <2>1, <2>2, CallBecomes
  <2> QED
    BY <1>1, <2>1, <2>2, <2>3 DEF Quiet
<1> QED
  BY <1>2, <1>3, <1>4
-----------------------------------------------------------------------------
(* The steps of the suite, those that leave documents and history alone     *)
(* taken together.                                                          *)
Stirring ==
  \/ BeginLive \/ StartLiveFails \/ BeginJob \/ StartJob \/ JobEnds \/ BeginManual
  \/ ManualEnds \/ ConsoleRestarts \/ LockFlow \/ WorkerEnds
  \/ \E c \in calls : ExecuteLost(c)
  \/ UNCHANGED suiteVars

LEMMA Steps ==
  ASSUME [CompatibilityNext]_suiteVars
  PROVE  \/ Stirring
         \/ \E p \in Plans : SavePlan(p)
         \/ OfflineCheck \/ Reset \/ StartLive \/ ConfirmRoom \/ Execute
         \/ \E c \in calls : Arm(c) \/ ReadResult(c) \/ CallFails(c)
         \/ \E c \in calls : ExecuteEnds(c)
         \/ \E v \in Verdicts : RecordVerdict(v)
         \/ SkipCurrent \/ Finish
         \/ \E o \in Outcomes : Answer(o)
  BY DEF CompatibilityNext, Preparing, LiveRound, Console, Worker, Stirring

LEMMA RestartFits ==
  ASSUME CompatibilityTypeOK, UNCHANGED <<calls, others, restarts>> \/ Restarted
  PROVE  /\ calls' \subseteq calls
         /\ holder' \in {"none", "job", "live"} /\ busy' \in BOOLEAN
         /\ manual' \in {"none", "start", "stop"} /\ restarts' \in 0..MaxRestarts
         /\ (busy' => busy) /\ (holder' = "none" \/ holder' = holder)
<1>1. /\ holder \in {"none", "job", "live"} /\ busy \in BOOLEAN
      /\ manual \in {"none", "start", "stop"} /\ restarts \in 0..MaxRestarts
      /\ MaxRestarts \in Nat
  BY CompatibilityAssumption DEF CompatibilityTypeOK
<1>2. CASE UNCHANGED <<calls, others, restarts>>
  BY <1>1, <1>2 DEF others
<1>3. CASE Restarted
  <2>1. restarts' = restarts + 1 /\ restarts < MaxRestarts
    BY <1>3 DEF Restarted
  <2>2. restarts' \in 0..MaxRestarts
    BY <1>1, <2>1
  <2> QED
    BY <1>3, <2>2 DEF Restarted
<1> QED
  BY <1>2, <1>3

LEMMA StirringIsQuiet ==
  ASSUME CompatibilityTypeOK, Stirring
  PROVE  /\ Quiet /\ calls' \subseteq calls
         /\ holder' \in {"none", "job", "live"} /\ busy' \in BOOLEAN
         /\ manual' \in {"none", "start", "stop"} /\ restarts' \in 0..MaxRestarts
<1> USE DEF CompatibilityTypeOK
<1>1. CASE BeginLive \/ StartLiveFails \/ BeginJob \/ StartJob \/ JobEnds \/ BeginManual
  BY <1>1 DEF BeginLive, StartLiveFails, BeginJob, StartJob, JobEnds, BeginManual, Quiet
<1>2. CASE ManualEnds
  BY <1>2, ProxyByHand
<1>3. CASE ConsoleRestarts
  BY <1>3, RestartFits DEF ConsoleRestarts, Quiet
<1>4. CASE LockFlow \/ WorkerEnds
  BY <1>4, WorkerQuiet DEF others
<1>5. CASE \E c \in calls : ExecuteLost(c)
  BY <1>5 DEF ExecuteLost, Quiet, others
<1>6. CASE UNCHANGED suiteVars
  BY <1>6 DEF suiteVars, Quiet, documents, testament
<1> QED
  BY <1>1, <1>2, <1>3, <1>4, <1>5, <1>6 DEF Stirring

-----------------------------------------------------------------------------
LEMMA TypesKept ==
  ASSUME CompatibilityTypeOK, [CompatibilityNext]_suiteVars
  PROVE  CompatibilityTypeOK'
<1>0. /\ plan \in Plans \cup {NoPlan} /\ control \in ControlDoc
      /\ reports \in [Runs -> ReportDoc] /\ baseline \in Runs \cup {0}
      /\ calls \subseteq Call /\ proxy \in ProxyStatus
      /\ asked \subseteq Runs \X Scenarios /\ approved \subseteq Runs \X Scenarios
      /\ strayed \subseteq Runs
  BY DEF CompatibilityTypeOK
<1>1. CASE Stirring
  BY <1>0, <1>1, StirringIsQuiet DEF CompatibilityTypeOK, Quiet, documents, testament
<1>2. CASE \E p \in Plans : SavePlan(p)
  <2>1. PICK p \in Plans : SavePlan(p)
    BY <1>2
  <2>2. /\ plan' = p /\ control' \in ControlDoc
        /\ UNCHANGED <<calls, others, restarts>> \/ Restarted
        /\ UNCHANGED <<reports, baseline, proxy, testament>>
    BY <1>0, <2>1, SavingPlan
  <2> QED
    BY <1>0, <2>2, RestartFits DEF CompatibilityTypeOK, testament
<1>3. CASE OfflineCheck
  <2>1. /\ plan \in Plans /\ control' \in ControlDoc
        /\ UNCHANGED <<calls, others, restarts>> \/ Restarted
        /\ UNCHANGED <<plan, baseline, proxy, testament>>
    BY <1>3, Checking
  <2>2. reports' \in [Runs -> ReportDoc]
    <3>1. PICK r \in NewRun :
            \/ reports' = reports
            \/ \E status \in {"passed", "failed"} :
                 reports' = [reports EXCEPT ![r] = NewReport("offline", status)]
      BY <1>3, Checking
    <3> QED
      BY <1>0, <2>1, <3>1, Opening
  <2> QED
    BY <1>0, <2>1, <2>2, RestartFits DEF CompatibilityTypeOK, testament
<1>4. CASE Reset
  <2>1. /\ control' \in ControlDoc
        /\ UNCHANGED <<plan, reports, baseline, calls, proxy, others, restarts, testament>>
    BY <1>4, Resetting
  <2> QED
    BY <1>0, <2>1, RestartFits DEF CompatibilityTypeOK, testament
<1>5. CASE StartLive
  <2>1. /\ plan \in Plans /\ proxy' \in ProxyStatus /\ UNCHANGED <<plan, baseline, testament>>
    BY <1>5, LiveStarting
  <2>2. PICK r \in NewRun :
          \/ /\ reports' = [reports EXCEPT ![r] = NewReport("live", "running")]
             /\ control' \in ControlDoc
             /\ holder' = "none" /\ UNCHANGED <<calls, busy, manual, restarts>>
          \/ /\ \/ reports' = reports
                \/ reports' = [reports EXCEPT ![r] = NewReport("live", "running")]
             /\ UNCHANGED control /\ Restarted
    BY <1>5, LiveStarting
  <2>3. reports' \in [Runs -> ReportDoc]
    BY <1>0, <2>1, <2>2, Opening
  <2>4. control' \in ControlDoc
    BY <1>0, <2>2
  <2>5. /\ calls' \subseteq Call
        /\ holder' \in {"none", "job", "live"} /\ busy' \in BOOLEAN
        /\ manual' \in {"none", "start", "stop"} /\ restarts' \in 0..MaxRestarts
    BY <1>0, <2>2, RestartFits DEF CompatibilityTypeOK
  <2> QED
    BY <1>0, <2>1, <2>3, <2>4, <2>5 DEF CompatibilityTypeOK, testament
<1>6. CASE ConfirmRoom
  <2>1. Turned({"ready_for_action"}) /\ UNCHANGED <<plan, reports, baseline, proxy, testament>>
    BY <1>0, <1>6, Phased DEF ConfirmRoom, LivePhases
  <2> QED
    BY <1>0, <2>1, RestartFits DEF Turned, CompatibilityTypeOK, testament
<1>7. CASE Execute
  <2>1. /\ control.run \in Runs /\ Current \in Scenarios /\ control' \in ControlDoc
        /\ calls' \subseteq Call /\ asked' = asked \cup {Request(control.run, Current)}
        /\ UNCHANGED <<plan, reports, baseline, proxy, others, restarts, approved, strayed>>
    BY <1>7, Executing
  <2> QED
    BY <1>0, <2>1 DEF CompatibilityTypeOK, others, Request
<1>8. CASE \E c \in calls : Arm(c) \/ ReadResult(c) \/ CallFails(c)
  <2>1. Quiet /\ UNCHANGED <<others, restarts>> /\ calls' \subseteq Call
    BY <1>8, Arming
  <2> QED
    BY <1>0, <2>1 DEF CompatibilityTypeOK, Quiet, documents, testament, others
<1>9. CASE \E c \in calls : ExecuteEnds(c)
  <2>1. PICK c \in calls : ExecuteEnds(c)
    BY <1>9
  <2>2. /\ reports' \in [Runs -> ReportDoc] /\ control.run \in Runs
        /\ strayed' = strayed \/ strayed' = strayed \cup {control.run}
        /\ \/ control' \in ControlDoc /\ calls' = calls \ {c} /\ UNCHANGED <<others, restarts>>
           \/ UNCHANGED control /\ Restarted
        /\ UNCHANGED <<plan, baseline, proxy, asked, approved>>
    BY <2>1, EndingCall DEF Edited
  <2>3. /\ calls' \subseteq Call
        /\ holder' \in {"none", "job", "live"} /\ busy' \in BOOLEAN
        /\ manual' \in {"none", "start", "stop"} /\ restarts' \in 0..MaxRestarts
    BY <1>0, <2>2, RestartFits DEF CompatibilityTypeOK, others
  <2> QED
    BY <1>0, <2>2, <2>3 DEF CompatibilityTypeOK
<1>10. CASE \E v \in Verdicts : RecordVerdict(v)
  <2>1. /\ reports' \in [Runs -> ReportDoc] /\ control' \in ControlDoc
        /\ UNCHANGED <<calls, others, restarts>> \/ Restarted
        /\ UNCHANGED <<plan, baseline, proxy, testament>>
    BY <1>0, <1>10, Judging DEF Edited, GoneOn, Turned
  <2> QED
    BY <1>0, <2>1, RestartFits DEF CompatibilityTypeOK, testament
<1>11. CASE SkipCurrent
  <2>1. /\ reports' \in [Runs -> ReportDoc] /\ control' \in ControlDoc
        /\ UNCHANGED <<calls, others, restarts>> \/ Restarted
        /\ UNCHANGED <<plan, baseline, proxy, testament>>
    BY <1>0, <1>11, Skipping DEF Edited, GoneOn
  <2> QED
    BY <1>0, <2>1, RestartFits DEF CompatibilityTypeOK, testament
<1>12. CASE Finish
  <2>1. /\ reports' \in [Runs -> ReportDoc] /\ control' \in ControlDoc
        /\ baseline' \in Runs \cup {0} /\ proxy' \in ProxyStatus
        /\ UNCHANGED <<calls, others, restarts>> \/ Restarted
        /\ UNCHANGED <<plan, testament>>
    BY <1>0, <1>12, Finishing DEF Edited, Turned
  <2> QED
    BY <1>0, <2>1, RestartFits DEF CompatibilityTypeOK, testament
<1>13. CASE \E o \in Outcomes : Answer(o)
  <2>1. /\ proxy' \in ProxyStatus /\ proxy.armed \in Runs \X Scenarios
        /\ approved' = approved \/ approved' = approved \cup {proxy.armed}
        /\ UNCHANGED <<documents, calls, others, restarts, asked, strayed>>
    BY <1>13, Answering
  <2> QED
    BY <1>0, <2>1, RestartFits DEF CompatibilityTypeOK, documents
<1> QED
  BY <1>1, <1>2, <1>3, <1>4, <1>5, <1>6, <1>7, <1>8, <1>9, <1>10, <1>11, <1>12, <1>13, Steps
-----------------------------------------------------------------------------
(* What the host confirmed, in the status, in the calls and in the reports. *)

LEMMA AnswersKept ==
  ASSUME SuiteInv, [CompatibilityNext]_suiteVars
  PROVE  AnswersKnown'
<1>0. /\ CompatibilityTypeOK /\ AnswersKnown
      /\ reports \in [Runs -> ReportDoc] /\ calls \subseteq Call /\ strayed \subseteq Runs
  BY DEF SuiteInv, CompatibilityTypeOK
<1> DEFINE ReportsKnown ==
             \A r \in Runs \ strayed : \A s \in Scenarios :
               reports[r].stage[s] = "network_confirmed" => Request(r, s) \in approved
           CallsKnown ==
             \A c \in calls : c.stage = "network_confirmed" => Request(c.run, c.scenario) \in approved
(* Reports whose stages stay, or are set to something less.                 *)
<1>a. ASSUME strayed' = strayed, approved \subseteq approved',
             \A r \in Runs : \A s \in Scenarios :
               reports'[r].stage[s] = "network_confirmed" =>
                 reports[r].stage[s] = "network_confirmed"
      PROVE  ReportsKnown'
  BY <1>0, <1>a DEF AnswersKnown
<1>b. ASSUME calls' \subseteq calls, approved \subseteq approved'
      PROVE  CallsKnown'
  BY <1>0, <1>b DEF AnswersKnown
<1>c. ASSUME UNCHANGED proxy, approved \subseteq approved'
      PROVE  (proxy.outcome = "network_confirmed" => proxy.last \in approved)'
  BY <1>0, <1>c DEF AnswersKnown
<1>1. CASE Stirring
  <2>1. Quiet /\ calls' \subseteq calls
    BY <1>0, <1>1, StirringIsQuiet
  <2> QED
    BY <1>0, <2>1 DEF AnswersKnown, Quiet, documents, testament
<1>2. CASE \E p \in Plans : SavePlan(p)
  <2>1. calls' \subseteq calls /\ UNCHANGED <<reports, proxy, testament>>
    BY <1>0, <1>2, SavingPlan, RestartFits
  <2> QED
    BY <1>a, <1>b, <1>c, <2>1 DEF AnswersKnown, testament
<1>3. CASE OfflineCheck
  <2>1. calls' \subseteq calls /\ UNCHANGED <<proxy, testament>> /\ plan \in Plans
    BY <1>0, <1>3, Checking, RestartFits
  <2>2. PICK r \in NewRun :
          \/ reports' = reports
          \/ \E status \in {"passed", "failed"} :
               reports' = [reports EXCEPT ![r] = NewReport("offline", status)]
    BY <1>0, <1>3, Checking
  <2>3. \A q \in Runs : \A s \in Scenarios :
          reports'[q].stage[s] = "network_confirmed" => reports[q].stage[s] = "network_confirmed"
    BY <1>0, <2>1, <2>2, Opening
  <2> QED
    BY <1>a, <1>b, <1>c, <2>1, <2>3 DEF AnswersKnown, testament
<1>4. CASE Reset
  BY <1>0, <1>a, <1>b, <1>c, <1>4, Resetting DEF AnswersKnown, testament
<1>5. CASE StartLive
  <2>1. proxy'.outcome = "none" /\ UNCHANGED testament /\ plan \in Plans
    BY <1>0, <1>5, LiveStarting
  <2>2. PICK r \in NewRun :
          \/ /\ reports' = [reports EXCEPT ![r] = NewReport("live", "running")]
             /\ UNCHANGED calls
          \/ /\ \/ reports' = reports
                \/ reports' = [reports EXCEPT ![r] = NewReport("live", "running")]
             /\ Restarted
    BY <1>0, <1>5, LiveStarting
  <2>3. \A q \in Runs : \A s \in Scenarios :
          reports'[q].stage[s] = "network_confirmed" => reports[q].stage[s] = "network_confirmed"
    BY <1>0, <2>1, <2>2, Opening
  <2>4. calls' \subseteq calls
    BY <1>0, <2>2, RestartFits
  <2> QED
    BY <1>a, <1>b, <2>1, <2>3, <2>4 DEF AnswersKnown, testament
<1>6. CASE ConfirmRoom
  <2>1. UNCHANGED <<reports, proxy, testament>> /\ calls' \subseteq calls
    BY <1>0, <1>6, RestartFits DEF ConfirmRoom, Advance, Alive
  <2> QED
    BY <1>a, <1>b, <1>c, <2>1 DEF AnswersKnown, testament
<1>7. CASE Execute
  <2>1. /\ calls' = calls \cup {[run |-> control.run, scenario |-> Current, stage |-> "begun"]}
        /\ UNCHANGED <<reports, proxy, approved, strayed>>
    BY <1>0, <1>7, Executing
  <2>2. CallsKnown'
    BY <1>0, <2>1 DEF AnswersKnown
  <2> QED
    BY <1>a, <1>c, <2>1, <2>2 DEF AnswersKnown
<1>8. CASE \E c \in calls : Arm(c) \/ ReadResult(c) \/ CallFails(c)
  <2>1. PICK c \in calls : Arm(c) \/ ReadResult(c) \/ CallFails(c)
    BY <1>8
  <2>2. PICK stage \in {"armed"} \cup Outcomes \cup Failures :
          /\ calls' = (calls \ {c}) \cup
                      {[run |-> c.run, scenario |-> c.scenario, stage |-> stage]}
          /\ stage = "network_confirmed" =>
               /\ proxy.outcome = "network_confirmed"
               /\ proxy.last = Request(c.run, c.scenario)
    BY <1>0, <2>1, Arming
  <2>3. Quiet
    BY <1>0, <2>1, Arming
  <2>4. CallsKnown'
    BY <1>0, <2>2, <2>3 DEF AnswersKnown, Quiet, testament
  <2> QED
    BY <1>0, <2>3, <2>4 DEF AnswersKnown, Quiet, documents, testament
<1>9. CASE \E c \in calls : ExecuteEnds(c)
  <2>1. PICK c \in calls : ExecuteEnds(c)
    BY <1>9
  <2>2. /\ Edited /\ c \in Call
        /\ \A s \in Scenarios : reports'[control.run].stage[s] =
             IF s = c.scenario THEN c.stage ELSE reports[control.run].stage[s]
        /\ \/ /\ Awaited(c) /\ strayed' = strayed
           \/ /\ ~Awaited(c) /\ strayed' = strayed \cup {control.run}
        /\ UNCHANGED <<proxy, approved>>
    BY <1>0, <2>1, EndingCall
  <2>3. calls' \subseteq calls
    BY <1>0, <2>1, EndingCall, RestartFits
  <2>4. ReportsKnown'
    <3> SUFFICES ASSUME NEW r \in Runs, r \notin strayed', NEW s \in Scenarios,
                        reports'[r].stage[s] = "network_confirmed"
                 PROVE  Request(r, s) \in approved
      BY <2>2
    <3>1. r \notin strayed
      BY <2>2
    <3>2. CASE r # control.run
      BY <1>0, <2>2, <3>1, <3>2 DEF AnswersKnown, Edited
    <3>3. CASE r = control.run
      <4>1. Awaited(c)
        BY <2>2, <3>3
      <4>2. CASE s = c.scenario
        BY <1>0, <2>2, <3>3, <4>1, <4>2 DEF AnswersKnown, Awaited
      <4>3. CASE s # c.scenario
        BY <1>0, <2>2, <3>1, <3>3, <4>3 DEF AnswersKnown
      <4> QED
        BY <4>2, <4>3
    <3> QED
      BY <3>2, <3>3
  <2> QED
    BY <1>b, <1>c, <2>2, <2>3, <2>4 DEF AnswersKnown
<1>10. CASE \E v \in Verdicts : RecordVerdict(v)
  <2>1. /\ Edited /\ reports'[control.run].stage = reports[control.run].stage
        /\ GoneOn \/ Turned({"halted"})
        /\ UNCHANGED <<proxy, testament>>
    BY <1>0, <1>10, Judging
  <2>2. calls' \subseteq calls
    BY <1>0, <2>1, RestartFits DEF GoneOn, Turned
  <2>3. \A r \in Runs : reports'[r].stage = reports[r].stage
    BY <2>1 DEF Edited
  <2> QED
    BY <1>a, <1>b, <1>c, <2>1, <2>2, <2>3 DEF AnswersKnown, testament
<1>11. CASE SkipCurrent
  <2>1. /\ Edited /\ GoneOn /\ UNCHANGED <<proxy, testament>>
        /\ \A s \in Scenarios : reports'[control.run].stage[s] =
             IF s = Current THEN "skipped_by_operator" ELSE reports[control.run].stage[s]
    BY <1>0, <1>11, Skipping
  <2>2. calls' \subseteq calls
    BY <1>0, <2>1, RestartFits DEF GoneOn
  <2>3. \A r \in Runs : \A s \in Scenarios :
          reports'[r].stage[s] = "network_confirmed" => reports[r].stage[s] = "network_confirmed"
    BY <2>1 DEF Edited
  <2> QED
    BY <1>a, <1>b, <1>c, <2>1, <2>2, <2>3 DEF AnswersKnown, testament
<1>12. CASE Finish
  <2>1. /\ UNCHANGED testament /\ Turned({"finished"})
        /\ proxy'.outcome = proxy.outcome /\ proxy'.last = proxy.last
        /\ \A r \in Runs : reports'[r].stage = reports[r].stage
    BY <1>0, <1>12, Finishing DEF Edited
  <2>2. calls' \subseteq calls
    BY <1>0, <2>1, RestartFits DEF Turned
  <2> QED
    BY <1>0, <1>a, <1>b, <2>1, <2>2 DEF AnswersKnown, testament
<1>13. CASE \E o \in Outcomes : Answer(o)
  <2>1. PICK o \in Outcomes : Answer(o)
    BY <1>13
  <2>2. /\ proxy'.last = proxy.armed /\ proxy'.outcome = o
        /\ approved' = IF o = "network_confirmed" THEN approved \cup {proxy.armed} ELSE approved
        /\ UNCHANGED <<documents, calls, strayed>>
    BY <1>0, <2>1, Answering
  <2>3. (proxy.outcome = "network_confirmed" => proxy.last \in approved)'
    BY <2>2
  <2> QED
    BY <1>a, <1>b, <2>2, <2>3 DEF AnswersKnown, documents
<1> QED
  BY <1>1, <1>2, <1>3, <1>4, <1>5, <1>6, <1>7, <1>8, <1>9, <1>10, <1>11, <1>12, <1>13, Steps
-----------------------------------------------------------------------------
(* A report that is written stays written, and keeps its kind and its plan. *)
LEMMA ReportsStay ==
  ASSUME CompatibilityTypeOK, [CompatibilityNext]_suiteVars
  PROVE  \A r \in Runs : Written(r) =>
           /\ Written(r)' /\ reports'[r].mode = reports[r].mode
           /\ reports'[r].enabled = reports[r].enabled
<1>a. ASSUME UNCHANGED reports
      PROVE  \A r \in Runs : Written(r) =>
               /\ Written(r)' /\ reports'[r].mode = reports[r].mode
               /\ reports'[r].enabled = reports[r].enabled
  BY <1>a DEF Written
<1>b. ASSUME Edited
      PROVE  \A r \in Runs : Written(r) =>
               /\ Written(r)' /\ reports'[r].mode = reports[r].mode
               /\ reports'[r].enabled = reports[r].enabled
  BY <1>b DEF Edited, Written
<1>1. CASE Stirring
  BY <1>1, <1>a, StirringIsQuiet DEF Quiet, documents
<1>2. CASE \E p \in Plans : SavePlan(p)
  BY <1>2, <1>a, SavingPlan
<1>3. CASE OfflineCheck
  <2>1. PICK r \in NewRun :
          \/ reports' = reports
          \/ \E status \in {"passed", "failed"} :
               reports' = [reports EXCEPT ![r] = NewReport("offline", status)]
    BY <1>3, Checking
  <2>2. CASE reports' # reports
    <3>1. ~Written(r) /\ \A q \in Runs : q # r => reports'[q] = reports[q]
      BY <1>3, <2>1, <2>2, Checking, Opening
    <3> QED
      BY <3>1 DEF Written
  <2> QED
    BY <1>a, <2>2
<1>4. CASE Reset
  BY <1>4, <1>a, Resetting
<1>5. CASE StartLive
  <2>1. PICK r \in NewRun :
          reports' = reports \/ reports' = [reports EXCEPT ![r] = NewReport("live", "running")]
    BY <1>5, LiveStarting
  <2>2. CASE reports' # reports
    <3>1. ~Written(r) /\ \A q \in Runs : q # r => reports'[q] = reports[q]
      BY <1>5, <2>1, <2>2, LiveStarting, Opening
    <3> QED
      BY <3>1 DEF Written
  <2> QED
    BY <1>a, <2>2
<1>6. CASE ConfirmRoom
  BY <1>6, <1>a DEF ConfirmRoom
<1>7. CASE Execute
  BY <1>7, <1>a, Executing
<1>8. CASE \E c \in calls : Arm(c) \/ ReadResult(c) \/ CallFails(c)
  BY <1>8, <1>a, Arming DEF Quiet, documents
<1>9. CASE \E c \in calls : ExecuteEnds(c)
  BY <1>9, <1>b, EndingCall
<1>10. CASE \E v \in Verdicts : RecordVerdict(v)
  BY <1>10, <1>b, Judging
<1>11. CASE SkipCurrent
  BY <1>11, <1>b, Skipping
<1>12. CASE Finish
  BY <1>12, <1>a, <1>b, Finishing
<1>13. CASE \E o \in Outcomes : Answer(o)
  BY <1>13, <1>a, Answering DEF documents
<1> QED
  BY <1>1, <1>2, <1>3, <1>4, <1>5, <1>6, <1>7, <1>8, <1>9, <1>10, <1>11, <1>12, <1>13, Steps

(* Only execute_current adds a call or a request, only a late result strays *)
(* and only finish changes the baseline.                                    *)
LEMMA HistoryStays ==
  ASSUME CompatibilityTypeOK, [CompatibilityNext]_suiteVars
  PROVE  /\ Execute \/ asked' = asked
         /\ approved \subseteq approved' /\ strayed \subseteq strayed'
         /\ Finish \/ baseline' = baseline
<1>1. CASE Stirring
  BY <1>1, StirringIsQuiet DEF Quiet, documents, testament
<1>2. CASE \E p \in Plans : SavePlan(p)
  BY <1>2, SavingPlan DEF testament
<1>3. CASE OfflineCheck
  BY <1>3, Checking DEF testament
<1>4. CASE Reset
  BY <1>4, Resetting DEF testament
<1>5. CASE StartLive
  BY <1>5, LiveStarting DEF testament
<1>6. CASE ConfirmRoom
  BY <1>6 DEF ConfirmRoom, testament
<1>7. CASE Execute
  BY <1>7, Executing
<1>8. CASE \E c \in calls : Arm(c) \/ ReadResult(c) \/ CallFails(c)
  BY <1>8, Arming DEF Quiet, documents, testament
<1>9. CASE \E c \in calls : ExecuteEnds(c)
  BY <1>9, EndingCall
<1>10. CASE \E v \in Verdicts : RecordVerdict(v)
  BY <1>10, Judging DEF testament
<1>11. CASE SkipCurrent
  BY <1>11, Skipping DEF testament
<1>12. CASE Finish
  BY <1>12, Finishing DEF testament
<1>13. CASE \E o \in Outcomes : Answer(o)
  BY <1>13, Answering DEF documents
<1> QED
  BY <1>1, <1>2, <1>3, <1>4, <1>5, <1>6, <1>7, <1>8, <1>9, <1>10, <1>11, <1>12, <1>13, Steps

(* The calls of a step are calls of before, the call that execute_current   *)
(* begins, or a call of before at its next stage.                           *)
LEMMA CallsStay ==
  ASSUME CompatibilityTypeOK, [CompatibilityNext]_suiteVars
  PROVE  \/ calls' \subseteq calls
         \/ Execute
         \/ \E c \in calls :
              \E stage \in {"armed"} \cup Outcomes \cup Failures :
                /\ calls' = (calls \ {c}) \cup
                            {[run |-> c.run, scenario |-> c.scenario, stage |-> stage]}
                /\ Quiet
<1>1. CASE Stirring
  BY <1>1, StirringIsQuiet
<1>2. CASE \E p \in Plans : SavePlan(p)
  BY <1>2, SavingPlan, RestartFits
<1>3. CASE OfflineCheck
  BY <1>3, Checking, RestartFits
<1>4. CASE Reset
  BY <1>4, Resetting
<1>5. CASE StartLive
  BY <1>5, LiveStarting, RestartFits
<1>6. CASE ConfirmRoom
  BY <1>6, RestartFits DEF ConfirmRoom, Advance, Alive
<1>8. CASE \E c \in calls : Arm(c) \/ ReadResult(c) \/ CallFails(c)
  BY <1>8, Arming
<1>9. CASE \E c \in calls : ExecuteEnds(c)
  BY <1>9, EndingCall, RestartFits
<1>10. CASE \E v \in Verdicts : RecordVerdict(v)
  BY <1>10, Judging, RestartFits DEF GoneOn, Turned
<1>11. CASE SkipCurrent
  BY <1>11, Skipping, RestartFits DEF GoneOn
<1>12. CASE Finish
  BY <1>12, Finishing, RestartFits DEF Turned
<1>13. CASE \E o \in Outcomes : Answer(o)
  BY <1>13, Answering
<1> QED
  BY <1>1, <1>2, <1>3, <1>4, <1>5, <1>6, <1>8, <1>9, <1>10, <1>11, <1>12, <1>13, Steps

LEMMA RunsWrittenKept ==
  ASSUME SuiteInv, [CompatibilityNext]_suiteVars
  PROVE  RunsWritten'
<1>0. /\ CompatibilityTypeOK /\ RunsWritten /\ calls \subseteq Call
      /\ baseline \in Runs \cup {0} /\ asked \subseteq Runs \X Scenarios
  BY DEF SuiteInv, CompatibilityTypeOK
<1>1. \A r \in Runs : Written(r) => Written(r)'
  BY <1>0, ReportsStay
<1>2. \A c \in calls' : Written(c.run)'
  <2>1. \A c \in calls : c.run \in Runs /\ Written(c.run)'
    BY <1>0, <1>1 DEF RunsWritten, Call
  <2>2. CASE Execute
    BY <1>0, <1>1, <2>1, <2>2, Executing
  <2> QED
    BY <1>0, <2>1, <2>2, CallsStay
<1>3. \A r \in Runs, s \in Scenarios : Request(r, s) \in asked' => Written(r)'
  <2>1. CASE Execute
    BY <1>0, <1>1, <2>1, Executing DEF RunsWritten, Request
  <2>2. CASE asked' = asked
    BY <1>0, <1>1, <2>2 DEF RunsWritten
  <2> QED
    BY <1>0, <2>1, <2>2, HistoryStays
<1>4. baseline' # 0 => baseline' \in Runs /\ reports'[baseline'].mode # "none"
  <2>0. \A r \in Runs : Written(r) => reports'[r].mode # "none"
    BY <1>0, <1>1 DEF Written
  <2>1. CASE Finish
    BY <1>0, <2>0, <2>1, Finishing DEF RunsWritten, Edited
  <2>2. CASE baseline' = baseline
    BY <1>0, <2>0, <2>2 DEF RunsWritten
  <2> QED
    BY <1>0, <2>1, <2>2, HistoryStays
<1>5. (baseline # 0 => Written(baseline))'
  BY <1>4 DEF Written
<1> QED
  BY <1>2, <1>3, <1>5 DEF RunsWritten
-----------------------------------------------------------------------------
(* The life of a round: it is opened by start_live, goes on with the same   *)
(* plan, or is over.  Only a late result wakes one that was over.           *)
Opened ==
  /\ ~LiveActive /\ holder = "live" /\ holder' = "none" /\ UNCHANGED <<calls, busy>>
  /\ plan \in Plans \cap Configured /\ control.checked = plan
  /\ UNCHANGED <<plan, testament>>
  /\ \E r \in NewRun :
       /\ reports' = [reports EXCEPT ![r] = NewReport("live", "running")]
       /\ control' = [phase |-> "waiting_for_room", checked |-> control.checked,
                      run |-> r, enabled |-> Enabled[plan], index |-> 0]

GoesOn ==
  /\ plan' = plan /\ control'.run = control.run /\ control'.enabled = control.enabled
  /\ control'.checked = control.checked
  /\ LiveActive \/ control.run \in strayed'

LEMMA RoundStays ==
  ASSUME CompatibilityTypeOK, [CompatibilityNext]_suiteVars
  PROVE  /\ ~LiveActive' \/ GoesOn \/ Opened
         /\ control'.checked \in {control.checked, NoPlan} \cup (Buildable \cap {plan})
<1>a. ASSUME UNCHANGED <<plan, control>>
      PROVE  /\ ~LiveActive' \/ GoesOn
             /\ control'.checked = control.checked
  BY <1>a DEF LiveActive, GoesOn
<1>1. CASE Stirring
  BY <1>a, <1>1, StirringIsQuiet DEF Quiet, documents
<1>2. CASE \E p \in Plans : SavePlan(p)
  <2>1. ~LiveActive' /\ control'.checked \in {control.checked, NoPlan}
    BY <1>2, SavingPlan DEF LiveActive, LivePhases
  <2> QED
    BY <2>1
<1>3. CASE OfflineCheck
  <2>1. ~LiveActive'
    BY <1>3, Checking DEF LiveActive, LivePhases
  <2> QED
    BY <1>3, <2>1, Checking
<1>4. CASE Reset
  BY <1>4, Resetting DEF LiveActive, LivePhases
<1>5. CASE StartLive
  <2>1. /\ ~LiveActive /\ holder = "live" /\ plan \in Plans \cap Configured
        /\ control.checked = plan /\ UNCHANGED <<plan, testament>>
    BY <1>5, LiveStarting
  <2>2. PICK r \in NewRun :
          \/ /\ reports' = [reports EXCEPT ![r] = NewReport("live", "running")]
             /\ control' = [phase |-> "waiting_for_room", checked |-> control.checked,
                            run |-> r, enabled |-> Enabled[plan], index |-> 0]
             /\ holder' = "none" /\ UNCHANGED <<calls, busy>>
          \/ UNCHANGED control
    BY <1>5, LiveStarting
  <2> QED
    BY <1>a, <2>1, <2>2 DEF Opened
<1>6. CASE ConfirmRoom
  <2>1. Turned({"ready_for_action"}) /\ LiveActive /\ UNCHANGED plan
    BY <1>6, Phased DEF ConfirmRoom, LivePhases, LiveActive, CompatibilityTypeOK
  <2> QED
    BY <2>1 DEF Turned, GoesOn
<1>7. CASE Execute
  <2>1. LiveActive
    BY <1>7, Executing DEF LiveActive, LivePhases
  <2> QED
    BY <1>7, <2>1, Executing DEF GoesOn
<1>8. CASE \E c \in calls : Arm(c) \/ ReadResult(c) \/ CallFails(c)
  BY <1>a, <1>8, Arming DEF Quiet, documents
<1>9. CASE \E c \in calls : ExecuteEnds(c)
  <2>1. PICK c \in calls : ExecuteEnds(c)
    BY <1>9
  <2>2. /\ plan' = plan /\ control'.checked = control.checked
        /\ control'.run = control.run /\ control'.enabled = control.enabled
        /\ Awaited(c) \/ control.run \in strayed'
    BY <2>1, EndingCall
  <2>3. Awaited(c) => LiveActive
    BY DEF Awaited, LiveActive, LivePhases
  <2> QED
    BY <2>2, <2>3 DEF GoesOn
<1>10. CASE \E v \in Verdicts : RecordVerdict(v)
  <2>1. /\ LiveActive /\ plan' = plan /\ control'.checked = control.checked
        /\ control'.run = control.run /\ control'.enabled = control.enabled
    BY <1>10, Judging DEF GoneOn, Turned, LiveActive, LivePhases, testament
  <2> QED
    BY <2>1 DEF GoesOn
<1>11. CASE SkipCurrent
  <2>1. /\ LiveActive /\ plan' = plan /\ control'.checked = control.checked
        /\ control'.run = control.run /\ control'.enabled = control.enabled
    BY <1>11, Skipping DEF GoneOn, LiveActive, LivePhases
  <2> QED
    BY <2>1 DEF GoesOn
<1>12. CASE Finish
  <2>1. /\ LiveActive /\ plan' = plan /\ control'.checked = control.checked
        /\ control'.run = control.run /\ control'.enabled = control.enabled
    BY <1>12, Finishing DEF Turned
  <2> QED
    BY <2>1 DEF GoesOn
<1>13. CASE \E o \in Outcomes : Answer(o)
  BY <1>a, <1>13, Answering DEF documents
<1> QED
  BY <1>1, <1>2, <1>3, <1>4, <1>5, <1>6, <1>7, <1>8, <1>9, <1>10, <1>11, <1>12, <1>13, Steps

LEMMA RoundOfPlanKept ==
  ASSUME SuiteInv, [CompatibilityNext]_suiteVars
  PROVE  RoundOfPlan'
<1>0. CompatibilityTypeOK /\ RoundOfPlan
  BY DEF SuiteInv
<1>1. control'.checked \in Buildable \cup {NoPlan}
  BY <1>0, RoundStays DEF RoundOfPlan
<1>2. ASSUME Sound'
      PROVE  /\ plan' \in Buildable \cap Configured /\ control'.checked = plan'
             /\ control'.enabled = Enabled[plan']
             /\ control'.run \in Runs /\ reports'[control'.run].mode = "live"
             /\ reports'[control'.run].enabled = EnabledIn(plan')
  <2>1. CASE GoesOn
    <3>1. Sound /\ plan' = plan /\ control'.run = control.run
          /\ control'.enabled = control.enabled /\ control'.checked = control.checked
      BY <1>0, <1>2, <2>1, HistoryStays DEF Sound, GoesOn
    <3>2. Written(control.run) /\ control.run \in Runs
      BY <1>0, <3>1 DEF RoundOfPlan, Written
    <3>3. /\ reports'[control.run].mode = reports[control.run].mode
          /\ reports'[control.run].enabled = reports[control.run].enabled
      BY <1>0, <3>2, ReportsStay
    <3> QED
      BY <1>0, <3>1, <3>2, <3>3 DEF RoundOfPlan
  <2>2. CASE Opened
    <3>1. PICK r \in NewRun :
            /\ reports' = [reports EXCEPT ![r] = NewReport("live", "running")]
            /\ control' = [phase |-> "waiting_for_room", checked |-> control.checked,
                           run |-> r, enabled |-> Enabled[plan], index |-> 0]
      BY <2>2 DEF Opened
    <3>2. /\ control'.run = r /\ control'.enabled = Enabled[plan]
          /\ control'.checked = control.checked
      BY <3>1
    <3>3. plan \in Plans \cap Configured /\ control.checked = plan /\ plan' = plan
      BY <2>2 DEF Opened
    <3>4. /\ r \in Runs /\ reports'[r].mode = "live"
          /\ reports'[r].enabled = EnabledIn(plan)
      BY <1>0, <3>1, <3>3, Opening
    <3>5. plan \in Buildable
      BY <1>0, <3>3, CompatibilityAssumption DEF RoundOfPlan
    <3> QED
      BY <3>2, <3>3, <3>4, <3>5
  <2>3. LiveActive'
    BY <1>2 DEF Sound
  <2> QED
    BY <1>0, <2>1, <2>2, <2>3, RoundStays
<1>3. EnabledIn(plan') = EnabledIn(plan)'
  BY DEF EnabledIn
<1> QED
  BY <1>1, <1>2, <1>3 DEF RoundOfPlan
-----------------------------------------------------------------------------
(* Jobs and rounds: only a step that leaves the documents alone begins a    *)
(* job, and who holds the conversation lock is told apart.                  *)
LEMMA JobsStay ==
  ASSUME CompatibilityTypeOK, [CompatibilityNext]_suiteVars
  PROVE  \/ Stirring
         \/ (busy' => busy) /\ (holder' = "none" \/ holder' = holder)
<1>2. CASE \E p \in Plans : SavePlan(p)
  BY <1>2, SavingPlan, RestartFits
<1>3. CASE OfflineCheck
  BY <1>3, Checking, RestartFits
<1>4. CASE Reset
  BY <1>4, Resetting, RestartFits
<1>5. CASE StartLive
  <2>1. \/ holder' = "none" /\ UNCHANGED busy
        \/ Restarted
    BY <1>5, LiveStarting
  <2> QED
    BY <2>1, RestartFits
<1>6. CASE ConfirmRoom
  BY <1>6, RestartFits DEF ConfirmRoom, Advance, Alive
<1>7. CASE Execute
  BY <1>7, Executing DEF others
<1>8. CASE \E c \in calls : Arm(c) \/ ReadResult(c) \/ CallFails(c)
  BY <1>8, Arming DEF others
<1>9. CASE \E c \in calls : ExecuteEnds(c)
  BY <1>9, EndingCall, RestartFits DEF others
<1>10. CASE \E v \in Verdicts : RecordVerdict(v)
  BY <1>10, Judging, RestartFits DEF GoneOn, Turned
<1>11. CASE SkipCurrent
  BY <1>11, Skipping, RestartFits DEF GoneOn
<1>12. CASE Finish
  BY <1>12, Finishing, RestartFits DEF Turned
<1>13. CASE \E o \in Outcomes : Answer(o)
  BY <1>13, Answering DEF others
<1> QED
  BY <1>2, <1>3, <1>4, <1>5, <1>6, <1>7, <1>8, <1>9, <1>10, <1>11, <1>12, <1>13, Steps

LEMMA JobsKept ==
  ASSUME SuiteInv, [CompatibilityNext]_suiteVars
  PROVE  JobsApart' /\ JobsExcluded'
<1>0. CompatibilityTypeOK /\ JobsApart /\ JobsExcluded
  BY DEF SuiteInv
<1>1. CASE Stirring
  <2>1. LiveActive' = LiveActive /\ control' = control /\ strayed' = strayed
    BY <1>0, <1>1, StirringIsQuiet DEF Quiet, documents, testament, LiveActive
  <2>2. \/ holder' = "none" /\ (busy' => busy)
        \/ holder' = holder /\ (busy' => busy)
        \/ holder = "none" /\ holder' = "live" /\ ~busy'
        \/ holder' = "job" /\ ~LiveActive /\ busy' = busy
        \/ holder = "job" /\ holder' = "none" /\ busy'
    <3>1. CASE BeginLive
      BY <3>1 DEF BeginLive, LiveMayBegin
    <3>2. CASE StartLiveFails \/ JobEnds \/ BeginManual \/ StartJob \/ BeginJob
      BY <3>2 DEF StartLiveFails, JobEnds, BeginManual, StartJob, BeginJob
    <3>3. CASE ManualEnds \/ LockFlow \/ WorkerEnds
      BY <3>3 DEF ManualEnds, LockFlow, WorkerEnds, others
    <3>4. CASE ConsoleRestarts
      BY <3>4 DEF ConsoleRestarts, Restarted
    <3>5. CASE (\E c \in calls : ExecuteLost(c)) \/ UNCHANGED suiteVars
      BY <3>5 DEF ExecuteLost, others, suiteVars
    <3> QED
      BY <1>1, <3>1, <3>2, <3>3, <3>4, <3>5 DEF Stirring
  <2> QED
    BY <1>0, <2>1, <2>2 DEF JobsApart, JobsExcluded
<1>2. CASE (busy' => busy) /\ (holder' = "none" \/ holder' = holder)
  <2>1. CASE ~LiveActive'
    BY <1>0, <1>2, <2>1 DEF JobsApart, JobsExcluded
  <2>2. CASE GoesOn
    <3>1. strayed \subseteq strayed'
      BY <1>0, HistoryStays
    <3> QED
      BY <1>0, <1>2, <2>2, <3>1 DEF JobsApart, JobsExcluded, GoesOn
  <2>3. CASE Opened
    BY <1>0, <1>2, <2>3 DEF JobsApart, JobsExcluded, Opened
  <2> QED
    BY <1>0, <2>1, <2>2, <2>3, RoundStays
<1> QED
  BY <1>0, <1>1, <1>2, JobsStay

LEMMA PassedKept ==
  ASSUME SuiteInv, [CompatibilityNext]_suiteVars
  PROVE  PassedIsEarned'
<1>0. /\ CompatibilityTypeOK /\ AnswersKnown /\ PassedIsEarned /\ RunsWritten
      /\ reports \in [Runs -> ReportDoc]
  BY DEF SuiteInv, CompatibilityTypeOK
<1>1. /\ approved \subseteq approved' /\ strayed \subseteq strayed'
  BY <1>0, HistoryStays
(* A report that was written keeps what it has earned.                      *)
<1>2. ASSUME NEW r \in Runs, Written(r), Earned(r)
      PROVE  Earned(r)'
  BY <1>0, <1>1, <1>2, ReportsStay DEF Earned
<1>3. ASSUME NEW r \in Runs, r \notin strayed, AllSucceeded(reports[r])
      PROVE  Earned(r)
  <2>1. reports[r].enabled \subseteq Scenarios
    BY <1>0 DEF ReportDoc
  <2>2. \A s \in reports[r].enabled : reports[r].stage[s] = "network_confirmed"
    BY <1>3 DEF AllSucceeded, Succeeded
  <2> QED
    BY <1>0, <1>3, <2>1, <2>2 DEF AnswersKnown, Earned
<1>4. SUFFICES ASSUME NEW r \in Runs, r \notin strayed',
                      (reports'[r].mode = "live" /\ reports'[r].status = "passed") \/ baseline' = r
               PROVE  Earned(r)'
  BY DEF PassedIsEarned
<1>5. r \notin strayed
  BY <1>1, <1>4
<1>6. baseline = r => Written(r)
  <2>1. r # 0
    BY RunIsNumber
  <2> QED
    BY <1>0, <2>1 DEF RunsWritten
<1>7. CASE Finish
  <2>1. CASE ~Written(control.run) /\ UNCHANGED <<reports, baseline>>
    BY <1>0, <1>2, <1>4, <1>5, <1>6, <2>1 DEF PassedIsEarned, Written
  <2>2. CASE /\ Edited /\ Written(control.run)
             /\ reports'[control.run].status = "passed" => AllSucceeded(reports[control.run])
             /\ \/ baseline' = baseline
                \/ baseline' = control.run /\ AllSucceeded(reports[control.run])
    <3>1. CASE r = control.run
      BY <1>0, <1>2, <1>3, <1>4, <1>5, <2>2, <3>1 DEF PassedIsEarned
    <3>2. CASE r # control.run
      <4>1. reports'[r] = reports[r]
        BY <2>2, <3>2 DEF Edited
      <4> QED
        BY <1>0, <1>2, <1>4, <1>5, <1>6, <2>2, <3>2, <4>1 DEF PassedIsEarned, Written
    <3> QED
      BY <3>1, <3>2
  <2> QED
    BY <1>0, <1>7, <2>1, <2>2, Finishing
<1>8. CASE ~Finish
  <2>1. baseline' = baseline
    BY <1>0, <1>8, HistoryStays
  <2>2. ASSUME baseline # r
        PROVE  /\ Written(r) /\ reports[r].mode = "live" /\ reports[r].status = "passed"
    <3>1. reports'[r].mode = "live" /\ reports'[r].status = "passed"
      BY <1>4, <2>1, <2>2
    <3>2. reports'[r].mode = reports[r].mode /\ reports'[r].status = reports[r].status
      <4> SUFFICES ASSUME reports' # reports PROVE
                     reports'[r].mode = reports[r].mode /\ reports'[r].status = reports[r].status
        OBVIOUS
      <4>1. CASE Stirring
        BY <1>0, <4>1, StirringIsQuiet DEF Quiet, documents
      <4>2. CASE OfflineCheck
        <5>1. plan \in Plans
          BY <1>0, <4>2, Checking
        <5>2. PICK q \in NewRun : \E status \in {"passed", "failed"} :
                reports' = [reports EXCEPT ![q] = NewReport("offline", status)]
          BY <1>0, <4>2, Checking
        <5>3. reports'[q].mode = "offline" /\ (q # r => reports'[r] = reports[r])
          BY <1>0, <5>1, <5>2, Opening
        <5> QED
          BY <3>1, <5>3
      <4>3. CASE StartLive
        <5>1. plan \in Plans
          BY <1>0, <4>3, LiveStarting
        <5>2. PICK q \in NewRun : reports' = [reports EXCEPT ![q] = NewReport("live", "running")]
          BY <1>0, <4>3, LiveStarting
        <5>3. reports'[q].status = "running" /\ (q # r => reports'[r] = reports[r])
          BY <1>0, <5>1, <5>2, Opening
        <5> QED
          BY <3>1, <5>3
      <4>4. CASE \E c \in calls : Arm(c) \/ ReadResult(c) \/ CallFails(c)
        BY <1>0, <4>4, Arming DEF Quiet, documents
      <4>5. CASE \E c \in calls : ExecuteEnds(c)
        BY <1>0, <4>5, EndingCall DEF Edited
      <4>6. CASE \E v \in Verdicts : RecordVerdict(v)
        BY <1>0, <4>6, Judging DEF Edited
      <4>7. CASE SkipCurrent
        BY <1>0, <4>7, Skipping DEF Edited
      <4>8. CASE (\E p \in Plans : SavePlan(p)) \/ Reset \/ ConfirmRoom \/ Execute
        BY <1>0, <4>8, SavingPlan, Resetting, Executing DEF ConfirmRoom
      <4>9. CASE \E o \in Outcomes : Answer(o)
        BY <1>0, <4>9, Answering DEF documents
      <4> QED
        BY <1>8, <4>1, <4>2, <4>3, <4>4, <4>5, <4>6, <4>7, <4>8, <4>9, Steps
    <3> QED
      BY <3>1, <3>2 DEF Written
  <2> QED
    BY <1>0, <1>2, <1>4, <1>5, <1>6, <2>1, <2>2 DEF PassedIsEarned
<1> QED
  BY <1>7, <1>8
-----------------------------------------------------------------------------
(* The order of a round.                                                    *)

LEMMA CallsKept ==
  ASSUME SuiteInv, [CompatibilityNext]_suiteVars
  PROVE  CallsOfRound'
<1>0. /\ CompatibilityTypeOK /\ CallsOfRound /\ RunsWritten /\ calls \subseteq Call
      /\ strayed \subseteq strayed'
  BY HistoryStays DEF SuiteInv, CompatibilityTypeOK
<1>1. CASE Execute
  <2> DEFINE e == [run |-> control.run, scenario |-> Current, stage |-> "begun"]
  <2>1. /\ control.phase = "ready_for_action" /\ calls' = calls \cup {e}
        /\ control'.phase = "executing_action" /\ control'.run = control.run
        /\ control'.enabled = control.enabled /\ control'.index = control.index
        /\ strayed' = strayed
    BY <1>0, <1>1, Executing
  <2>2. e.run = control.run /\ e.scenario = Current
    OBVIOUS
  <2>3. Current' = Current
    BY <2>1 DEF Current
  <2>4. control.run \notin strayed => \A c \in calls : c.run # control.run
    BY <1>0, <2>1 DEF CallsOfRound, Sound, LiveActive, LivePhases
  <2> HIDE DEF e
  <2>5. \A c, d \in calls' : c.run = d.run /\ c.run \notin strayed' => c = d
    BY <1>0, <2>1, <2>2, <2>4 DEF CallsOfRound
  <2>6. Sound' => \A c \in calls' : c.run = control'.run =>
          control'.phase = "executing_action" /\ c.scenario = Current'
    BY <2>1, <2>2, <2>3, <2>4 DEF Sound
  <2> QED
    BY <2>5, <2>6 DEF CallsOfRound
<1>2. ASSUME NEW c \in calls, NEW stage \in {"armed"} \cup Outcomes \cup Failures,
             calls' = (calls \ {c}) \cup
                      {[run |-> c.run, scenario |-> c.scenario, stage |-> stage]},
             Quiet
      PROVE  CallsOfRound'
  <2> DEFINE e == [run |-> c.run, scenario |-> c.scenario, stage |-> stage]
  <2>1. e.run = c.run /\ e.scenario = c.scenario /\ calls' = (calls \ {c}) \cup {e}
    BY <1>2
  <2>2. control' = control /\ strayed' = strayed /\ Current' = Current /\ Sound' = Sound
    BY <1>2 DEF Quiet, documents, testament, Current, Sound, LiveActive
  <2> HIDE DEF e
  <2>3. \A d, f \in calls' : d.run = f.run /\ d.run \notin strayed' => d = f
    BY <1>0, <2>1, <2>2 DEF CallsOfRound
  <2>4. Sound' => \A d \in calls' : d.run = control'.run =>
          control'.phase = "executing_action" /\ d.scenario = Current'
    BY <1>0, <2>1, <2>2 DEF CallsOfRound
  <2> QED
    BY <2>3, <2>4 DEF CallsOfRound
<1>3. CASE calls' \subseteq calls /\ ~Execute
  <2>1. \A c, d \in calls' : c.run = d.run /\ c.run \notin strayed' => c = d
    BY <1>0, <1>3 DEF CallsOfRound
  <2>2. SUFFICES ASSUME Sound', NEW c \in calls', c.run = control'.run
                 PROVE  control'.phase = "executing_action" /\ c.scenario = Current'
    BY <2>1 DEF CallsOfRound
  <2>3. c \in calls
    BY <1>3
  <2>4. CASE Opened
    <3>1. PICK r \in NewRun :
            control' = [phase |-> "waiting_for_room", checked |-> control.checked,
                        run |-> r, enabled |-> Enabled[plan], index |-> 0]
      BY <2>4 DEF Opened
    <3>2. control'.run = r /\ ~Written(r)
      BY <3>1 DEF NewRun
    <3> QED
      BY <1>0, <2>2, <2>3, <3>2 DEF RunsWritten
  <2>5. CASE GoesOn
    <3>1. Sound /\ c.run = control.run
      BY <1>0, <2>2, <2>5 DEF Sound, GoesOn
    <3>2. control.phase = "executing_action" /\ c.scenario = Current
      BY <1>0, <2>3, <3>1 DEF CallsOfRound
    <3>3. ASSUME control' = control
          PROVE  control'.phase = "executing_action" /\ c.scenario = Current'
      BY <3>2, <3>3 DEF Current
    <3>4. CASE Stirring
      BY <1>0, <3>3, <3>4, StirringIsQuiet DEF Quiet, documents
    <3>5. CASE (\E p \in Plans : SavePlan(p)) \/ OfflineCheck \/ StartLive
      BY <1>0, <3>1, <3>5, SavingPlan, Checking, LiveStarting DEF Sound
    <3>6. CASE Reset
      BY <1>0, <2>2, <3>6, Resetting DEF Sound, LiveActive, LivePhases
    <3>7. CASE ConfirmRoom
      BY <3>2, <3>7 DEF ConfirmRoom
    <3>8. CASE \E d \in calls : Arm(d) \/ ReadResult(d) \/ CallFails(d)
      BY <1>0, <3>3, <3>8, Arming DEF Quiet, documents
    <3>9. CASE \E d \in calls : ExecuteEnds(d)
      <4>1. PICK d \in calls : ExecuteEnds(d)
        BY <3>9
      <4>2. /\ Awaited(d) \/ control.run \in strayed'
            /\ control'.run = control.run
            /\ calls' = calls \ {d} \/ calls' = {}
        BY <1>0, <4>1, EndingCall DEF Restarted
      <4>3. d.run = c.run
        BY <2>2, <3>1, <4>2 DEF Sound, Awaited
      <4>4. d = c
        BY <1>0, <2>3, <3>1, <4>1, <4>3 DEF CallsOfRound, Sound
      <4> QED
        BY <2>2, <4>2, <4>4
    <3>10. CASE \E v \in Verdicts : RecordVerdict(v)
      BY <1>0, <3>2, <3>10, Judging
    <3>11. CASE SkipCurrent
      BY <1>0, <3>2, <3>11, Skipping
    <3>12. CASE Finish
      <4>1. control'.phase = "finished" \/ calls' = {}
        BY <1>0, <3>12, Finishing DEF Turned, Restarted
      <4> QED
        BY <2>2, <4>1 DEF Sound, LiveActive, LivePhases
    <3>13. CASE \E o \in Outcomes : Answer(o)
      BY <1>0, <3>3, <3>13, Answering DEF documents
    <3> QED
      BY <1>3, <3>4, <3>5, <3>6, <3>7, <3>8, <3>9, <3>10, <3>11, <3>12, <3>13, Steps
  <2>6. LiveActive'
    BY <2>2 DEF Sound
  <2> QED
    BY <1>0, <2>4, <2>5, <2>6, RoundStays
<1> QED
  BY <1>0, <1>1, <1>2, <1>3, CallsStay

(* The scenarios behind the current one are others.                         *)
LEMMA Distinct ==
  ASSUME SuiteInv, Sound, HasCurrent
  PROVE  /\ control.index \in Nat /\ control.index + 1 <= Len(control.enabled)
         /\ \A i \in 1..control.index :
              control.enabled[i] # Current /\ control.enabled[i] \in Scenarios
<1>1. /\ control.enabled = Enabled[plan] /\ plan \in Plans
      /\ control.index \in Nat /\ control.index < Len(control.enabled)
      /\ control.enabled \in Seq(Scenarios)
  BY CompatibilityAssumption
     DEF SuiteInv, RoundOfPlan, CompatibilityTypeOK, ControlDoc, HasCurrent
<1>2. \A i, j \in DOMAIN control.enabled : control.enabled[i] = control.enabled[j] => i = j
  BY <1>1, CompatibilityAssumption
<1>3. DOMAIN control.enabled = 1..Len(control.enabled) /\ Len(control.enabled) \in Nat
  BY <1>1
<1> QED
  BY <1>1, <1>2, <1>3 DEF Current
LEMMA OrderKept ==
  ASSUME SuiteInv, [CompatibilityNext]_suiteVars
  PROVE  RoundInOrder'
<1>0. /\ CompatibilityTypeOK /\ RoundInOrder /\ RunsWritten
      /\ strayed \subseteq strayed' /\ control \in ControlDoc
      /\ asked \subseteq Runs \X Scenarios
  BY HistoryStays DEF SuiteInv, CompatibilityTypeOK
<1>1. SUFFICES ASSUME Sound'
               PROVE  /\ Begun' <= Len(control'.enabled)
                      /\ \A i \in 1..control'.index :
                           Passable(reports'[control'.run], control'.enabled[i])
                      /\ \A s \in Scenarios : Request(control'.run, s) \in asked' =>
                           \E i \in 1..Begun' : control'.enabled[i] = s
  BY DEF RoundInOrder
<1>2. CASE Opened
  <2>1. PICK r \in NewRun :
          control' = [phase |-> "waiting_for_room", checked |-> control.checked,
                      run |-> r, enabled |-> Enabled[plan], index |-> 0]
    BY <1>2 DEF Opened
  <2>2. /\ r \in Runs /\ ~Written(r) /\ control'.run = r /\ control'.index = 0
        /\ control'.enabled = Enabled[plan] /\ control'.phase = "waiting_for_room"
    BY <2>1 DEF NewRun
  <2>3. asked' = asked /\ plan \in Plans
    BY <1>2 DEF Opened, testament
  <2>4. \A s \in Scenarios : Request(r, s) \notin asked
    BY <1>0, <2>2 DEF RunsWritten
  <2>5. Begun' = 0
    BY <2>2 DEF Begun
  <2>6. Len(Enabled[plan]) \in Nat
    BY <2>3, EnabledFits
  <2> QED
    BY <2>2, <2>3, <2>4, <2>5, <2>6
<1>3. CASE GoesOn
  <2>1. Sound /\ control'.run = control.run /\ control'.enabled = control.enabled
    BY <1>0, <1>1, <1>3 DEF Sound, GoesOn
  <2>2. /\ Begun <= Len(control.enabled)
        /\ \A i \in 1..control.index : Passable(reports[control.run], control.enabled[i])
        /\ \A s \in Scenarios : Request(control.run, s) \in asked =>
             \E i \in 1..Begun : control.enabled[i] = s
    BY <1>0, <2>1 DEF RoundInOrder
  <2>3. control.run \in Runs
    BY <2>1 DEF SuiteInv, RoundOfPlan
  (* Steps that keep the place in the round.                                *)
  <2>a. ASSUME control'.index = control.index, Begun' = Begun, asked' = asked,
               \A i \in 1..control.index :
                 Passable(reports[control.run], control.enabled[i]) =>
                   Passable(reports'[control.run], control.enabled[i])
        PROVE  /\ Begun' <= Len(control'.enabled)
               /\ \A i \in 1..control'.index :
                    Passable(reports'[control'.run], control'.enabled[i])
               /\ \A s \in Scenarios : Request(control'.run, s) \in asked' =>
                    \E i \in 1..Begun' : control'.enabled[i] = s
    BY <2>1, <2>2, <2>a
  <2>b. ASSUME control' = control, UNCHANGED <<reports, asked>>
        PROVE  /\ Begun' <= Len(control'.enabled)
               /\ \A i \in 1..control'.index :
                    Passable(reports'[control'.run], control'.enabled[i])
               /\ \A s \in Scenarios : Request(control'.run, s) \in asked' =>
                    \E i \in 1..Begun' : control'.enabled[i] = s
    <3>1. Begun' = Begun
      BY <2>b DEF Begun
    <3> QED
      BY <2>a, <2>b, <3>1
  <2>4. CASE Stirring
    BY <1>0, <2>b, <2>4, StirringIsQuiet DEF Quiet, documents, testament
  <2>5. CASE (\E p \in Plans : SavePlan(p)) \/ OfflineCheck \/ StartLive
    BY <1>0, <2>1, <2>5, SavingPlan, Checking, LiveStarting DEF Sound
  <2>6. CASE Reset
    BY <1>0, <1>1, <2>6, Resetting DEF Sound, LiveActive, LivePhases
  <2>7. CASE ConfirmRoom
    <3>1. /\ control.phase = "waiting_for_room" /\ UNCHANGED <<reports, testament>>
          /\ Turned({"ready_for_action"})
      BY <1>0, <2>7, Phased DEF ConfirmRoom, LivePhases
    <3>2. control'.index = control.index /\ Begun' = Begun
      BY <3>1 DEF Turned, Begun
    <3> QED
      BY <2>a, <3>1, <3>2 DEF testament
  <2>8. CASE Execute
    <3>1. /\ control.phase = "ready_for_action" /\ HasCurrent /\ Current \in Scenarios
          /\ control'.phase = "executing_action" /\ control'.index = control.index
          /\ asked' = asked \cup {Request(control.run, Current)} /\ reports' = reports
      BY <1>0, <2>8, Executing
    <3>2. Begun = control.index /\ Begun' = control.index + 1
      BY <3>1 DEF Begun
    <3>3. control.index \in Nat /\ control.index + 1 <= Len(control.enabled)
      BY <2>1, <3>1, Distinct
    <3>4. \A s \in Scenarios : Request(control.run, s) \in asked' =>
            s = Current \/ Request(control.run, s) \in asked
      BY <3>1 DEF Request
    <3>5. \A s \in Scenarios : Request(control.run, s) \in asked' =>
            \E i \in 1..(control.index + 1) : control.enabled[i] = s
      <4>1. control.index + 1 \in 1..(control.index + 1) /\ Current = control.enabled[control.index + 1]
        BY <3>3 DEF Current
      <4>2. \A i \in 1..control.index : i \in 1..(control.index + 1)
        BY <3>3
      <4> QED
        BY <2>2, <3>2, <3>4, <4>1, <4>2
    <3> QED
      BY <2>1, <2>2, <3>1, <3>2, <3>3, <3>5
  <2>9. CASE \E c \in calls : Arm(c) \/ ReadResult(c) \/ CallFails(c)
    BY <1>0, <2>b, <2>9, Arming DEF Quiet, documents, testament
  <2>10. CASE \E c \in calls : ExecuteEnds(c)
    <3>1. PICK c \in calls : ExecuteEnds(c)
      BY <2>10
    <3>2. /\ Awaited(c) /\ asked' = asked
          /\ reports'[control.run].verdict = reports[control.run].verdict
          /\ \A s \in Scenarios : reports'[control.run].stage[s] =
               IF s = c.scenario THEN c.stage ELSE reports[control.run].stage[s]
          /\ \/ control'.phase = "awaiting_operator_verdict" /\ control'.index = control.index
             \/ control' = control
      BY <1>0, <1>1, <2>1, <3>1, EndingCall DEF Sound
    <3>3. control.phase = "executing_action" /\ HasCurrent /\ c.scenario = Current
      BY <3>2 DEF Awaited
    <3>4. \A i \in 1..control.index :
            control.enabled[i] # Current /\ control.enabled[i] \in Scenarios
      BY <2>1, <3>3, Distinct
    <3>5. \A i \in 1..control.index :
            Passable(reports[control.run], control.enabled[i]) =>
              Passable(reports'[control.run], control.enabled[i])
      BY <3>2, <3>3, <3>4 DEF Passable
    <3>6. control'.index = control.index /\ Begun' = Begun
      BY <3>2, <3>3 DEF Begun
    <3> QED
      BY <2>a, <3>2, <3>5, <3>6
  <2>11. CASE \E v \in Verdicts : RecordVerdict(v)
    <3>1. PICK v \in Verdicts : RecordVerdict(v)
      BY <2>11
    <3>2. /\ HasCurrent /\ Current \in Scenarios /\ control.phase = "awaiting_operator_verdict"
          /\ reports'[control.run].stage = reports[control.run].stage
          /\ \A s \in Scenarios : reports'[control.run].verdict[s] =
               IF s = Current THEN v ELSE reports[control.run].verdict[s]
          /\ \/ GoneOn /\ Succeeded(reports[control.run].stage[Current], v)
             \/ Turned({"halted"})
          /\ asked' = asked
      BY <1>0, <3>1, Judging DEF testament
    <3>3. /\ control.index \in Nat /\ control.index + 1 <= Len(control.enabled)
          /\ \A i \in 1..control.index :
               control.enabled[i] # Current /\ control.enabled[i] \in Scenarios
      BY <2>1, <3>2, Distinct
    <3>4. \A i \in 1..control.index :
            Passable(reports[control.run], control.enabled[i]) =>
              Passable(reports'[control.run], control.enabled[i])
      BY <3>2, <3>3 DEF Passable
    <3>5. Begun = control.index + 1
      BY <3>2 DEF Begun
    <3>6. CASE control'.index = control.index /\ control'.phase \in {"awaiting_operator_verdict", "halted"}
      <4>1. Begun' = Begun
        BY <3>5, <3>6 DEF Begun
      <4> QED
        BY <2>a, <3>2, <3>4, <3>6, <4>1
    <3>7. CASE /\ control'.index = control.index + 1
               /\ control'.phase \in {"completed", "ready_for_action"}
               /\ Succeeded(reports[control.run].stage[Current], v)
      <4>1. Begun' = Begun
        BY <3>5, <3>7 DEF Begun
      <4>2. Passable(reports'[control.run], Current)
        BY <3>2, <3>7 DEF Passable, Succeeded
      <4>3. \A i \in 1..(control.index + 1) : i \in 1..control.index \/ i = control.index + 1
        BY <3>3
      <4>4. \A i \in 1..(control.index + 1) : Passable(reports'[control.run], control.enabled[i])
        BY <2>2, <3>4, <4>2, <4>3 DEF Current
      <4> QED
        BY <2>1, <2>2, <3>2, <3>7, <4>1, <4>4
    <3> QED
      BY <3>2, <3>6, <3>7 DEF GoneOn, Turned
  <2>12. CASE SkipCurrent
    <3>1. /\ HasCurrent /\ Current \in Scenarios /\ control.phase = "ready_for_action"
          /\ \A s \in Scenarios : reports'[control.run].stage[s] =
               IF s = Current THEN "skipped_by_operator" ELSE reports[control.run].stage[s]
          /\ \A s \in Scenarios : s # Current =>
               reports'[control.run].verdict[s] = reports[control.run].verdict[s]
          /\ GoneOn /\ asked' = asked
      BY <1>0, <2>12, Skipping DEF testament
    <3>2. /\ control.index \in Nat /\ control.index + 1 <= Len(control.enabled)
          /\ \A i \in 1..control.index :
               control.enabled[i] # Current /\ control.enabled[i] \in Scenarios
      BY <2>1, <3>1, Distinct
    <3>3. \A i \in 1..control.index :
            Passable(reports[control.run], control.enabled[i]) =>
              Passable(reports'[control.run], control.enabled[i])
      BY <3>1, <3>2 DEF Passable
    <3>4. Begun = control.index
      BY <3>1 DEF Begun
    <3>5. CASE control' = control
      <4>1. Begun' = Begun
        BY <3>5 DEF Begun
      <4> QED
        BY <2>a, <3>1, <3>3, <3>5, <4>1
    <3>6. CASE /\ control'.index = control.index + 1
               /\ control'.phase \in {"completed", "ready_for_action"}
      <4>1. Begun' = control.index + 1
        BY <3>6 DEF Begun
      <4>2. Passable(reports'[control.run], Current)
        BY <3>1 DEF Passable
      <4>3. \A i \in 1..(control.index + 1) : i \in 1..control.index \/ i = control.index + 1
        BY <3>2
      <4>4. \A i \in 1..(control.index + 1) : Passable(reports'[control.run], control.enabled[i])
        BY <2>2, <3>3, <4>2, <4>3 DEF Current
      <4>5. \A i \in 1..control.index : i \in 1..(control.index + 1)
        BY <3>2
      <4> QED
        BY <2>1, <2>2, <3>1, <3>2, <3>4, <3>6, <4>1, <4>4, <4>5
    <3> QED
      BY <3>1, <3>5, <3>6 DEF GoneOn
  <2>13. CASE Finish
    <3>1. /\ reports' = reports \/ (/\ reports'[control.run].stage = reports[control.run].stage
                                    /\ reports'[control.run].verdict = reports[control.run].verdict)
          /\ Turned({"finished"}) /\ UNCHANGED testament
      BY <1>0, <2>13, Finishing
    <3>2. control' = control
      BY <1>1, <3>1 DEF Turned, Sound, LiveActive, LivePhases
    <3>3. Begun' = Begun
      BY <3>2 DEF Begun
    <3> QED
      BY <2>a, <3>1, <3>2, <3>3 DEF Passable, testament
  <2>14. CASE \E o \in Outcomes : Answer(o)
    BY <1>0, <2>b, <2>14, Answering DEF documents
  <2> QED
    BY <2>4, <2>5, <2>6, <2>7, <2>8, <2>9, <2>10, <2>11, <2>12, <2>13, <2>14, Steps
<1>4. LiveActive'
  BY <1>1 DEF Sound
<1> QED
  BY <1>0, <1>2, <1>3, <1>4, RoundStays

-----------------------------------------------------------------------------
LEMMA SuiteInit == CompatibilityInit => SuiteInv
<1> SUFFICES ASSUME CompatibilityInit PROVE SuiteInv
  OBVIOUS
<1>1. /\ plan = NoPlan /\ control = Stage("idle", NoPlan)
      /\ reports = [r \in Runs |-> BlankReport] /\ baseline = 0
      /\ calls = {} /\ proxy = ProxyOff
      /\ holder = "none" /\ busy = FALSE /\ manual = "none" /\ restarts = 0
      /\ asked = {} /\ approved = {} /\ strayed = {}
  BY DEF CompatibilityInit
<1>2. /\ Stage("idle", NoPlan) \in ControlDoc
      /\ control.phase = "idle" /\ control.checked = NoPlan
  BY <1>1 DEF Stage, ControlDoc
<1>3. ProxyOff \in ProxyStatus /\ ProxyOff.outcome = "none"
  BY DEF ProxyOff, ProxyStatus, Idle
<1>4. CompatibilityTypeOK
  <2>1. reports \in [Runs -> ReportDoc]
    BY <1>1, BlankIsReport
  <2>2. plan \in Plans \cup {NoPlan} /\ control \in ControlDoc /\ proxy \in ProxyStatus
    BY <1>1, <1>2, <1>3
  <2>3. restarts \in 0..MaxRestarts
    BY <1>1, CompatibilityAssumption
  <2> QED
    BY <1>1, <2>1, <2>2, <2>3 DEF CompatibilityTypeOK
<1>5. ~LiveActive
  BY <1>2 DEF LiveActive, LivePhases
<1>6. \A r \in Runs : \A s \in Scenarios : reports[r].stage[s] = "not_run"
  BY <1>1 DEF BlankReport, Unrun
<1>7. AnswersKnown
  BY <1>1, <1>3, <1>6 DEF AnswersKnown
<1>8. RunsWritten
  BY <1>1 DEF RunsWritten
<1>9. RoundOfPlan /\ RoundInOrder /\ CallsOfRound
  BY <1>1, <1>2, <1>5 DEF RoundOfPlan, RoundInOrder, CallsOfRound, Sound
<1>10. JobsApart /\ JobsExcluded
  BY <1>1 DEF JobsApart, JobsExcluded
<1>11. \A r \in Runs : reports[r].mode = "none" /\ baseline # r
  BY <1>1, RunIsNumber DEF BlankReport
<1>12. PassedIsEarned
  BY <1>11 DEF PassedIsEarned
<1> QED
  BY <1>4, <1>7, <1>8, <1>9, <1>10, <1>12 DEF SuiteInv

LEMMA SuiteStep == SuiteInv /\ [CompatibilityNext]_suiteVars => SuiteInv'
<1> SUFFICES ASSUME SuiteInv, [CompatibilityNext]_suiteVars PROVE SuiteInv'
  OBVIOUS
<1>1. CompatibilityTypeOK'
  BY TypesKept DEF SuiteInv
<1>2. AnswersKnown' /\ RunsWritten' /\ RoundOfPlan'
  BY AnswersKept, RunsWrittenKept, RoundOfPlanKept
<1>3. RoundInOrder' /\ CallsOfRound'
  BY OrderKept, CallsKept
<1>4. JobsApart' /\ JobsExcluded' /\ PassedIsEarned'
  BY JobsKept, PassedKept
<1> QED
  BY <1>1, <1>2, <1>3, <1>4 DEF SuiteInv

(* The inductive invariant of the self-test: what execute_current, finish  *)
(* and the console around them rely on when they take the lock again.      *)
THEOREM SuiteInvariant == CompatibilitySpec => []SuiteInv
BY SuiteInit, SuiteStep, PTL DEF CompatibilitySpec

(* The documents and the console stay well-formed, whatever the number of  *)
(* scenarios, plans, runs and restarts.                                    *)
THEOREM SuiteTypesHold == CompatibilitySpec => []CompatibilityTypeOK
<1>1. SuiteInv => CompatibilityTypeOK
  BY DEF SuiteInv
<1> QED
  BY <1>1, SuiteInvariant, PTL

(* finish calls a live report passed, and keeps it as baseline, only when  *)
(* the host confirmed each enabled scenario in that run, unless a late     *)
(* result of another call was written into it.                             *)
THEOREM SuitePassedIsEarned == CompatibilitySpec => []PassedIsEarned
<1>1. SuiteInv => PassedIsEarned
  BY DEF SuiteInv
<1> QED
  BY <1>1, SuiteInvariant, PTL

(* From start_live to finish the round is about the plan that passed       *)
(* offline_check and that is still stored.                                 *)
THEOREM SuiteLiveOnlyChecked == CompatibilitySpec => []LiveOnlyChecked
<1>1. SuiteInv => LiveOnlyChecked
  BY DEF SuiteInv, RoundOfPlan, Sound, LiveOnlyChecked
<1> QED
  BY <1>1, SuiteInvariant, PTL

(* The conversation lock, held only while a job or a round is begun, is    *)
(* enough to keep _start_job and a live round apart.                       *)
THEOREM SuiteJobsExcluded == CompatibilitySpec => []JobsExcluded
<1>1. SuiteInv => JobsExcluded
  BY DEF SuiteInv
<1> QED
  BY <1>1, SuiteInvariant, PTL

(* A call that is new in this step was made by execute_current just now.   *)
LEMMA CallBegins ==
  ASSUME SuiteInv, [CompatibilityNext]_suiteVars,
         NEW c \in calls' \ calls, c.stage = "begun", c.run \notin strayed
  PROVE  /\ Sound /\ HasCurrent /\ control.phase = "ready_for_action"
         /\ c.run = control.run /\ c.scenario = Current
<1>1. CompatibilityTypeOK
  BY DEF SuiteInv
<1>2. Execute
  <2>1. ASSUME NEW d \in calls, NEW stage \in {"armed"} \cup Outcomes \cup Failures,
               calls' = (calls \ {d}) \cup
                          {[run |-> d.run, scenario |-> d.scenario, stage |-> stage]}
        PROVE  FALSE
    BY <2>1 DEF Outcomes, Failures
  <2> QED
    BY <1>1, <2>1, CallsStay
<1>3. /\ control.phase = "ready_for_action" /\ HasCurrent
      /\ calls' = calls \cup {[run |-> control.run, scenario |-> Current, stage |-> "begun"]}
  BY <1>1, <1>2, Executing
<1>4. c.run = control.run /\ c.scenario = Current
  BY <1>3
<1> QED
  BY <1>3, <1>4 DEF Sound, LiveActive, LivePhases

(* After a failure execute_current is never reached again in that round:   *)
(* whatever scenario it is asked for, those before it succeeded or were    *)
(* skipped.                                                                *)
THEOREM SuiteStopsAtFailure == CompatibilitySpec => StopsAtFailure
<1>1. ASSUME SuiteInv, [CompatibilityNext]_suiteVars,
             NEW c \in calls' \ calls, c.stage = "begun", c.run \notin strayed
      PROVE  \A i \in 1..control.index : Passable(reports[c.run], control.enabled[i])
  BY <1>1, CallBegins DEF SuiteInv, RoundInOrder
<1>2. SuiteInv /\ [CompatibilityNext]_suiteVars =>
        [\A c \in calls' \ calls : c.stage = "begun" /\ c.run \notin strayed =>
           \A i \in 1..control.index : Passable(reports[c.run], control.enabled[i])]_suiteVars
  BY <1>1
<1> QED
  BY <1>2, SuiteInvariant, PTL DEF CompatibilitySpec, StopsAtFailure

(* execute_current hands a scenario to the controller once in a run, and   *)
(* never while another of that run is under way, though it lets go of the  *)
(* lock in the middle.                                                     *)
THEOREM SuiteAskedOnce == CompatibilitySpec => AskedOnce
<1>1. ASSUME SuiteInv, [CompatibilityNext]_suiteVars,
             NEW c \in calls' \ calls, c.stage = "begun", c.run \notin strayed
      PROVE  /\ Request(c.run, c.scenario) \notin asked
             /\ \A d \in calls : d.run # c.run
  <2>1. /\ Sound /\ HasCurrent /\ control.phase = "ready_for_action"
        /\ c.run = control.run /\ c.scenario = Current
    BY <1>1, CallBegins
  <2>2. Begun = control.index /\ Current \in Scenarios
    BY <1>1, <2>1, CurrentFits DEF Begun, SuiteInv, CompatibilityTypeOK
  <2>3. \A i \in 1..control.index : control.enabled[i] # Current
    BY <1>1, <2>1, Distinct
  <2>4. Request(control.run, Current) \notin asked
    BY <1>1, <2>1, <2>2, <2>3 DEF SuiteInv, RoundInOrder
  <2>5. \A d \in calls : d.run # control.run
    BY <1>1, <2>1 DEF SuiteInv, CallsOfRound
  <2> QED
    BY <2>1, <2>4, <2>5
<1>2. SuiteInv /\ [CompatibilityNext]_suiteVars =>
        [\A c \in calls' \ calls : c.stage = "begun" /\ c.run \notin strayed =>
           /\ Request(c.run, c.scenario) \notin asked
           /\ \A d \in calls : d.run # c.run]_suiteVars
  BY <1>1
<1> QED
  BY <1>2, SuiteInvariant, PTL DEF CompatibilitySpec, AskedOnce
=============================================================================
