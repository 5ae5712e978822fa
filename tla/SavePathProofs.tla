--------------------------- MODULE SavePathProofs ---------------------------
(* Theorems about SavePath for any finite sets of files, campaigns and saves *)
(* and any number of writes and faults.                                      *)
EXTENDS SavePath, FiniteSetTheorems, FunctionTheorems, TLAPS

USE DEF hostVars, consoleVars, turnVars, vars

DiskFile == [save : Contents, mtime : Nat, whole : BOOLEAN]

FileSet == [save : Contents \cup {NoSave}, whole : BOOLEAN]

StateSet == [campaign : Campaigns \cup {NoCampaign}, save : Contents \cup {NoSave}, mtime : Nat]

CycleSet == [pc : {"scan", "chosen", "digested", "waiting"}, file : Files, mtime : Nat,
             digest : FileSet]

UploadSet == [pc : {"idle", "received", "stored", "campaign", "done", "rejected"},
              campaign : Campaigns \cup {NoCampaign}, sent : FileSet, digest : FileSet,
              revision : Nat]

ManifestSet == [save : Contents \cup {NoSave}, revision : Nat]

CurrentSet == [campaign : Campaigns \cup {NoCampaign}, save : Contents \cup {NoSave},
               revision : Nat]

IdentitySet == [campaign : Campaigns \cup {NoCampaign}, save : Contents \cup {NoSave},
                stamp : Nat, revision : Nat]

TurnSet == [pc : {"idle", "resolve", "read", "pinned", "again", "reread", "passed"},
            path : (Campaigns \cup {NoCampaign}) \X (Contents \cup {NoSave}),
            attempt : Nat, pin : IdentitySet]

HostTypeOK ==
  /\ disk \in [Files -> DiskFile] /\ observed \in [Files -> Nat \X BOOLEAN]
  /\ state \in StateSet /\ up \in CycleSet
  /\ up.pc # "scan" => state.campaign \in Campaigns

ConsoleTypeOK ==
  /\ recv \in UploadSet
  /\ recv.pc # "idle" => recv.campaign \in Campaigns /\ recv.sent.save \in Contents
  /\ stored \in [Campaigns -> [Contents -> Nat]]
  /\ ofCampaign \in [Campaigns -> ManifestSet]
  /\ current \in CurrentSet
  /\ current.save # NoSave => current.campaign \in Campaigns
  /\ published \subseteq Campaigns \X Nat \X Contents

TurnTypeOK ==
  /\ turn \in TurnSet /\ moved \in BOOLEAN
  /\ turn.pc \in {"resolve", "read", "again", "reread"} => turn.path \in Campaigns \X Contents

TypeOK == HostTypeOK /\ ConsoleTypeOK /\ TurnTypeOK

(* The revision an upload is about to take: past everything its campaign's   *)
(* manifest has named, or the same for the same save.                        *)
Follows(c, s, n) ==
  /\ n # 0
  /\ ofCampaign[c].save # NoSave =>
       /\ ofCampaign[c].revision <= n
       /\ ofCampaign[c].revision = n => ofCampaign[c].save = s

Uploading ==
  /\ recv.pc \in {"stored", "campaign", "done"} =>
       recv.sent.whole /\ recv.sent.save = recv.digest.save
  /\ recv.pc = "stored" =>
       /\ stored[recv.campaign][recv.sent.save] # 0
       /\ Follows(recv.campaign, recv.sent.save, recv.revision)
  /\ recv.pc = "campaign" =>
       ofCampaign[recv.campaign] = [save |-> recv.sent.save, revision |-> recv.revision]

(* What was current is behind the manifest of its campaign, or named by it.  *)
Past(p) ==
  /\ ofCampaign[p[1]].save # NoSave
  /\ p[2] <= ofCampaign[p[1]].revision
  /\ p[2] = ofCampaign[p[1]].revision => p[3] = ofCampaign[p[1]].save

Manifests ==
  /\ \A c \in Campaigns : ofCampaign[c].save # NoSave =>
       stored[c][ofCampaign[c].save] # 0 /\ ofCampaign[c].revision # 0
  /\ \A p \in published : Past(p)
  /\ RevisionNamesOneSave
  /\ current.save # NoSave =>
       /\ <<current.campaign, current.revision, current.save>> \in published
       /\ stored[current.campaign][current.save] # 0

(* A pin names an upload that was current; once another save of its campaign *)
(* was current the revision of the pin is behind for ever.                   *)
Pinned ==
  /\ turn.pin.campaign \in Campaigns =>
       <<turn.pin.campaign, turn.pin.revision, turn.pin.save>> \in published
  /\ moved => /\ turn.pin.campaign \in Campaigns
              /\ turn.pin.revision < ofCampaign[turn.pin.campaign].revision
              /\ current.campaign = turn.pin.campaign => turn.pin.revision < current.revision

SavePathInv == Uploading /\ Manifests /\ Pinned

-----------------------------------------------------------------------------
(* A finite, non-empty set of naturals has a greatest element, which is what *)
(* Max of the community modules chooses.                                     *)
LEMMA MaxIsGreatest ==
  ASSUME NEW S \in SUBSET Nat, IsFiniteSet(S), S # {}
  PROVE  /\ Max(S) \in S /\ \A x \in S : Max(S) >= x
<1> DEFINE HasMax(T) == \E x \in T : \A y \in T : x >= y
           Bad == {T \in FiniteSubsetsOf(Nat) : T # {} /\ ~HasMax(T)}
<1>1. ASSUME Bad # {}
      PROVE  FALSE
  <2>1. PICK T \in Bad : \A U \in Bad : <<U, T>> \notin StrictSubsetOrdering(Nat)
    <3>1. IsWellFoundedOn(StrictSubsetOrdering(Nat), FiniteSubsetsOf(Nat))
      BY FS_StrictSubsetOrderingWellFounded
    <3>2. Bad \subseteq FiniteSubsetsOf(Nat)
      OBVIOUS
    <3> HIDE DEF Bad
    <3> QED BY <1>1, <3>1, <3>2, WFMin
  <2>2. T \in SUBSET Nat /\ IsFiniteSet(T) /\ T # {} /\ ~HasMax(T)
    BY <2>1 DEF FiniteSubsetsOf
  <2>3. PICK x \in T : TRUE
    BY <2>2
  <2> DEFINE U == T \ {x}
  <2>4. IsFiniteSet(U) /\ U \in SUBSET Nat
    BY <2>2, FS_RemoveElement
  <2>5. <<U, T>> \in StrictSubsetOrdering(Nat)
    BY <2>2, <2>3, <2>4 DEF StrictSubsetOrdering
  <2>6. U \notin Bad
    BY <2>1, <2>5
  <2>7. U = {} \/ HasMax(U)
    BY <2>4, <2>6 DEF FiniteSubsetsOf
  <2>8. CASE U = {}
    BY <2>2, <2>3, <2>8
  <2>9. CASE HasMax(U)
    <3>1. PICK m \in U : \A y \in U : m >= y
      BY <2>9
    <3>2. CASE m >= x
      BY <2>2, <3>1, <3>2
    <3>3. CASE x > m
      BY <2>2, <2>3, <3>1, <3>3
    <3> QED BY <2>2, <2>3, <3>1, <3>2, <3>3
  <2> QED BY <2>7, <2>8, <2>9
<1>2. HasMax(S)
  BY <1>1 DEF FiniteSubsetsOf
<1>3. \E x \in S : \A y \in S : x >= y
  BY <1>2
<1> QED BY <1>3 DEF Max

(* The values a function takes on a finite set are finitely many.            *)
LEMMA FiniteValues ==
  ASSUME NEW S, IsFiniteSet(S), NEW g, g \in [S -> Nat]
  PROVE  IsFiniteSet({g[x] : x \in S})
<1> DEFINE T == {g[x] : x \in S}
<1>1. g \in Surjection(S, T)
  BY DEF Surjection
<1> QED BY <1>1, FS_Surjection

(* Files, campaigns and saves have a newest or greatest one.                 *)
LEMMA NewestIsOne ==
  ASSUME disk \in [Files -> DiskFile], NEW S \in SUBSET Files, S # {}
  PROVE  Newest(S) \in S
<1> DEFINE g == [f \in S |-> disk[f].mtime]
           V == {g[f] : f \in S}
<1>1. IsFiniteSet(S) /\ g \in [S -> Nat]
  BY SavePathAssumption, FS_Subset DEF DiskFile
<1>2. IsFiniteSet(V) /\ V \in SUBSET Nat /\ V # {}
  <2>1. IsFiniteSet(V)
    BY <1>1, FiniteValues
  <2> QED BY <1>1, <2>1
<1> HIDE DEF V
<1>3. Max(V) \in V /\ \A v \in V : Max(V) >= v
  BY <1>2, MaxIsGreatest
<1>4. PICK f \in S : g[f] = Max(V)
  BY <1>3 DEF V
<1>5. \A h \in S : disk[h].mtime <= disk[f].mtime
  <2> SUFFICES ASSUME NEW h \in S PROVE g[h] <= g[f]
    OBVIOUS
  <2>1. g[h] \in V
    BY DEF V
  <2> QED BY <1>1, <1>3, <1>4, <2>1
<1> QED BY <1>5 DEF Newest

(* The game's clock and the stamps are naturals (_eligible_candidate and     *)
(* the mtimes of the stored archives).                                       *)
LEMMA ClockIsNat == ASSUME disk \in [Files -> DiskFile] PROVE Clock \in Nat
<1> DEFINE g == [f \in Files |-> disk[f].mtime]
           V == {g[f] : f \in Files}
<1>1. IsFiniteSet(Files) /\ g \in [Files -> Nat]
  BY SavePathAssumption DEF DiskFile
<1>2. IsFiniteSet(V) /\ V \in SUBSET Nat /\ V # {}
  <2>1. IsFiniteSet(V)
    BY <1>1, FiniteValues
  <2> QED BY <1>1, <2>1, SavePathAssumption
<1>3. V = {disk[f].mtime : f \in Files}
  OBVIOUS
<1> HIDE DEF V
<1> QED BY <1>2, <1>3, MaxIsGreatest DEF Clock

(* A stamp that is handed out is later than none, so it is not zero.         *)
LEMMA NextStampIsNew ==
  ASSUME stored \in [Campaigns -> [Contents -> Nat]]
  PROVE  NextStamp \in Nat \ {0}
<1> DEFINE P == Campaigns \X Contents
           g == [p \in P |-> stored[p[1]][p[2]]]
           V == {g[p] : p \in P}
<1>1. IsFiniteSet(P)
  BY SavePathAssumption, FS_Product
<1>2. P # {}
  <2>1. DirOf[StartFile] \in Campaigns /\ StartSave \in Contents
    BY SavePathAssumption
  <2>2. <<DirOf[StartFile], StartSave>> \in P
    BY <2>1
  <2> QED BY <2>2
<1>3. g \in [P -> Nat]
  <2>1. \A p \in P : stored[p[1]][p[2]] \in Nat
    OBVIOUS
  <2> QED BY <2>1
<1>4. V = {stored[c][s] : c \in Campaigns, s \in Contents}
  <2>1. ASSUME NEW c \in Campaigns, NEW s \in Contents
        PROVE  stored[c][s] \in V
    <3>1. <<c, s>> \in P /\ g[<<c, s>>] = stored[c][s]
      OBVIOUS
    <3> QED BY <3>1
  <2>2. ASSUME NEW p \in P
        PROVE  p[1] \in Campaigns /\ p[2] \in Contents /\ g[p] = stored[p[1]][p[2]]
    OBVIOUS
  <2>3. \A v \in V : \E p \in P : v = g[p]
    OBVIOUS
  <2> HIDE DEF V, P, g
  <2> QED BY <2>1, <2>2, <2>3
<1>5. IsFiniteSet(V) /\ V \in SUBSET Nat /\ V # {}
  <2> HIDE DEF P, g
  <2>1. IsFiniteSet(V)
    BY <1>1, <1>3, FiniteValues
  <2> QED BY <1>2, <1>3, <2>1
<1> HIDE DEF V
<1>6. Max(V) \in Nat
  BY <1>5, MaxIsGreatest
<1> QED BY <1>4, <1>6 DEF NextStamp

(* max(previous, 1) of save_manifest_revision.                               *)
LEMMA MaxOfTwo ==
  ASSUME NEW n \in Nat
  PROVE  Max({n, 1}) = IF n = 0 THEN 1 ELSE n
<1>1. IsFiniteSet({n, 1})
  <2>1. IsFiniteSet({n}) /\ {n, 1} = {n} \cup {1}
    BY FS_Singleton
  <2> QED BY <2>1, FS_AddElement
<1>2. Max({n, 1}) \in {n, 1} /\ \A x \in {n, 1} : Max({n, 1}) >= x
  <2>1. {n, 1} \in SUBSET Nat /\ {n, 1} # {}
    OBVIOUS
  <2> QED BY <1>1, <2>1, MaxIsGreatest
<1> QED BY <1>2

(* What _eligible_candidate chooses is a file it was offered.                *)
LEMMA EligibleIsStable ==
  ASSUME disk \in [Files -> DiskFile], NEW stable \in SUBSET Files
  PROVE  Eligible(stable) \subseteq stable
<1> DEFINE elsewhere == {f \in stable : DirOf[f] # state.campaign /\ disk[f].mtime > state.mtime}
           mine == {f \in stable : DirOf[f] = state.campaign /\ disk[f].mtime >= state.mtime}
<1>1. stable # {} => Newest(stable) \in stable
  BY NewestIsOne
<1>2. elsewhere # {} => Newest(elsewhere) \in elsewhere
  BY NewestIsOne
<1>3. mine # {} => Newest(mine) \in mine
  BY NewestIsOne
<1> QED BY <1>1, <1>2, <1>3 DEF Eligible

(* The next revision of a campaign is past the ones its manifest has named,  *)
(* unless it names the same save again (save_manifest_revision).             *)
LEMMA RevisionFollows ==
  ASSUME ConsoleTypeOK, Manifests, NEW c \in Campaigns, NEW s \in Contents
  PROVE  RevisionAfter(c, s) \in Nat /\ Follows(c, s, RevisionAfter(c, s))
<1> DEFINE prev == Previous(c)
<1>1. prev.revision \in Nat
  BY DEF Previous, ConsoleTypeOK, ManifestSet, CurrentSet
<1>2. Max({prev.revision, 1}) = IF prev.revision = 0 THEN 1 ELSE prev.revision
  BY <1>1, MaxOfTwo
<1>3. CASE ofCampaign[c].save = NoSave
  <2>1. prev.save = NoSave /\ prev.save # s
    BY <1>3, SavePathAssumption DEF Previous
  <2> QED BY <1>1, <1>3, <2>1 DEF RevisionAfter, Follows
<1>4. CASE ofCampaign[c].save # NoSave
  <2>1. prev = ofCampaign[c] /\ prev.revision # 0
    BY <1>4 DEF Previous, Manifests
  <2>2. CASE prev.save = s
    BY <1>1, <1>2, <2>1, <2>2 DEF RevisionAfter, Follows
  <2>3. CASE prev.save # s
    BY <1>1, <2>1, <2>3 DEF RevisionAfter, Follows
  <2> QED BY <2>2, <2>3
<1> QED BY <1>3, <1>4

-----------------------------------------------------------------------------
(* The disk, the uploader's state and its cycle keep their types; whatever   *)
(* is chosen is a file of a known campaign (_eligible_candidate, cycle).     *)
LEMMA HostTypeStep == ASSUME TypeOK, [SavePathNext]_vars PROVE HostTypeOK'
<1> USE SavePathAssumption
<1>1. ASSUME NEW f \in Files, NEW s \in Contents, BeginWrite(f, s)
      PROVE  HostTypeOK'
  <2>1. [save |-> s, mtime |-> Clock + 1, whole |-> FALSE] \in DiskFile
    BY ClockIsNat DEF TypeOK, HostTypeOK, DiskFile
  <2>2. disk' \in [Files -> DiskFile]
    BY <1>1, <2>1 DEF BeginWrite, TypeOK, HostTypeOK
  <2> QED
    BY <1>1, <2>2 DEF BeginWrite, TypeOK, HostTypeOK
<1>2. ASSUME NEW f \in Files, FinishWrite(f)
      PROVE  HostTypeOK'
  BY <1>2 DEF FinishWrite, TypeOK, HostTypeOK, DiskFile
<1>3. ASSUME NEW stable \in SUBSET Unchanged, Scan(stable)
      PROVE  HostTypeOK'
  <2>1. observed' \in [Files -> Nat \X BOOLEAN]
    BY <1>3 DEF Scan, Signature, TypeOK, HostTypeOK, DiskFile
  <2>2. Eligible(stable) \subseteq Files
    BY <1>3, EligibleIsStable DEF Unchanged, TypeOK, HostTypeOK
  <2>3. CASE UNCHANGED <<state, up>>
    BY <1>3, <2>1, <2>3 DEF Scan, TypeOK, HostTypeOK
  <2>4. ASSUME NEW f \in Files,
               up' = [up EXCEPT !.pc = "chosen", !.file = f, !.mtime = disk[f].mtime],
               state' = [state EXCEPT !.campaign = DirOf[f]]
        PROVE  HostTypeOK'
    <3>1. disk[f].mtime \in Nat /\ DirOf[f] \in Campaigns
      BY SavePathAssumption DEF TypeOK, HostTypeOK, DiskFile
    <3>2. up' \in CycleSet /\ state' \in StateSet /\ state'.campaign \in Campaigns
      BY <2>4, <3>1 DEF TypeOK, HostTypeOK, CycleSet, StateSet
    <3> QED BY <1>3, <2>1, <3>2 DEF Scan, TypeOK, HostTypeOK
  <2> QED BY <1>3, <2>2, <2>3, <2>4 DEF Scan
<1>4. CASE Digest
  BY <1>4
    DEF Digest, Archive, TypeOK, HostTypeOK, DiskFile, FileSet, CycleSet, Idle, NoFile
<1>5. CASE Send
  BY <1>5 DEF Send, TypeOK, HostTypeOK, CycleSet
<1>6. CASE Uploaded
  BY <1>6 DEF Uploaded, TypeOK, HostTypeOK, FileSet, StateSet, CycleSet, Idle, NoFile
<1>7. CASE Refused
  BY <1>7 DEF Refused, TypeOK, HostTypeOK, FileSet, CycleSet, Idle, NoFile
<1>8. CASE UploadFails
  BY <1>8 DEF UploadFails, TypeOK, HostTypeOK, FileSet, CycleSet, Idle, NoFile
<1>9. ASSUME NEW keeps \in BOOLEAN, UploaderRestarts(keeps)
      PROVE  HostTypeOK'
  BY <1>9
    DEF UploaderRestarts, TypeOK, HostTypeOK, FileSet, StateSet, CycleSet, Unseen,
        Idle, NoFile, NoState
<1>10. CASE Store
  BY <1>10 DEF Store, TypeOK, HostTypeOK
<1>11. CASE WriteCampaignManifest
  BY <1>11 DEF WriteCampaignManifest, TypeOK, HostTypeOK
<1>12. CASE WriteCurrentManifest
  BY <1>12 DEF WriteCurrentManifest, TypeOK, HostTypeOK
<1>13. CASE AnswerLost
  BY <1>13 DEF AnswerLost, TypeOK, HostTypeOK
<1>14. CASE ConsoleRestarts
  BY <1>14 DEF ConsoleRestarts, TypeOK, HostTypeOK, FileSet, CycleSet, Idle, NoFile
<1>15. CASE Resolve
  BY <1>15 DEF Resolve, TypeOK, HostTypeOK
<1>16. CASE TryAgain
  BY <1>16 DEF TryAgain, TypeOK, HostTypeOK
<1>17. CASE Pin
  BY <1>17 DEF Pin, TypeOK, HostTypeOK
<1>18. CASE Check
  BY <1>18 DEF Check, TypeOK, HostTypeOK
<1>19. CASE Act
  BY <1>19 DEF Act, TypeOK, HostTypeOK
<1>20. CASE UNCHANGED vars
  BY <1>20 DEF TypeOK, HostTypeOK
<1> QED
  BY <1>1, <1>2, <1>3, <1>4, <1>5, <1>6, <1>7, <1>8, <1>9, <1>10, <1>11, <1>12,
     <1>13, <1>14, <1>15, <1>16, <1>17, <1>18, <1>19, <1>20
  DEF SavePathNext, Console, Turn

(* Uploads, stamps and manifests keep their types; an upload that is handled *)
(* names a campaign and a save (receive_uploaded_save).                      *)
LEMMA ConsoleTypeStep ==
  ASSUME TypeOK, SavePathInv, [SavePathNext]_vars
  PROVE  ConsoleTypeOK'
<1> USE SavePathAssumption
<1>1. ASSUME NEW f \in Files, NEW s \in Contents, BeginWrite(f, s)
      PROVE  ConsoleTypeOK'
  BY <1>1 DEF BeginWrite, TypeOK, ConsoleTypeOK
<1>2. ASSUME NEW f \in Files, FinishWrite(f)
      PROVE  ConsoleTypeOK'
  BY <1>2 DEF FinishWrite, TypeOK, ConsoleTypeOK
<1>3. ASSUME NEW stable \in SUBSET Unchanged, Scan(stable)
      PROVE  ConsoleTypeOK'
  BY <1>3 DEF Scan, TypeOK, ConsoleTypeOK
<1>4. CASE Digest
  BY <1>4 DEF Digest, TypeOK, ConsoleTypeOK
<1>5. CASE Send
  <2>1. state.campaign \in Campaigns /\ up.digest \in FileSet
    BY <1>5 DEF Send, TypeOK, HostTypeOK, CycleSet
  <2>2. Archive(up.file) \in FileSet /\ Archive(up.file).save \in Contents
    BY <1>5 DEF Archive, TypeOK, HostTypeOK, CycleSet, DiskFile, FileSet
  <2>3. recv' \in UploadSet /\ recv'.campaign \in Campaigns /\ recv'.sent.save \in Contents
    BY <1>5, <2>1, <2>2 DEF Send, UploadSet
  <2> QED
    BY <1>5, <2>3 DEF Send, TypeOK, ConsoleTypeOK
<1>6. CASE Uploaded
  BY <1>6 DEF Uploaded, TypeOK, ConsoleTypeOK, FileSet, UploadSet, NoUpload, NoFile
<1>7. CASE Refused
  BY <1>7 DEF Refused, TypeOK, ConsoleTypeOK, FileSet, UploadSet, NoUpload, NoFile
<1>8. CASE UploadFails
  BY <1>8 DEF UploadFails, TypeOK, ConsoleTypeOK
<1>9. ASSUME NEW keeps \in BOOLEAN, UploaderRestarts(keeps)
      PROVE  ConsoleTypeOK'
  BY <1>9 DEF UploaderRestarts, TypeOK, ConsoleTypeOK
<1>10. CASE Store
  <2>1. recv.campaign \in Campaigns /\ recv.sent.save \in Contents /\ recv \in UploadSet
    BY <1>10 DEF Store, TypeOK, ConsoleTypeOK
  <2>2. CASE recv' = [recv EXCEPT !.pc = "rejected"] /\ UNCHANGED stored
    BY <1>10, <2>1, <2>2 DEF Store, TypeOK, ConsoleTypeOK, UploadSet
  <2>3. CASE /\ stored' = [stored EXCEPT ![recv.campaign][recv.sent.save] =
                             StampOf(recv.campaign, recv.sent.save)]
             /\ recv' = [recv EXCEPT !.pc = "stored",
                           !.revision = RevisionAfter(recv.campaign, recv.sent.save)]
    <3>1. RevisionAfter(recv.campaign, recv.sent.save) \in Nat
      BY <2>1, RevisionFollows DEF TypeOK, SavePathInv
    <3>2. recv' \in UploadSet /\ recv'.campaign \in Campaigns /\ recv'.sent.save \in Contents
      BY <2>1, <2>3, <3>1 DEF UploadSet
    <3>3. StampOf(recv.campaign, recv.sent.save) \in Nat
      BY <2>1, NextStampIsNew DEF StampOf, TypeOK, ConsoleTypeOK
    <3>4. stored' \in [Campaigns -> [Contents -> Nat]]
      BY <2>1, <2>3, <3>3 DEF TypeOK, ConsoleTypeOK
    <3> QED
      BY <1>10, <3>2, <3>4 DEF Store, TypeOK, ConsoleTypeOK
  <2> QED
    BY <1>10, <2>2, <2>3 DEF Store
<1>11. CASE WriteCampaignManifest
  BY <1>11 DEF WriteCampaignManifest, TypeOK, ConsoleTypeOK, UploadSet, ManifestSet
<1>12. CASE WriteCurrentManifest
  <2>1. recv.campaign \in Campaigns /\ recv.sent.save \in Contents /\ recv.revision \in Nat
    BY <1>12 DEF WriteCurrentManifest, TypeOK, ConsoleTypeOK, UploadSet
  <2>2. current' \in CurrentSet /\ published' \subseteq Campaigns \X Nat \X Contents
    BY <1>12, <2>1 DEF WriteCurrentManifest, TypeOK, ConsoleTypeOK, CurrentSet
  <2>3. recv' \in UploadSet /\ recv'.campaign \in Campaigns /\ recv'.sent.save \in Contents
    BY <1>12, <2>1 DEF WriteCurrentManifest, TypeOK, ConsoleTypeOK, UploadSet
  <2> QED
    BY <1>12, <2>1, <2>2, <2>3 DEF WriteCurrentManifest, TypeOK, ConsoleTypeOK
<1>13. CASE AnswerLost
  BY <1>13 DEF AnswerLost, TypeOK, ConsoleTypeOK, FileSet, UploadSet, NoUpload, NoFile
<1>14. CASE ConsoleRestarts
  BY <1>14
    DEF ConsoleRestarts, TypeOK, ConsoleTypeOK, FileSet, UploadSet, NoUpload, NoFile
<1>15. CASE Resolve
  BY <1>15 DEF Resolve, TypeOK, ConsoleTypeOK
<1>16. CASE TryAgain
  BY <1>16 DEF TryAgain, TypeOK, ConsoleTypeOK
<1>17. CASE Pin
  BY <1>17 DEF Pin, TypeOK, ConsoleTypeOK
<1>18. CASE Check
  BY <1>18 DEF Check, TypeOK, ConsoleTypeOK
<1>19. CASE Act
  BY <1>19 DEF Act, TypeOK, ConsoleTypeOK
<1>20. CASE UNCHANGED vars
  BY <1>20 DEF TypeOK, ConsoleTypeOK
<1> QED
  BY <1>1, <1>2, <1>3, <1>4, <1>5, <1>6, <1>7, <1>8, <1>9, <1>10, <1>11, <1>12,
     <1>13, <1>14, <1>15, <1>16, <1>17, <1>18, <1>19, <1>20
  DEF SavePathNext, Console, Turn

(* A turn keeps its type; it reads only what a manifest named                *)
(* (WorldStateService.identity).                                             *)
LEMMA TurnTypeStep == ASSUME TypeOK, [SavePathNext]_vars PROVE TurnTypeOK'
<1> USE SavePathAssumption
<1>1. ASSUME NEW f \in Files, NEW s \in Contents, BeginWrite(f, s)
      PROVE  TurnTypeOK'
  BY <1>1 DEF BeginWrite, TypeOK, TurnTypeOK
<1>2. ASSUME NEW f \in Files, FinishWrite(f)
      PROVE  TurnTypeOK'
  BY <1>2 DEF FinishWrite, TypeOK, TurnTypeOK
<1>3. ASSUME NEW stable \in SUBSET Unchanged, Scan(stable)
      PROVE  TurnTypeOK'
  BY <1>3 DEF Scan, TypeOK, TurnTypeOK
<1>4. CASE Digest
  BY <1>4 DEF Digest, TypeOK, TurnTypeOK
<1>5. CASE Send
  BY <1>5 DEF Send, TypeOK, TurnTypeOK
<1>6. CASE Uploaded
  BY <1>6 DEF Uploaded, TypeOK, TurnTypeOK
<1>7. CASE Refused
  BY <1>7 DEF Refused, TypeOK, TurnTypeOK
<1>8. CASE UploadFails
  BY <1>8 DEF UploadFails, TypeOK, TurnTypeOK
<1>9. ASSUME NEW keeps \in BOOLEAN, UploaderRestarts(keeps)
      PROVE  TurnTypeOK'
  BY <1>9 DEF UploaderRestarts, TypeOK, TurnTypeOK
<1>10. CASE Store
  BY <1>10 DEF Store, TypeOK, TurnTypeOK
<1>11. CASE WriteCampaignManifest
  BY <1>11 DEF WriteCampaignManifest, TypeOK, TurnTypeOK
<1>12. CASE WriteCurrentManifest
  BY <1>12 DEF WriteCurrentManifest, TypeOK, TurnTypeOK
<1>13. CASE AnswerLost
  BY <1>13 DEF AnswerLost, TypeOK, TurnTypeOK
<1>14. CASE ConsoleRestarts
  BY <1>14 DEF ConsoleRestarts, TurnTypeOK, TurnSet, NoTurn, NoIdentity, IdentitySet
<1>15. CASE Resolve
  <2>1. current.campaign \in Campaigns /\ current.save \in Contents
    BY <1>15 DEF Resolve, TypeOK, ConsoleTypeOK, CurrentSet
  <2>2. turn.attempt + 1 \in Nat
    BY DEF TypeOK, TurnTypeOK, TurnSet
  <2>3. turn' \in TurnSet /\ turn'.path \in Campaigns \X Contents
    BY <1>15, <2>1, <2>2 DEF Resolve, TypeOK, TurnTypeOK, TurnSet
  <2> QED
    BY <1>15, <2>3 DEF Resolve, TypeOK, TurnTypeOK
<1>16. CASE TryAgain
  BY <1>16 DEF TryAgain, TypeOK, TurnTypeOK, TurnSet
<1>17. CASE Pin
  <2>1. Identity \in IdentitySet
    BY <1>17 DEF Pin, Identity, IdentitySet, TypeOK, ConsoleTypeOK, TurnTypeOK, CurrentSet
  <2>2. turn' \in TurnSet /\ turn'.pc = "pinned"
    BY <1>17, <2>1 DEF Pin, NoTurn, TypeOK, TurnTypeOK, TurnSet
  <2> QED
    BY <1>17, <2>2 DEF Pin, TurnTypeOK
<1>18. CASE Check
  BY <1>18 DEF Check, TypeOK, TurnTypeOK, TurnSet, NoTurn, NoIdentity, IdentitySet
<1>19. CASE Act
  BY <1>19 DEF Act, TypeOK, TurnTypeOK, TurnSet, NoTurn, NoIdentity, IdentitySet
<1>20. CASE UNCHANGED vars
  BY <1>20 DEF TypeOK, TurnTypeOK
<1> QED
  BY <1>1, <1>2, <1>3, <1>4, <1>5, <1>6, <1>7, <1>8, <1>9, <1>10, <1>11, <1>12,
     <1>13, <1>14, <1>15, <1>16, <1>17, <1>18, <1>19, <1>20
  DEF SavePathNext, Console, Turn

(* receive_uploaded_save stores, then names in the campaign's manifest, then *)
(* in the current one; whatever is done in between keeps the order.          *)
LEMMA UploadingStep ==
  ASSUME TypeOK, SavePathInv, [SavePathNext]_vars
  PROVE  Uploading'
<1>1. ASSUME NEW f \in Files, NEW s \in Contents, BeginWrite(f, s)
      PROVE  Uploading'
  BY <1>1 DEF BeginWrite, SavePathInv, Uploading, Follows
<1>2. ASSUME NEW f \in Files, FinishWrite(f)
      PROVE  Uploading'
  BY <1>2 DEF FinishWrite, SavePathInv, Uploading, Follows
<1>3. ASSUME NEW stable \in SUBSET Unchanged, Scan(stable)
      PROVE  Uploading'
  BY <1>3 DEF Scan, SavePathInv, Uploading, Follows
<1>4. CASE Digest
  BY <1>4 DEF Digest, SavePathInv, Uploading, Follows
<1>5. CASE Send
  BY <1>5 DEF Send, Uploading
<1>6. CASE Uploaded
  BY <1>6 DEF Uploaded, Uploading, NoUpload
<1>7. CASE Refused
  BY <1>7 DEF Refused, Uploading, NoUpload
<1>8. CASE UploadFails
  BY <1>8 DEF UploadFails, SavePathInv, Uploading, Follows
<1>9. ASSUME NEW keeps \in BOOLEAN, UploaderRestarts(keeps)
      PROVE  Uploading'
  BY <1>9 DEF UploaderRestarts, SavePathInv, Uploading, Follows
<1>10. CASE Store
  <2>1. recv.campaign \in Campaigns /\ recv.sent.save \in Contents /\ recv \in UploadSet
    BY <1>10 DEF Store, TypeOK, ConsoleTypeOK
  <2>2. CASE recv' = [recv EXCEPT !.pc = "rejected"]
    BY <2>1, <2>2 DEF Uploading
  <2>3. CASE /\ Accepted
             /\ stored' = [stored EXCEPT ![recv.campaign][recv.sent.save] =
                             StampOf(recv.campaign, recv.sent.save)]
             /\ recv' = [recv EXCEPT !.pc = "stored",
                           !.revision = RevisionAfter(recv.campaign, recv.sent.save)]
    <3>1. Follows(recv.campaign, recv.sent.save, RevisionAfter(recv.campaign, recv.sent.save))
      BY <2>1, RevisionFollows DEF TypeOK, SavePathInv
    <3>2. StampOf(recv.campaign, recv.sent.save) \in Nat \ {0}
      BY <2>1, NextStampIsNew DEF StampOf, TypeOK, ConsoleTypeOK
    <3>3. stored'[recv.campaign][recv.sent.save] # 0
      BY <2>1, <2>3, <3>2 DEF TypeOK, ConsoleTypeOK
    <3>4. /\ recv'.pc = "stored" /\ recv'.campaign = recv.campaign /\ recv'.sent = recv.sent
          /\ recv'.digest = recv.digest
          /\ recv'.revision = RevisionAfter(recv.campaign, recv.sent.save)
      BY <2>1, <2>3
    <3> QED
      BY <1>10, <2>3, <3>1, <3>3, <3>4 DEF Store, Accepted, Uploading, Follows
  <2> QED
    BY <1>10, <2>2, <2>3 DEF Store
<1>11. CASE WriteCampaignManifest
  BY <1>11 DEF WriteCampaignManifest, SavePathInv, Uploading, TypeOK, ConsoleTypeOK
<1>12. CASE WriteCurrentManifest
  BY <1>12 DEF WriteCurrentManifest, SavePathInv, Uploading
<1>13. CASE AnswerLost
  BY <1>13 DEF AnswerLost, Uploading, NoUpload
<1>14. CASE ConsoleRestarts
  BY <1>14 DEF ConsoleRestarts, Uploading, NoUpload
<1>15. CASE Resolve
  BY <1>15 DEF Resolve, SavePathInv, Uploading, Follows
<1>16. CASE TryAgain
  BY <1>16 DEF TryAgain, SavePathInv, Uploading, Follows
<1>17. CASE Pin
  BY <1>17 DEF Pin, SavePathInv, Uploading, Follows
<1>18. CASE Check
  BY <1>18 DEF Check, SavePathInv, Uploading, Follows
<1>19. CASE Act
  BY <1>19 DEF Act, SavePathInv, Uploading, Follows
<1>20. CASE UNCHANGED vars
  BY <1>20 DEF SavePathInv, Uploading, Follows
<1> QED
  BY <1>1, <1>2, <1>3, <1>4, <1>5, <1>6, <1>7, <1>8, <1>9, <1>10, <1>11, <1>12,
     <1>13, <1>14, <1>15, <1>16, <1>17, <1>18, <1>19, <1>20
  DEF SavePathNext, Console, Turn

(* Each manifest write keeps what was current behind the campaign's manifest *)
(* and one save to a revision (the two replace calls of                      *)
(* receive_uploaded_save).                                                   *)
LEMMA ManifestsStep ==
  ASSUME TypeOK, SavePathInv, [SavePathNext]_vars
  PROVE  Manifests'
<1>1. ASSUME NEW f \in Files, NEW s \in Contents, BeginWrite(f, s)
      PROVE  Manifests'
  BY <1>1 DEF BeginWrite, SavePathInv, Manifests, Past, RevisionNamesOneSave
<1>2. ASSUME NEW f \in Files, FinishWrite(f)
      PROVE  Manifests'
  BY <1>2 DEF FinishWrite, SavePathInv, Manifests, Past, RevisionNamesOneSave
<1>3. ASSUME NEW stable \in SUBSET Unchanged, Scan(stable)
      PROVE  Manifests'
  BY <1>3 DEF Scan, SavePathInv, Manifests, Past, RevisionNamesOneSave
<1>4. CASE Digest
  BY <1>4 DEF Digest, SavePathInv, Manifests, Past, RevisionNamesOneSave
<1>5. CASE Send
  BY <1>5 DEF Send, SavePathInv, Manifests, Past, RevisionNamesOneSave
<1>6. CASE Uploaded
  BY <1>6 DEF Uploaded, SavePathInv, Manifests, Past, RevisionNamesOneSave
<1>7. CASE Refused
  BY <1>7 DEF Refused, SavePathInv, Manifests, Past, RevisionNamesOneSave
<1>8. CASE UploadFails
  BY <1>8 DEF UploadFails, SavePathInv, Manifests, Past, RevisionNamesOneSave
<1>9. ASSUME NEW keeps \in BOOLEAN, UploaderRestarts(keeps)
      PROVE  Manifests'
  BY <1>9 DEF UploaderRestarts, SavePathInv, Manifests, Past, RevisionNamesOneSave
<1>10. CASE Store
  <2>1. \A c \in Campaigns, s \in Contents : stored[c][s] # 0 => stored'[c][s] # 0
    <3>1. recv.campaign \in Campaigns /\ recv.sent.save \in Contents
      BY <1>10 DEF Store, TypeOK, ConsoleTypeOK
    <3>2. StampOf(recv.campaign, recv.sent.save) \in Nat \ {0}
      BY <3>1, NextStampIsNew DEF StampOf, TypeOK, ConsoleTypeOK
    <3> QED
      BY <1>10, <3>1, <3>2 DEF Store, TypeOK, ConsoleTypeOK
  <2>2. \A c \in Campaigns : ofCampaign[c].save # NoSave => ofCampaign[c].save \in Contents
    BY DEF TypeOK, ConsoleTypeOK, ManifestSet
  <2>3. current.save # NoSave => current.campaign \in Campaigns /\ current.save \in Contents
    BY DEF TypeOK, ConsoleTypeOK, CurrentSet
  <2> QED
    BY <1>10, <2>1, <2>2, <2>3
      DEF Store, SavePathInv, Manifests, Past, RevisionNamesOneSave
<1>11. CASE WriteCampaignManifest
  <2> DEFINE c == recv.campaign
  <2>1. /\ c \in Campaigns /\ recv.sent.save \in Contents
        /\ recv.sent.save # NoSave /\ recv.revision \in Nat
    BY <1>11, SavePathAssumption
      DEF WriteCampaignManifest, TypeOK, ConsoleTypeOK, UploadSet
  <2>2. stored[c][recv.sent.save] # 0 /\ Follows(c, recv.sent.save, recv.revision)
    BY <1>11 DEF WriteCampaignManifest, SavePathInv, Uploading
  <2>3. /\ ofCampaign'[c].save = recv.sent.save /\ ofCampaign'[c].revision = recv.revision
        /\ \A d \in Campaigns \ {c} : ofCampaign'[d] = ofCampaign[d]
    BY <1>11, <2>1 DEF WriteCampaignManifest, TypeOK, ConsoleTypeOK
  <2>4. ASSUME NEW p \in published
        PROVE  Past(p)'
    <3>1. p[1] \in Campaigns /\ p[2] \in Nat /\ Past(p)
      BY <2>4 DEF TypeOK, ConsoleTypeOK, SavePathInv, Manifests
    <3>2. CASE p[1] # c
      BY <2>3, <3>1, <3>2 DEF Past
    <3>3. CASE p[1] = c
      <4>1. ofCampaign[c].revision \in Nat
        BY <2>1 DEF TypeOK, ConsoleTypeOK, ManifestSet
      <4> QED
        BY <2>1, <2>2, <2>3, <3>1, <3>3, <4>1 DEF Past, Follows
    <3> QED BY <3>2, <3>3
  <2>5. \A d \in Campaigns : (ofCampaign[d].save # NoSave =>
          stored[d][ofCampaign[d].save] # 0 /\ ofCampaign[d].revision # 0)'
    BY <1>11, <2>1, <2>2, <2>3 DEF WriteCampaignManifest, SavePathInv, Manifests, Follows
  <2> QED
    BY <1>11, <2>4, <2>5
      DEF WriteCampaignManifest, SavePathInv, Manifests, RevisionNamesOneSave
<1>12. CASE WriteCurrentManifest
  <2> DEFINE new == <<recv.campaign, recv.revision, recv.sent.save>>
  <2>1. /\ recv.campaign \in Campaigns /\ recv.sent.save \in Contents /\ recv.sent.save # NoSave
        /\ recv.revision \in Nat
    BY <1>12, SavePathAssumption
      DEF WriteCurrentManifest, TypeOK, ConsoleTypeOK, UploadSet
  <2>2. /\ ofCampaign[recv.campaign].save = recv.sent.save
        /\ ofCampaign[recv.campaign].revision = recv.revision
    BY <1>12 DEF WriteCurrentManifest, SavePathInv, Uploading
  <2>3. stored[recv.campaign][recv.sent.save] # 0
    BY <2>1, <2>2 DEF SavePathInv, Manifests
  <2>4. /\ published' = published \cup {new} /\ stored' = stored /\ ofCampaign' = ofCampaign
        /\ current'.campaign = recv.campaign /\ current'.revision = recv.revision
        /\ current'.save = recv.sent.save
    BY <1>12 DEF WriteCurrentManifest
  <2>5. \A p \in published' : Past(p)'
    BY <2>1, <2>2, <2>4 DEF SavePathInv, Manifests, Past
  <2>6. RevisionNamesOneSave'
    <3>1. \A p \in published : p[1] = recv.campaign /\ p[2] = recv.revision => p[3] = recv.sent.save
      BY <2>2 DEF SavePathInv, Manifests, Past
    <3> QED
      BY <2>4, <3>1 DEF SavePathInv, Manifests, RevisionNamesOneSave
  <2> QED
    BY <2>1, <2>3, <2>4, <2>5, <2>6 DEF SavePathInv, Manifests
<1>13. CASE AnswerLost
  BY <1>13 DEF AnswerLost, SavePathInv, Manifests, Past, RevisionNamesOneSave
<1>14. CASE ConsoleRestarts
  BY <1>14 DEF ConsoleRestarts, SavePathInv, Manifests, Past, RevisionNamesOneSave
<1>15. CASE Resolve
  BY <1>15 DEF Resolve, SavePathInv, Manifests, Past, RevisionNamesOneSave
<1>16. CASE TryAgain
  BY <1>16 DEF TryAgain, SavePathInv, Manifests, Past, RevisionNamesOneSave
<1>17. CASE Pin
  BY <1>17 DEF Pin, SavePathInv, Manifests, Past, RevisionNamesOneSave
<1>18. CASE Check
  BY <1>18 DEF Check, SavePathInv, Manifests, Past, RevisionNamesOneSave
<1>19. CASE Act
  BY <1>19 DEF Act, SavePathInv, Manifests, Past, RevisionNamesOneSave
<1>20. CASE UNCHANGED vars
  BY <1>20 DEF SavePathInv, Manifests, Past, RevisionNamesOneSave
<1> QED
  BY <1>1, <1>2, <1>3, <1>4, <1>5, <1>6, <1>7, <1>8, <1>9, <1>10, <1>11, <1>12,
     <1>13, <1>14, <1>15, <1>16, <1>17, <1>18, <1>19, <1>20
  DEF SavePathNext, Console, Turn

(* A pin stays an upload that was current, and behind once its campaign has  *)
(* another (identity, assert_current).                                       *)
LEMMA PinnedStep ==
  ASSUME TypeOK, SavePathInv, [SavePathNext]_vars
  PROVE  Pinned'
<1>1. ASSUME NEW f \in Files, NEW s \in Contents, BeginWrite(f, s)
      PROVE  Pinned'
  BY <1>1 DEF BeginWrite, SavePathInv, Pinned
<1>2. ASSUME NEW f \in Files, FinishWrite(f)
      PROVE  Pinned'
  BY <1>2 DEF FinishWrite, SavePathInv, Pinned
<1>3. ASSUME NEW stable \in SUBSET Unchanged, Scan(stable)
      PROVE  Pinned'
  BY <1>3 DEF Scan, SavePathInv, Pinned
<1>4. CASE Digest
  BY <1>4 DEF Digest, SavePathInv, Pinned
<1>5. CASE Send
  BY <1>5 DEF Send, SavePathInv, Pinned
<1>6. CASE Uploaded
  BY <1>6 DEF Uploaded, SavePathInv, Pinned
<1>7. CASE Refused
  BY <1>7 DEF Refused, SavePathInv, Pinned
<1>8. CASE UploadFails
  BY <1>8 DEF UploadFails, SavePathInv, Pinned
<1>9. ASSUME NEW keeps \in BOOLEAN, UploaderRestarts(keeps)
      PROVE  Pinned'
  BY <1>9 DEF UploaderRestarts, SavePathInv, Pinned
<1>10. CASE Store
  BY <1>10 DEF Store, SavePathInv, Pinned
<1>11. CASE WriteCampaignManifest
  <2> DEFINE c == recv.campaign
  <2>1. /\ c \in Campaigns /\ recv.revision \in Nat /\ Follows(c, recv.sent.save, recv.revision)
        /\ UNCHANGED <<published, turn, moved, current>>
    BY <1>11
      DEF WriteCampaignManifest, TypeOK, ConsoleTypeOK, UploadSet, SavePathInv,
          Uploading
  <2>2. \A d \in Campaigns : ofCampaign[d].revision \in Nat
    BY DEF TypeOK, ConsoleTypeOK, ManifestSet
  <2>3. \A d \in Campaigns : ofCampaign[d].save # NoSave =>
          ofCampaign[d].revision <= ofCampaign'[d].revision
    BY <1>11, <2>1, <2>2 DEF WriteCampaignManifest, Follows
  <2>4. moved => turn.pin.campaign \in Campaigns /\ ofCampaign[turn.pin.campaign].save # NoSave
    <3>1. moved => <<turn.pin.campaign, turn.pin.revision, turn.pin.save>> \in published
      BY DEF SavePathInv, Pinned
    <3> QED
      BY <3>1 DEF SavePathInv, Pinned, Manifests, Past
  <2>5. turn.pin.revision \in Nat /\ \A d \in Campaigns : ofCampaign'[d].revision \in Nat
    BY ConsoleTypeStep
      DEF TypeOK, TurnTypeOK, TurnSet, IdentitySet, ConsoleTypeOK, ManifestSet
  <2> QED
    BY <2>1, <2>2, <2>3, <2>4, <2>5 DEF SavePathInv, Pinned
<1>12. CASE WriteCurrentManifest
  <2>1. /\ recv.campaign \in Campaigns /\ recv.revision \in Nat
        /\ ofCampaign[recv.campaign].save = recv.sent.save
        /\ ofCampaign[recv.campaign].revision = recv.revision
    BY <1>12
      DEF WriteCurrentManifest, TypeOK, ConsoleTypeOK, UploadSet, SavePathInv,
          Uploading
  <2>2. /\ published \subseteq published' /\ UNCHANGED <<turn, ofCampaign>>
        /\ current'.campaign = recv.campaign /\ current'.revision = recv.revision
        /\ moved' = (moved \/ (recv.campaign = turn.pin.campaign /\ recv.sent.save # turn.pin.save))
    BY <1>12 DEF WriteCurrentManifest
  <2>3. turn.pin.revision \in Nat
    BY DEF TypeOK, TurnTypeOK, TurnSet, IdentitySet
  <2>4. CASE recv.campaign = turn.pin.campaign /\ recv.sent.save # turn.pin.save
    <3>1. Past(<<turn.pin.campaign, turn.pin.revision, turn.pin.save>>)
      BY <2>1, <2>4 DEF SavePathInv, Pinned, Manifests
    <3>2. turn.pin.revision < recv.revision
      BY <2>1, <2>3, <2>4, <3>1 DEF Past
    <3> QED
      BY <2>1, <2>2, <2>4, <3>2 DEF SavePathInv, Pinned
  <2>5. CASE ~(recv.campaign = turn.pin.campaign /\ recv.sent.save # turn.pin.save)
    BY <2>1, <2>2, <2>5 DEF SavePathInv, Pinned
  <2> QED BY <2>4, <2>5
<1>13. CASE AnswerLost
  BY <1>13 DEF AnswerLost, SavePathInv, Pinned
<1>14. CASE ConsoleRestarts
  <2>1. turn'.pin.campaign = NoCampaign /\ moved' = FALSE
    BY <1>14 DEF ConsoleRestarts, NoTurn, NoIdentity
  <2> QED
    BY <2>1, SavePathAssumption DEF Pinned
<1>15. CASE Resolve
  BY <1>15 DEF Resolve, SavePathInv, Pinned
<1>16. CASE TryAgain
  BY <1>16 DEF TryAgain, SavePathInv, Pinned
<1>17. CASE Pin
  <2>1. turn'.pin = Identity /\ moved' = FALSE /\ UNCHANGED published
    BY <1>17 DEF Pin
  <2>2. CASE Matches
    <3>1. turn.path \in Campaigns \X Contents
      BY <1>17 DEF Pin, TypeOK, TurnTypeOK
    <3>2. current.save # NoSave /\ current.save = turn.path[2]
      BY <2>2, <3>1, SavePathAssumption DEF Matches
    <3>3. /\ Identity.campaign = current.campaign /\ Identity.revision = current.revision
          /\ Identity.save = current.save
      BY <2>2, <3>2 DEF Identity
    <3> QED
      BY <2>1, <3>2, <3>3 DEF SavePathInv, Manifests, Pinned
  <2>3. CASE ~Matches
    <3>1. Identity.campaign = NoCampaign
      BY <2>3 DEF Identity
    <3> QED
      BY <2>1, <3>1, SavePathAssumption DEF Pinned
  <2> QED BY <2>2, <2>3
<1>18. CASE Check
  <2>1. CASE turn' = NoTurn
    <3>1. turn'.pin.campaign = NoCampaign /\ turn'.pc # "passed"
      BY <2>1 DEF NoTurn, NoIdentity
    <3>2. moved' = FALSE
      <4>1. moved' = (moved /\ turn'.pc = "passed")
        BY <1>18 DEF Check
      <4> HIDE DEF vars, turnVars
      <4> QED BY <3>1, <4>1
    <3> QED
      BY <3>1, <3>2, SavePathAssumption DEF Pinned
  <2>2. CASE turn' # NoTurn
    <3>1. turn'.pin = turn.pin /\ (moved' => moved) /\ UNCHANGED <<published, ofCampaign, current>>
      BY <1>18, <2>2 DEF Check, TypeOK, TurnTypeOK
    <3> QED
      BY <3>1 DEF SavePathInv, Pinned
  <2> QED BY <2>1, <2>2
<1>19. CASE Act
  <2>1. CASE turn' = NoTurn
    <3>1. turn'.pin.campaign = NoCampaign /\ moved' = FALSE
      BY <1>19, <2>1 DEF Act, NoTurn, NoIdentity
    <3> QED
      BY <3>1, SavePathAssumption DEF Pinned
  <2>2. CASE turn' # NoTurn
    <3>1. turn'.pin = turn.pin /\ (moved' => moved) /\ UNCHANGED <<published, ofCampaign, current>>
      BY <1>19, <2>2 DEF Act, TypeOK, TurnTypeOK, TurnSet
    <3> QED
      BY <3>1 DEF SavePathInv, Pinned
  <2> QED BY <2>1, <2>2
<1>20. CASE UNCHANGED vars
  BY <1>20 DEF SavePathInv, Pinned
<1> QED
  BY <1>1, <1>2, <1>3, <1>4, <1>5, <1>6, <1>7, <1>8, <1>9, <1>10, <1>11, <1>12,
     <1>13, <1>14, <1>15, <1>16, <1>17, <1>18, <1>19, <1>20
  DEF SavePathNext, Console, Turn

(* Types and the invariant hold in every state of the uploader, the console  *)
(* and the turn (cycle, receive_uploaded_save and identity).                 *)
LEMMA SavePathInvariance == SavePathSpec => [](TypeOK /\ SavePathInv)
<1>1. SavePathInit => TypeOK /\ SavePathInv
  <2> SUFFICES ASSUME SavePathInit PROVE TypeOK /\ SavePathInv
    OBVIOUS
  <2>1. HostTypeOK
    <3>1. PICK s \in [Files -> Contents] :
            disk = [f \in Files |->
                      [save  |-> s[f],
                       mtime |-> RecentFrom - (IF f = StartFile THEN 0 ELSE 1),
                       whole |-> TRUE]]
      BY DEF SavePathInit
    <3>2. disk \in [Files -> DiskFile]
      <4>1. \A f \in Files : RecentFrom - (IF f = StartFile THEN 0 ELSE 1) \in Nat
        BY SavePathAssumption
      <4> QED BY <3>1, <4>1 DEF DiskFile
    <3>3. observed \in [Files -> Nat \X BOOLEAN]
      BY DEF SavePathInit, Unseen
    <3>4. state \in StateSet /\ up \in CycleSet /\ up.pc = "scan"
      BY SavePathAssumption
         DEF SavePathInit, StateSet, CycleSet, FileSet, NoState, Idle, NoFile
    <3> QED BY <3>2, <3>3, <3>4 DEF HostTypeOK
  <2>2. ConsoleTypeOK /\ TurnTypeOK
    BY SavePathAssumption
      DEF SavePathInit, ConsoleTypeOK, UploadSet, FileSet, NoUpload, NoFile,
       ManifestSet, CurrentSet, TurnTypeOK, TurnSet, NoTurn, NoIdentity, IdentitySet
  <2>3. SavePathInv
    BY SavePathAssumption
       DEF SavePathInit, SavePathInv, Uploading, Manifests, Pinned, NoUpload, NoTurn,
           NoIdentity, RevisionNamesOneSave
  <2> QED BY <2>1, <2>2, <2>3 DEF TypeOK
<1>2. TypeOK /\ SavePathInv /\ [SavePathNext]_vars => (TypeOK /\ SavePathInv)'
  BY HostTypeStep, ConsoleTypeStep, TurnTypeStep, UploadingStep, ManifestsStep, PinnedStep
     DEF TypeOK, SavePathInv
<1> QED BY <1>1, <1>2, PTL DEF SavePathSpec

(* Whatever step a crash falls behind, a manifest names a save that is       *)
(* stored whole as it was declared, and the current one is not ahead of its  *)
(* campaign's (receive_uploaded_save).                                       *)
THEOREM SavePathManifestsNameStoredSaves == SavePathSpec => []ManifestsNameStoredSaves
<1>1. TypeOK /\ SavePathInv => ManifestsNameStoredSaves
  BY DEF TypeOK, ConsoleTypeOK, SavePathInv, Uploading, Manifests, Past,
         ManifestsNameStoredSaves
<1> QED BY <1>1, SavePathInvariance, PTL

(* A revision of a campaign names one save for ever (save_manifest_revision  *)
(* and the two manifests).                                                   *)
THEOREM SavePathRevisionNamesOneSave == SavePathSpec => []RevisionNamesOneSave
<1>1. SavePathInv => RevisionNamesOneSave
  BY DEF SavePathInv, Manifests
<1> QED BY <1>1, SavePathInvariance, PTL

(* assert_current lets a turn go on only while no other save of its campaign *)
(* was current since it was pinned.                                          *)
THEOREM SavePathPassedMeansUnmoved == SavePathSpec => PassedMeansUnmoved
<1>1. TypeOK /\ SavePathInv /\ [SavePathNext]_vars =>
        [turn.pc = "reread" /\ turn'.pc = "passed" => ~moved]_vars
  <2> SUFFICES ASSUME TypeOK, SavePathInv, SavePathNext, turn.pc = "reread",
                      turn'.pc = "passed", moved
               PROVE  FALSE
    OBVIOUS
  <2>1. Check
    <3>1. turn' # turn /\ turn' # NoTurn
      BY DEF NoTurn
    <3>2. turn \in TurnSet
      BY DEF TypeOK, TurnTypeOK
    <3>3. ~ConsoleRestarts
      BY <3>1 DEF ConsoleRestarts
    <3>4. ~Resolve /\ ~TryAgain /\ ~Pin /\ ~Act
      BY <3>2 DEF Resolve, TryAgain, Pin, Act, TurnSet
    <3> HIDE DEF NoTurn
    <3> QED
      BY <3>1, <3>3, <3>4
         DEF SavePathNext, Console, Turn, BeginWrite, FinishWrite, Scan, Digest, Send,
             Uploaded, Refused, UploadFails, UploaderRestarts, Store, WriteCampaignManifest,
             WriteCurrentManifest, AnswerLost
  <2>2. Identity = turn.pin
    BY <2>1 DEF Check, SameIdentity, NoTurn
  <2>3. turn.pin.campaign \in Campaigns /\ turn.pin.campaign # NoCampaign
    BY SavePathAssumption DEF SavePathInv, Pinned
  <2>4. current.campaign = turn.pin.campaign /\ current.revision = turn.pin.revision
    BY <2>2, <2>3 DEF Identity, Matches
  <2>5. turn.pin.revision < current.revision
    BY <2>4 DEF SavePathInv, Pinned
  <2> QED BY <2>4, <2>5 DEF TypeOK, ConsoleTypeOK, CurrentSet
<1> QED BY <1>1, SavePathInvariance, PTL DEF SavePathSpec, PassedMeansUnmoved
=============================================================================
