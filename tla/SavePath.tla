------------------------------- MODULE SavePath -------------------------------
(***************************************************************************)
(* The way of a save from the host's disk to a turn of an agent: the       *)
(* uploader (src/apps/host_bridge/iag_save_uploader.py) finds a stable     *)
(* file and posts it, the console (stellaris/state/save_ingest.py) stores  *)
(* it and replaces two manifests one after the other, and a turn           *)
(* (stellaris/state/world_snapshot.py) takes the identity of the current   *)
(* save in two reads and compares it again before it acts.                 *)
(*                                                                         *)
(* A save is a model value standing for its bytes and its hash; a file     *)
(* that is being written has its save and whole = FALSE.                   *)
(***************************************************************************)
EXTENDS Integers, FiniteSets, FiniteSetsExt

CONSTANTS
  Files,       \* paths of .sav files on the host
  Campaigns,
  DirOf,       \* DirOf[f]: the campaign whose directory holds f
  Contents,    \* what a save can contain
  NoSave,
  NoCampaign,
  StartFile,   \* the file that is newest at first, the others are too old
  StartSave,   \* what it contains then
  RecentFrom,  \* the first mtime that is recent enough to start with
  MaxMtime,    \* bound: file writes of the game
  MaxFaults    \* bound: crashes, restarts and lost answers together

ASSUME SavePathAssumption ==
  /\ DirOf \in [Files -> Campaigns]
  /\ IsFiniteSet(Files) /\ IsFiniteSet(Campaigns) /\ IsFiniteSet(Contents)
  /\ NoSave \notin Contents /\ NoCampaign \notin Campaigns
  /\ StartFile \in Files /\ StartSave \in Contents
  /\ RecentFrom \in Nat \ {0, 1} /\ MaxMtime \in Nat /\ MaxFaults \in Nat

VARIABLES
  disk,      \* disk[f]: [save, mtime, whole] as the game wrote it
  observed,  \* observed[f]: signature at the uploader's previous scan
  state,     \* the uploader's state file: [campaign, save, mtime]
  up,        \* the uploader's cycle: [pc, file, mtime, digest]
  recv,      \* the upload the console handles: [pc, campaign, sent, digest, revision]
  stored,    \* stored[c][s]: modification stamp of the stored save, 0 when absent
  ofCampaign,\* ofCampaign[c]: [save, revision], the campaign's own manifest
  current,   \* [campaign, save, revision], the manifest of the current save
  turn,      \* a turn: [pc, campaign, path, attempt, pin]
  moved,     \* history: another save of the pin's campaign was current since
  published, \* history: <<campaign, revision, save>> that were current
  faults

hostVars    == <<disk, observed, state, up>>
consoleVars == <<recv, stored, ofCampaign, current, published>>
turnVars    == <<turn, moved>>
vars == <<hostVars, consoleVars, turnVars, faults>>

NoFile   == [save |-> NoSave, whole |-> TRUE]
Signature(f) == <<disk[f].mtime, disk[f].whole>>
Unseen   == <<0, TRUE>>
Idle     == [pc |-> "scan", file |-> StartFile, mtime |-> 0, digest |-> NoFile]
NoState  == [campaign |-> NoCampaign, save |-> NoSave, mtime |-> 0]
NoUpload == [pc |-> "idle", campaign |-> NoCampaign, sent |-> NoFile, digest |-> NoFile,
             revision |-> 0]
NoIdentity == [campaign |-> NoCampaign, save |-> NoSave, stamp |-> 0, revision |-> 0]
NoTurn   == [pc |-> "idle", path |-> <<NoCampaign, NoSave>>, attempt |-> 0,
             pin |-> NoIdentity]

SavePathInit ==
  /\ \E s \in {t \in [Files -> Contents] : t[StartFile] = StartSave} :
       disk = [f \in Files |-> [save  |-> s[f],
                                mtime |-> RecentFrom - (IF f = StartFile THEN 0 ELSE 1),
                                whole |-> TRUE]]
  /\ observed = [f \in Files |-> Unseen] /\ state = NoState /\ up = Idle
  /\ recv = NoUpload /\ stored = [c \in Campaigns |-> [s \in Contents |-> 0]]
  /\ ofCampaign = [c \in Campaigns |-> [save |-> NoSave, revision |-> 0]]
  /\ current = [campaign |-> NoCampaign, save |-> NoSave, revision |-> 0]
  /\ turn = NoTurn /\ moved = FALSE /\ published = {} /\ faults = 0

Newest(S) == CHOOSE f \in S : \A g \in S : disk[g].mtime <= disk[f].mtime

Clock == Max({disk[f].mtime : f \in Files})

-----------------------------------------------------------------------------
(* The game writes a file; the same bytes may come back (a rollback).      *)

BeginWrite(f, s) ==
  /\ Clock < MaxMtime
  /\ disk' = [disk EXCEPT ![f] = [save |-> s, mtime |-> Clock + 1, whole |-> FALSE]]
  /\ UNCHANGED <<observed, state, up, consoleVars, turnVars, faults>>

FinishWrite(f) ==
  /\ ~disk[f].whole
  /\ disk' = [disk EXCEPT ![f].whole = TRUE]
  /\ UNCHANGED <<observed, state, up, consoleVars, turnVars, faults>>

-----------------------------------------------------------------------------
(* The uploader.                                                           *)

\* Defect: newer saves of another campaign are ignored once one is locked.
EligibleInLocked(stable) ==
  LET mine == {f \in stable : state.campaign \in {NoCampaign, DirOf[f]}
                              /\ disk[f].mtime >= state.mtime}
  IN IF mine = {} THEN {} ELSE {Newest(mine)}

(* _eligible_candidate: a newer save elsewhere wins over the locked one.   *)
Eligible(stable) ==
  LET elsewhere == {f \in stable : DirOf[f] # state.campaign /\ disk[f].mtime > state.mtime}
      mine      == {f \in stable : DirOf[f] = state.campaign /\ disk[f].mtime >= state.mtime}
  IN IF state.campaign = NoCampaign
     THEN IF stable # {} /\ disk[Newest(stable)].mtime >= RecentFrom
          THEN {Newest(stable)} ELSE {}
     ELSE IF elsewhere # {} THEN {Newest(elsewhere)}
     ELSE IF mine # {} THEN {Newest(mine)} ELSE {}

Unchanged == {f \in Files : observed[f] = Signature(f)}

(* scan() and the choice of cycle(); which unchanged files are stable      *)
(* already is a matter of time.  Choosing another directory locks it.      *)
Scan(stable) ==
  /\ up.pc = "scan"
  /\ observed' = [f \in Files |-> Signature(f)]
  /\ IF Eligible(stable) = {} THEN UNCHANGED <<state, up>>
     ELSE \E f \in Eligible(stable) :
            /\ up' = [up EXCEPT !.pc = "chosen", !.file = f, !.mtime = disk[f].mtime]
            /\ state' = [state EXCEPT !.campaign = DirOf[f]]
  /\ UNCHANGED <<disk, consoleVars, turnVars, faults>>

Archive(f) == [save |-> disk[f].save, whole |-> disk[f].whole]

(* parse_save_metadata and sha256_file; a torn archive fails the cycle,    *)
(* what was uploaded last is left alone.                                   *)
Digest ==
  /\ up.pc = "chosen"
  /\ LET file == Archive(up.file)
         unchanged == file.save = state.save /\ up.mtime = state.mtime
     IN up' = IF ~file.whole \/ unchanged
              THEN Idle ELSE [up EXCEPT !.pc = "digested", !.digest = file]
  /\ UNCHANGED <<disk, observed, state, consoleVars, turnVars, faults>>

(* upload(): the bytes are those the file has now, the declared length and *)
(* hash the earlier ones.  The console takes one upload at a time.         *)
Send ==
  /\ up.pc = "digested" /\ recv.pc = "idle"
  /\ recv' = [pc |-> "received", campaign |-> state.campaign, sent |-> Archive(up.file),
              digest |-> up.digest, revision |-> 0]
  /\ up' = [up EXCEPT !.pc = "waiting"]
  /\ UNCHANGED <<disk, observed, state, stored, ofCampaign, current, published, turnVars,
                 faults>>

Uploaded ==
  /\ up.pc = "waiting" /\ recv.pc = "done"
  /\ state' = [campaign |-> state.campaign, save |-> up.digest.save, mtime |-> up.mtime]
  /\ up' = Idle /\ recv' = NoUpload
  /\ UNCHANGED <<disk, observed, stored, ofCampaign, current, published, turnVars, faults>>

Refused ==
  /\ up.pc = "waiting" /\ recv.pc = "rejected"
  /\ up' = Idle /\ recv' = NoUpload
  /\ UNCHANGED <<disk, observed, state, stored, ofCampaign, current, published, turnVars,
                 faults>>

(* A timeout or a lost answer: the console finishes what it has.           *)
UploadFails ==
  /\ faults < MaxFaults /\ up.pc = "waiting"
  /\ faults' = faults + 1 /\ up' = Idle
  /\ UNCHANGED <<disk, observed, state, consoleVars, turnVars>>

(* The uploader is restarted, its campaign lock kept or reset.             *)
UploaderRestarts(keeps) ==
  /\ faults < MaxFaults /\ faults' = faults + 1
  /\ up' = Idle /\ observed' = [f \in Files |-> Unseen]
  /\ state' = IF keeps THEN state ELSE NoState
  /\ UNCHANGED <<disk, consoleVars, turnVars>>

-----------------------------------------------------------------------------
(* The console: receive_uploaded_save, under _save_upload_lock.            *)

\* Defect: the archive is checked, the hash of the header is not.
WholeArchive == recv.sent.whole

Accepted == /\ recv.sent = recv.digest /\ recv.sent.whole

(* Without a manifest of its own a campaign goes on from the revision of   *)
(* the current manifest, whosever it is (save_manifest_revision of None).  *)
Previous(c) ==
  IF ofCampaign[c].save = NoSave THEN [save |-> NoSave, revision |-> current.revision]
  ELSE ofCampaign[c]

NextStamp == 1 + Max({stored[c][s] : c \in Campaigns, s \in Contents})

\* Defect: an archive that is retained already is no new revision.
RevisionOfArchive(c, s) ==
  IF stored[c][s] # 0 THEN Max({Previous(c).revision, 1}) ELSE Previous(c).revision + 1

RevisionAfter(c, s) ==
  IF Previous(c).save = s THEN Max({Previous(c).revision, 1}) ELSE Previous(c).revision + 1

(* A new file has the time of its upload; a retained one that is not the   *)
(* campaign's latest is touched.                                           *)
StampOf(c, s) ==
  IF stored[c][s] # 0 /\ Previous(c).save = s THEN stored[c][s] ELSE NextStamp

Store ==
  /\ recv.pc = "received"
  /\ LET c == recv.campaign
         s == recv.sent.save
     IN \/ /\ Accepted
           /\ stored' = [stored EXCEPT ![c][s] = StampOf(c, s)]
           /\ recv' = [recv EXCEPT !.pc = "stored", !.revision = RevisionAfter(c, s)]
        \/ /\ ~Accepted
           /\ recv' = [recv EXCEPT !.pc = "rejected"]
           /\ UNCHANGED stored
  /\ UNCHANGED <<hostVars, ofCampaign, current, published, turnVars, faults>>

WriteCampaignManifest ==
  /\ recv.pc = "stored"
  /\ ofCampaign' = [ofCampaign EXCEPT ![recv.campaign] =
                      [save |-> recv.sent.save, revision |-> recv.revision]]
  /\ recv' = [recv EXCEPT !.pc = "campaign"]
  /\ UNCHANGED <<hostVars, stored, current, published, turnVars, faults>>

WriteCurrentManifest ==
  /\ recv.pc = "campaign"
  /\ current' = [campaign |-> recv.campaign, save |-> recv.sent.save,
                 revision |-> recv.revision]
  /\ published' = published \cup {<<recv.campaign, recv.revision, recv.sent.save>>}
  /\ moved' = (moved \/ (recv.campaign = turn.pin.campaign
                         /\ recv.sent.save # turn.pin.save))
  /\ recv' = [recv EXCEPT !.pc = "done"]
  /\ UNCHANGED <<hostVars, stored, ofCampaign, turn, faults>>

\* Nobody waits for the answer any more.
AnswerLost ==
  /\ recv.pc \in {"done", "rejected"} /\ up.pc # "waiting"
  /\ recv' = NoUpload
  /\ UNCHANGED <<hostVars, stored, ofCampaign, current, published, turnVars, faults>>

(* A crash loses the handler and every turn; files and manifests stay.     *)
ConsoleRestarts ==
  /\ faults < MaxFaults /\ faults' = faults + 1
  /\ recv' = NoUpload /\ turn' = NoTurn /\ moved' = FALSE
  /\ up' = IF up.pc = "waiting" THEN Idle ELSE up
  /\ UNCHANGED <<disk, observed, state, stored, ofCampaign, current, published>>

-----------------------------------------------------------------------------
(* A turn: WorldStateService.identity, first to pin, later to check.       *)

Resolve ==
  /\ turn.pc \in {"idle", "pinned", "resolve", "again"}
  /\ current.save # NoSave
  /\ turn.pc \in {"pinned", "again"} => current.campaign = turn.pin.campaign
  /\ turn' = [turn EXCEPT
       !.pc = IF turn.pc \in {"idle", "resolve"} THEN "read" ELSE "reread",
       !.path = <<current.campaign, current.save>>,
       !.attempt = @ + 1]
  /\ UNCHANGED <<hostVars, consoleVars, moved, faults>>

Matches == turn.path = <<current.campaign, current.save>>

(* The manifest that is read second must still name the path; after three  *)
(* attempts the file is hashed and has no revision.                        *)
Identity == [campaign |-> IF Matches THEN current.campaign ELSE NoCampaign,
             save     |-> turn.path[2],
             stamp    |-> stored[turn.path[1]][turn.path[2]],
             revision |-> IF Matches THEN current.revision ELSE 0]

TryAgain ==
  /\ turn.pc \in {"read", "reread"} /\ ~Matches /\ turn.attempt < 3
  /\ turn' = [turn EXCEPT !.pc = IF turn.pc = "read" THEN "resolve" ELSE "again"]
  /\ UNCHANGED <<hostVars, consoleVars, moved, faults>>

Pin ==
  /\ turn.pc = "read" /\ (Matches \/ turn.attempt = 3)
  /\ turn' = [turn EXCEPT !.pc = "pinned", !.pin = Identity, !.path = NoTurn.path,
                          !.attempt = 0]
  /\ moved' = FALSE
  /\ UNCHANGED <<hostVars, consoleVars, faults>>

\* Defect: the content is compared, not the upload it came with.
SameContent(i, j) == i.campaign = j.campaign /\ i.save = j.save

SameIdentity(i, j) == i = j

(* assert_current: the turn goes on, or ends.                              *)
Check ==
  /\ turn.pc = "reread" /\ (Matches \/ turn.attempt = 3)
  /\ turn' = IF SameIdentity(Identity, turn.pin)
             THEN [turn EXCEPT !.pc = "passed", !.path = NoTurn.path, !.attempt = 0]
             ELSE NoTurn
  /\ moved' = (moved /\ turn'.pc = "passed")
  /\ UNCHANGED <<hostVars, consoleVars, faults>>

Act ==
  /\ turn.pc = "passed"
  /\ turn' \in {NoTurn, [turn EXCEPT !.pc = "pinned"]}
  /\ moved' = (moved /\ turn'.pc = "pinned")
  /\ UNCHANGED <<hostVars, consoleVars, faults>>

-----------------------------------------------------------------------------
Uploader == Scan(Unchanged) \/ Digest \/ Send \/ Uploaded \/ Refused
Console  == Store \/ WriteCampaignManifest \/ WriteCurrentManifest \/ AnswerLost
Turn     == Resolve \/ TryAgain \/ Pin \/ Check \/ Act

SavePathNext ==
  \/ \E f \in Files, s \in Contents : BeginWrite(f, s)
  \/ \E f \in Files : FinishWrite(f)
  \/ \E stable \in SUBSET Unchanged : Scan(stable)
  \/ Digest \/ Send \/ Uploaded \/ Refused \/ UploadFails
  \/ \E keeps \in BOOLEAN : UploaderRestarts(keeps)
  \/ Console \/ ConsoleRestarts
  \/ Turn

(* The loops of the uploader and the handler go on (poll_seconds), a file  *)
(* the game began is finished, and a file that no longer changes has been  *)
(* unchanged for stability_seconds at some scan and at every later one.    *)
SavePathSpec ==
  /\ SavePathInit /\ [][SavePathNext]_vars
  /\ WF_vars(Uploader) /\ WF_vars(Console) /\ \A f \in Files : WF_vars(FinishWrite(f))
  /\ SF_vars(Scan(Unchanged))

-----------------------------------------------------------------------------
(* What a manifest names is stored, whole and as it was declared, and the  *)
(* current manifest is never ahead of its campaign's one, whenever a crash *)
(* falls between the writes of receive_uploaded_save.                      *)
ManifestsNameStoredSaves ==
  /\ \A c \in Campaigns : ofCampaign[c].save # NoSave => stored[c][ofCampaign[c].save] # 0
  /\ current.save # NoSave =>
       /\ stored[current.campaign][current.save] # 0
       /\ current.revision <= ofCampaign[current.campaign].revision
       /\ current.revision = ofCampaign[current.campaign].revision =>
            current.save = ofCampaign[current.campaign].save
  /\ recv.pc \in {"stored", "campaign", "done"} =>
       recv.sent.whole /\ recv.sent.save = recv.digest.save

(* A revision of a campaign names one save for ever: what                  *)
(* validate_source_save counts as lag, and what identities compare.        *)
RevisionNamesOneSave ==
  \A p, q \in published : p[1] = q[1] /\ p[2] = q[2] => p[3] = q[3]

(* A turn passes the check of assert_current only while no other save of   *)
(* its campaign was current since it was pinned, the return of the same    *)
(* bytes as a new upload included.                                         *)
PassedMeansUnmoved ==
  [][turn.pc = "reread" /\ turn'.pc = "passed" => ~moved]_vars

(* When the game stops writing, its newest save becomes the current one,   *)
(* whatever failed on the way (cycle and its retries).                     *)
NewestSaveArrives ==
  <>[](/\ disk[Newest(Files)].mtime >= RecentFrom
       => /\ current.save = disk[Newest(Files)].save
          /\ current.campaign = DirOf[Newest(Files)])
===============================================================================
