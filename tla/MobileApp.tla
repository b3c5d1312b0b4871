------------------------------ MODULE MobileApp ------------------------------
(***************************************************************************)
(* The mobile app away from payments: moving between the screens, what the *)
(* home, security and freeze screens say of the wallet, the stored         *)
(* settings, and the sounds.  A screen asks the payments API for the       *)
(* balance when it is mounted; freezing is a request of its own that can   *)
(* be refused, time out, or be carried out after the customer has gone.    *)
(* The passkey prompt changes no state: a refused one is a refusal.        *)
(***************************************************************************)
EXTENDS MobileStorage

VARIABLES
  wallet,       \* status of the wallet at the ledger
  frozen,       \* the mounted screen's idea of it
  sure,         \* history: the wallet has not changed behind the screen since the answer it
                \* took last was given
  reads,        \* balance requests of the mounted screen
  loading, busy,\* of the freeze screen
  call,         \* its request to freeze or unfreeze
  late,         \* such requests nobody waits for
  jobs,         \* imports and removals of a custom sound that are under way
  files,        \* the sound files imported so far: which are still there
  shared,       \* the click player uses the provider's own services object
  torn          \* the app was killed between removing a file and recording it

walletVars == <<wallet, frozen, sure, reads, loading, busy, call, late>>
soundVars  == <<jobs, files, shared, torn>>
mobileVars == <<nav, storageVars, walletVars, soundVars>>

BalanceViews == {"home", "security", "freeze"}
NoCall       == [act |-> "none", stage |-> "none"]

\* `fresh' is history: the answer was given, and the wallet has not changed behind the
\* screen since.
Read(kind) == [kind |-> kind, val |-> "sent", fresh |-> FALSE]

MobileTypeOK ==
  /\ nav \in Navs /\ Mounted \in Rendered
  /\ DOMAIN disk = Records /\ DOMAIN mem = Prefs /\ edits \in 0..MaxEdits
  /\ disk["security"] = Unset \/ DOMAIN disk["security"] = DOMAIN DefaultSecurity
  /\ copy = Unset \/ DOMAIN copy = DOMAIN DefaultRecord[Mounted]
  /\ \A i \in DOMAIN ops : ops[i].kind \in {"hydrate", "load", "patch", "write", "pref"}
  /\ wallet \in {"active", "frozen"} /\ {frozen, sure, loading, busy, shared, torn} \subseteq BOOLEAN
  /\ reads \subseteq [kind: {"mount", "again"}, val: {"sent", "active", "frozen", "failed"}, fresh: BOOLEAN]
  /\ call \in [act: {"freeze", "unfreeze"}, stage: {"sent", "done"}] \cup {NoCall}
  /\ late \subseteq {"freeze", "unfreeze"}
  /\ files \in Seq(BOOLEAN)
  /\ mem["sound"].uri \in DOMAIN files \cup {Unset}

-----------------------------------------------------------------------------
(* Moving.  Mounting a screen resets what the last one held. *)

Visit(screen) ==
  /\ VisitStorage(screen)
  /\ frozen' = FALSE
  /\ sure' = FALSE
  /\ reads' = IF screen \in BalanceViews THEN {Read("mount")} ELSE {}
  /\ loading' = (screen = "freeze")
  /\ busy' = FALSE
  /\ call' = NoCall
  /\ late' = IF call.stage = "sent" THEN late \cup {call.act} ELSE late
  /\ UNCHANGED <<wallet, soundVars>>

\* The button to the security centre is there while the home screen shows the alert.
Navigate ==
  \E n \in Taps(nav) \cup
           (IF Mounted = "home" /\ frozen THEN {AfterGo(nav, t) : t \in HomeAlertLinks} ELSE {}) :
    /\ edits > 0 => InCore(n)
    /\ nav' = n
    /\ IF Shown(n) = Mounted THEN UNCHANGED <<storageVars, walletVars, soundVars>>
                             ELSE Visit(Shown(n))

-----------------------------------------------------------------------------
(* The wallet *)

Others == <<nav, storageVars, soundVars>>

\* fetchBalance, carried out by the services: the status, or no usable answer.
ServeRead ==
  \E r \in reads :
    /\ r.val = "sent"
    /\ \E answer \in {[r EXCEPT !.val = wallet, !.fresh = TRUE], [r EXCEPT !.val = "failed"]} :
         reads' = (reads \ {r}) \cup {answer}
    /\ UNCHANGED <<Others, wallet, frozen, sure, loading, busy, call, late>>

\* The answer reaches the screen, which keeps no order: the last to arrive counts.  No
\* answer leaves the screen's idea as it was.
TakeRead ==
  \E r \in reads :
    /\ r.val # "sent"
    /\ reads' = reads \ {r}
    /\ frozen' = IF r.val = "failed" THEN frozen ELSE r.val = "frozen"
    /\ sure' = IF r.val = "failed" THEN sure ELSE r.fresh
    /\ loading' = FALSE
    /\ busy' = (busy /\ r.kind = "mount")
    /\ UNCHANGED <<Others, wallet, call, late>>

\* Pulling down on the home screen loads again, whatever the first load is doing.
RefreshHome ==
  /\ Mounted = "home"
  /\ Edit
  /\ \A r \in reads : r.kind # "again"
  /\ reads' = reads \cup {Read("again")}
  /\ UNCHANGED <<nav, disk, ops, copy, behind, settled, mem, overtaken, soundVars,
                 wallet, frozen, sure, loading, busy, call, late>>

\* Fault: the buttons do not wait for the first balance.
FreezeButtonAlways == ~busy

\* One button: Freeze when the wallet looks active, Unfreeze when it looks frozen.
FreezeButton == ~loading /\ ~busy

\* authoriseAnd, up to the request.
PressFreeze ==
  /\ Mounted = "freeze" /\ FreezeButton
  /\ Edit
  /\ busy' = TRUE
  /\ call' = [act |-> IF frozen THEN "unfreeze" ELSE "freeze", stage |-> "sent"]
  /\ UNCHANGED <<nav, disk, ops, copy, behind, settled, mem, overtaken, soundVars,
                 wallet, frozen, sure, reads, loading, late>>

StatusAfter(act) == IF act = "freeze" THEN "frozen" ELSE "active"

\* The services carry the request out.
ServeFreeze ==
  /\ call.stage = "sent"
  /\ wallet' = StatusAfter(call.act)
  /\ call' = [call EXCEPT !.stage = "done"]
  /\ sure' = TRUE
  /\ UNCHANGED <<Others, frozen, reads, loading, busy, late>>

\* Its answer arrives: the screen shows the new status and reads the balance again.
FreezeAnswered ==
  /\ call.stage = "done"
  /\ frozen' = (call.act = "freeze")
  /\ reads' = reads \cup {Read("again")}
  /\ call' = NoCall
  /\ UNCHANGED <<Others, wallet, sure, loading, busy, late>>

\* Refused, or no answer: a message and nothing else, although a request that got no
\* answer may have been carried out or may be later.
FreezeFails ==
  /\ call # NoCall
  /\ busy' = FALSE
  /\ call' = NoCall
  /\ sure' = (sure /\ call.stage = "sent")
  /\ late' = IF call.stage = "sent" THEN late \cup {call.act} ELSE late
  /\ UNCHANGED <<Others, wallet, frozen, reads, loading>>

\* The wallet changes and the screen is not told, nor are the answers on their way.
Behind(status) ==
  /\ wallet' = status
  /\ IF status = wallet THEN UNCHANGED <<sure, reads>>
     ELSE sure' = FALSE /\ reads' = {[r EXCEPT !.fresh = FALSE] : r \in reads}

\* A request nobody waits for is carried out, or is lost.
ServeLate ==
  \E act \in late :
    /\ late' = late \ {act}
    /\ Behind(StatusAfter(act)) \/ UNCHANGED <<wallet, sure, reads>>
    /\ UNCHANGED <<Others, frozen, loading, busy, call>>

\* An operator or another device.
ChangedElsewhere ==
  /\ Edit
  /\ Behind(IF wallet = "frozen" THEN "active" ELSE "frozen")
  /\ UNCHANGED <<nav, disk, ops, copy, behind, settled, mem, overtaken, soundVars,
                 frozen, loading, busy, call, late>>

Wallet == \/ ServeRead \/ TakeRead \/ RefreshHome \/ PressFreeze \/ ServeFreeze
          \/ FreezeAnswered \/ FreezeFails \/ ServeLate \/ ChangedElsewhere

-----------------------------------------------------------------------------
(* Sounds *)

Sound == mem["sound"]

\* The provider's setters: memory gets shown, the disk gets written.
PutSound(shown, written) ==
  /\ mem' = [mem EXCEPT !["sound"] = shown]
  /\ ops' = Append(ops, Op("pref", "sound", written))
  /\ UNCHANGED <<disk, copy, behind, settled>>

\* Choices made while a sound is imported, or before the stored ones were read, are overtaken.
NoteSound == overtaken' = IF jobs # {} \/ Racing("sound") THEN overtaken \cup {"sound"}
                                                            ELSE overtaken \ {"sound"}

\* previewTacticalClick turns every category on in the object the player holds, and puts
\* a copy of the former choice in its place afterwards.
Unmuted(s) == IF shared THEN [s EXCEPT !.services = TRUE] ELSE s

SetSound(shown, written, share) ==
  /\ Edit
  /\ PutSound(shown, written)
  /\ IF shown # written THEN overtaken' = overtaken \cup {"sound"} ELSE NoteSound
  /\ shared' = share
  /\ UNCHANGED <<nav, walletVars, jobs, files, torn>>

\* Switching clicks or choosing a pack plays a sample; so does switching a category on.
ToggleClicks ==
  LET next == [Sound EXCEPT !.clicks = ~@]
  IN  IF next.clicks THEN SetSound(Unmuted(next), next, FALSE) ELSE SetSound(next, next, TRUE)
ToggleSonic == LET next == [Sound EXCEPT !.sonic = ~@] IN SetSound(next, next, shared)
ChoosePack ==
  \E p \in {"military", "cyber"} \cup (IF Sound.uri = Unset THEN {} ELSE {"custom"}) :
    LET next == [Sound EXCEPT !.pack = p] IN SetSound(Unmuted(next), next, FALSE)
ChooseServices ==
  \/ LET next == [Sound EXCEPT !.services = FALSE] IN SetSound(next, next, TRUE)
  \/ LET next == [Sound EXCEPT !.services = TRUE] IN \E share \in BOOLEAN : SetSound(next, next, share)

PreviewClick ==
  /\ Edit
  /\ mem' = [mem EXCEPT !["sound"] = Unmuted(Sound)]
  /\ overtaken' = IF Unmuted(Sound) # Sound THEN overtaken \cup {"sound"} ELSE overtaken
  /\ shared' = FALSE
  /\ UNCHANGED <<nav, disk, ops, copy, behind, settled, walletVars, jobs, files, torn>>

\* onUploadSound and onClearCustom keep the provider's state of the moment they started.
StartJob(kind, stage, new) ==
  /\ Edit
  /\ jobs' = jobs \cup {[kind |-> kind, stage |-> stage, was |-> Sound, new |-> new]}
  /\ overtaken' = IF jobs # {} \/ Racing("sound") THEN overtaken \cup {"sound"} ELSE overtaken
  /\ UNCHANGED <<nav, disk, ops, copy, behind, settled, mem, walletVars, shared, torn>>

\* Fault: an import keeps the file's name, so it may be copied over the one it replaces.
UploadSameName ==
  /\ files' = IF Sound.uri = Unset THEN Append(files, FALSE) ELSE files
  /\ StartJob("import", "pick", IF Sound.uri = Unset THEN Len(files) + 1 ELSE Sound.uri)

\* Every import gets a file of its own.
UploadSound == files' = Append(files, FALSE) /\ StartJob("import", "pick", Len(files) + 1)
ClearCustom == Sound.uri # Unset /\ StartJob("clear", "remove", Unset) /\ UNCHANGED files

\* pickCustomSound: the chosen file is copied, or the customer cancels.
Pick(j) ==
  /\ j.stage = "pick"
  /\ \/ jobs' = jobs \ {j} /\ UNCHANGED files
     \/ /\ files' = [files EXCEPT ![j.new] = TRUE]
        /\ jobs' = (jobs \ {j}) \cup {[j EXCEPT !.stage = IF j.was.uri = Unset THEN "record" ELSE "remove"]}
  /\ UNCHANGED <<nav, storageVars, walletVars, shared, torn>>

\* removeCustomSoundFile
RemoveFile(j) ==
  /\ j.stage = "remove"
  /\ files' = [files EXCEPT ![j.was.uri] = FALSE]
  /\ jobs' = (jobs \ {j}) \cup {[j EXCEPT !.stage = "record"]}
  /\ UNCHANGED <<nav, storageVars, walletVars, shared, torn>>

\* setCustomSound and clearCustomSound, with the state of when the button was pressed.
CustomPack(j) == IF j.kind = "import" THEN "custom"
                 ELSE IF j.was.pack = "custom" THEN "military" ELSE j.was.pack

RecordSound(j) ==
  /\ j.stage = "record"
  /\ PutSound([Sound EXCEPT !.uri = j.new, !.pack = CustomPack(j)],
              [j.was EXCEPT !.uri = j.new, !.pack = CustomPack(j)])
  /\ jobs' = jobs \ {j}
  /\ shared' = TRUE
  /\ UNCHANGED <<nav, overtaken, edits, walletVars, files, torn>>

SoundSettings ==
  /\ Mounted = "settings"
  /\ \/ ToggleClicks \/ ToggleSonic
     \/ Sound.clicks /\ (ChoosePack \/ ChooseServices \/ PreviewClick \/ UploadSound \/ ClearCustom)

SoundJobs == \E j \in jobs : Pick(j) \/ RemoveFile(j) \/ RecordSound(j)

-----------------------------------------------------------------------------
(* The app *)

MobileInit ==
  /\ nav = Launched
  /\ StorageInit
  /\ wallet = "active" /\ frozen = FALSE /\ sure = FALSE /\ reads = {}
  /\ loading = FALSE /\ busy = FALSE /\ call = NoCall /\ late = {}
  /\ jobs = {} /\ files = <<>> /\ shared = TRUE /\ torn = FALSE

\* The security centre shows its record once the balance has come or failed as well.
ChangeRecord ==
  /\ \/ Mounted = "security" /\ reads = {} /\ copy # Unset
        /\ \E patch \in SecurityPatches(copy) : Patch("security", patch)
     \/ Mounted = "identity" /\ copy # Unset
        /\ \E patch \in IdentityPatches(copy) : Patch("identity", patch)
  /\ UNCHANGED <<nav, walletVars, soundVars>>

\* The disk does not know yet of the sound file that is in use or gone.
Unrecorded ==
  \/ \E j \in jobs : j.stage = "record"
  \/ \E i \in DOMAIN ops :
       ops[i].rec = "sound" /\ (disk["sound"] = Unset \/ ops[i].val.uri # disk["sound"].uri)

Kill ==
  /\ nav' = Launched
  /\ Relaunch
  /\ frozen' = FALSE /\ sure' = FALSE /\ reads' = {} /\ loading' = FALSE /\ busy' = FALSE
  /\ call' = NoCall
  /\ late' = IF call.stage = "sent" THEN late \cup {call.act} ELSE late
  /\ jobs' = {}
  /\ torn' = (torn \/ Unrecorded)
  /\ shared' = TRUE
  /\ UNCHANGED <<wallet, files>>

MobileNext ==
  \/ Navigate
  \/ ServeStorage /\ UNCHANGED <<nav, walletVars, soundVars>>
  \/ Mounted = "settings" /\ ThemeSettings /\ UNCHANGED <<nav, walletVars, soundVars>>
  \/ ChangeRecord
  \/ Wallet
  \/ SoundSettings
  \/ SoundJobs
  \/ Kill

MobileSpec == MobileInit /\ [][MobileNext]_mobileVars

-----------------------------------------------------------------------------
(* Properties *)

\* A screen at rest shows the wallet frozen exactly when it is, unless the wallet changed
\* behind the screen after the answer was given that the screen took last, or it has taken
\* none: a slow first balance does not undo what the customer has just done.  The answer
\* taken last is not the one given last where loads overlap, as on the home screen: there
\* one that was given before a change stays shown when it arrives after a newer one.
FrozenIsShown ==
  Mounted \in BalanceViews /\ reads = {} /\ ~loading /\ ~busy /\ sure
    => frozen = (wallet = "frozen")

\* A security or identity setting whose change overlapped no other is on the device, and
\* stays until the customer changes it again, whatever is patched around it later.
FinishedChangeSurvives ==
  \A r \in ScreenRecords : \A f \in DOMAIN settled[r] : Stored(r)[f] = settled[r][f]

\* The security centre and the identity screen show what is stored, also while changes are
\* under way and overlap, unless one made on an earlier visit landed after this visit had
\* read the record.
ShownIsStored == copy # Unset /\ ~behind => copy = Stored(Mounted)

StoredPref(p) == IF disk[p] = Unset THEN DefaultPrefs[p] ELSE disk[p]

\* When nothing is under way, a preference in memory is the one a restart would restore,
\* unless its last change overlapped the read at launch, the second write of a custom
\* colour, the import of a sound, or a preview of a muted category.
PrefsAreStored ==
  jobs = {} /\ (\A i \in DOMAIN ops : ops[i].kind \notin {"pref", "hydrate"})
    => \A p \in Prefs \ overtaken : mem[p] = StoredPref(p)

\* The sound file the stored preferences name is there: an import removes the file it
\* replaces before it records the new one, which only a crash in between makes dangerous.
CustomSoundExists ==
  /\ jobs = {} /\ ~torn /\ disk["sound"] # Unset
  /\ \A i \in DOMAIN ops : ops[i].rec # "sound"
  => disk["sound"].uri = Unset \/ files[disk["sound"].uri]
=============================================================================
