---------------------------- MODULE MobileStorage ----------------------------
(***************************************************************************)
(* What the mobile app keeps on the device.  The security centre and the   *)
(* identity screen change a stored record by reading it, merging a patch   *)
(* and writing it back; the providers of theme, language and sounds keep   *)
(* their state in memory, write every change and read it once at launch.   *)
(* AsyncStorage does one operation at a time, in the order they were asked *)
(* for, and a continuation runs when its operation is done.  The app may   *)
(* be killed at any moment; operations that were not done are then lost.   *)
(***************************************************************************)
EXTENDS MobileNavigation, Sequences

CONSTANTS
  Unset,        \* model value: no item under the key
  MaxEdits,     \* model bound: what the customer, an operator or the system does in all
  Core,         \* model bound: the tabs and screens it is done on
  Touched       \* model bound: the fields of the security record it is done to

ASSUME StorageAssumption == MaxEdits \in Nat /\ Core \subseteq Rendered

VARIABLES
  disk,         \* the stored item of each record
  ops,          \* operations asked of AsyncStorage, oldest first
  copy,         \* the record the mounted screen shows, or Unset
  behind,       \* a change of an earlier visit landed after this visit read the record
  settled,      \* fields whose last change ended alone, and its value
  mem,          \* what the providers hold
  overtaken,    \* preferences whose changes overlapped something that also sets them
  edits         \* what has been done so far

storageVars == <<disk, ops, copy, behind, settled, mem, overtaken, edits>>

ScreenRecords == {"security", "identity"}
ThemeRecords  == {"mode", "mood", "rgb", "logo"}
Prefs         == ThemeRecords \cup {"locale", "sound"}
Records       == ScreenRecords \cup Prefs

-----------------------------------------------------------------------------
(* The records *)

DefaultSecurity ==
  [passkeysEnabled |-> TRUE, passkeyCount |-> 1, otherDevice |-> TRUE, biometricsEnabled |-> TRUE,
   pinEnabled |-> TRUE, pinSet |-> TRUE, daily |-> "usual", monthly |-> "usual",
   newRecipient |-> "usual", simChangeAlerts |-> TRUE, recoveryContact |-> TRUE,
   camera |-> TRUE, mic |-> TRUE, tipsSeen |-> FALSE]

DefaultIdentity == [sourceOfFunds |-> "missing", reviews |-> 0]

DefaultRecord == [security |-> DefaultSecurity, identity |-> DefaultIdentity]

DefaultSound == [clicks |-> TRUE, sonic |-> TRUE, pack |-> "military", services |-> TRUE, uri |-> Unset]
DefaultPrefs == [mode |-> "dark", mood |-> "tube", rgb |-> "white", logo |-> "plain",
                 locale |-> "en", sound |-> DefaultSound]

\* No item that is stored is the absence of one.
FieldValues  == BOOLEAN \cup Nat \cup {"usual", "other", "missing", "pending"}
SoundRecords == [clicks : BOOLEAN, sonic : BOOLEAN, pack : {"military", "cyber", "custom"}, services : BOOLEAN,
                 uri : Nat \cup {Unset}]
PrefValues   == [mode |-> {"light", "dark"}, mood |-> {"tube", "gold", "custom"}, rgb |-> {"white", "blue"},
                 logo |-> {"plain", "tinted"}, locale |-> {"en", "fr"}, sound |-> SoundRecords]

ASSUME UnsetAssumption ==
  /\ Unset \notin Nat
  /\ \A r \in ScreenRecords : Unset \notin [DOMAIN DefaultRecord[r] -> FieldValues]
  /\ \A p \in Prefs : Unset \notin PrefValues[p]

Merge(record, patch) ==
  [f \in DOMAIN record \cup DOMAIN patch |-> IF f \in DOMAIN patch THEN patch[f] ELSE record[f]]

Stored(r) == IF disk[r] = Unset THEN DefaultRecord[r] ELSE disk[r]

-----------------------------------------------------------------------------
(* The patches each panel of the security centre and the identity screen can ask for, *)
(* given the copy on the screen *)

PasskeyPanel(sec)  == {[passkeysEnabled |-> ~sec.passkeysEnabled],
                       [passkeyCount |-> sec.passkeyCount + 1]}
DevicePanel(sec)   == IF sec.otherDevice THEN {[otherDevice |-> FALSE]} ELSE {}
BiometryPanel(sec) == {[biometricsEnabled |-> ~sec.biometricsEnabled]}
PinPanel(sec)      == {[pinEnabled |-> ~sec.pinEnabled], [pinSet |-> TRUE, pinEnabled |-> TRUE]}
LimitPanel(sec)    == {[daily |-> "other"], [monthly |-> "other"], [newRecipient |-> "other"]}
SimPanel(sec)      == {[simChangeAlerts |-> ~sec.simChangeAlerts]}
RecoveryPanel(sec) == {[recoveryContact |-> ~sec.recoveryContact]}
PrivacyPanel(sec)  == {[camera |-> ~sec.camera], [mic |-> ~sec.mic]}
TipsPanel(sec)     == {[tipsSeen |-> TRUE]}

SecurityPatches(sec) ==
  {patch \in UNION {PasskeyPanel(sec), DevicePanel(sec), BiometryPanel(sec), PinPanel(sec),
                    LimitPanel(sec), SimPanel(sec), RecoveryPanel(sec), PrivacyPanel(sec),
                    TipsPanel(sec)} : DOMAIN patch \subseteq Touched}

\* What an operation of a screen was asked to change.
Asked(op) == IF op.kind = "patch" THEN op.val ELSE op.val.asked

Submitting == \E i \in DOMAIN ops :
  /\ ops[i].rec = "identity" /\ ops[i].here /\ ops[i].kind \in {"patch", "write"}
  /\ "sourceOfFunds" \in DOMAIN Asked(ops[i])

\* Submit is offered for a missing document, one at a time; a human review can be asked for
\* at any moment.
SubmitDoc(id) ==
  IF id.sourceOfFunds = "missing" /\ ~Submitting
  THEN {[sourceOfFunds |-> "pending", reviews |-> id.reviews + 1]} ELSE {}
RequestHumanReview(id) == {[reviews |-> id.reviews + 1]}

IdentityPatches(id) == SubmitDoc(id) \cup RequestHumanReview(id)

-----------------------------------------------------------------------------
(* Operations *)

Op(kind, rec, val) == [kind |-> kind, rec |-> rec, val |-> val, here |-> TRUE, alone |-> TRUE]

Changing(r) == \E i \in DOMAIN ops : ops[i].rec = r /\ ops[i].kind \in {"patch", "write"}

\* Ask for a change of a record; changes of one record that overlap are not alone.
WithPatch(r, patch) ==
  Append([i \in DOMAIN ops |-> IF ops[i].rec = r THEN [ops[i] EXCEPT !.alone = FALSE] ELSE ops[i]],
         [Op("patch", r, patch) EXCEPT !.alone = ~Changing(r)])

Forget(known, patch) == [f \in DOMAIN known \ DOMAIN patch |-> known[f]]

InCore(n) == {n.tab, Shown(n)} \subseteq Core
Edit      == edits < MaxEdits /\ InCore(nav) /\ edits' = edits + 1

\* save() and patchIdentity(): one change asked for on the screen.
Patch(r, patch) ==
  /\ copy # Unset
  /\ Edit
  /\ ops' = WithPatch(r, patch)
  /\ settled' = [settled EXCEPT ![r] = Forget(@, patch)]
  /\ UNCHANGED <<disk, copy, behind, mem, overtaken>>

\* The write a patch ends in carries the whole record; asked tells which part was asked for.
WriteBack(op, record) ==
  [op EXCEPT !.kind = "write", !.val = [record |-> record, asked |-> op.val]]

\* Fault: the patch is merged into the copy on the screen instead of the stored record.
ServePatchFromScreen(op) ==
  /\ op.kind = "patch"
  /\ ops' = Append(Tail(ops), WriteBack(op, Merge(IF copy = Unset THEN Stored(op.rec) ELSE copy, op.val)))
  /\ UNCHANGED <<disk, copy, behind, settled>>

\* patchSecurity and patchIdentity: the record is read, merged, and the write is asked for.
ServePatch(op) ==
  /\ op.kind = "patch"
  /\ ops' = Append(Tail(ops), WriteBack(op, Merge(Stored(op.rec), op.val)))
  /\ UNCHANGED <<disk, copy, behind, settled>>

\* Fault: the screen merges the change into what it shows before the write is done.
ServeWriteShowingTheChange(op) ==
  /\ op.kind = "write"
  /\ ops' = Tail(ops)
  /\ disk' = [disk EXCEPT ![op.rec] = op.val.record]
  /\ copy' = IF op.here /\ copy # Unset THEN Merge(copy, op.val.asked) ELSE copy
  /\ behind' = (~op.here /\ (behind \/ Mounted = op.rec))
  /\ settled' = [settled EXCEPT ![op.rec] = IF op.alone THEN Merge(@, op.val.asked) ELSE @]

\* The write is done; a screen that is still there shows the record it wrote.
ServeWrite(op) ==
  /\ op.kind = "write"
  /\ ops' = Tail(ops)
  /\ disk' = [disk EXCEPT ![op.rec] = op.val.record]
  /\ copy' = IF op.here THEN op.val.record ELSE copy
  /\ behind' = (~op.here /\ (behind \/ Mounted = op.rec))
  /\ settled' = [settled EXCEPT ![op.rec] = IF op.alone THEN Merge(@, op.val.asked) ELSE @]

\* loadSecurityState and loadIdentity, for the screen that has just been mounted.  The
\* identity screen puts the profile's tier in place of its own; no one sets either.
ServeLoad(op) ==
  /\ op.kind = "load"
  /\ ops' = Tail(ops)
  /\ copy' = Stored(op.rec)
  /\ behind' = FALSE
  /\ UNCHANGED <<disk, settled>>

\* A provider's read at launch: what is stored replaces what memory holds.
ServeHydrate(op) ==
  /\ op.kind = "hydrate"
  /\ ops' = Tail(ops)
  /\ mem' = [p \in Prefs |-> IF p \in op.val /\ disk[p] # Unset THEN disk[p] ELSE mem[p]]
  /\ UNCHANGED <<disk, copy, behind, settled, overtaken, edits>>

\* A provider's write.  setCustomRgb writes the colour, then the mood.
ServePref(op) ==
  /\ op.kind = "pref"
  /\ disk' = [disk EXCEPT ![op.rec] = op.val]
  /\ ops' = IF op.rec = "rgb" THEN Append(Tail(ops), Op("pref", "mood", "custom")) ELSE Tail(ops)
  /\ UNCHANGED <<copy, behind, settled, mem, overtaken, edits>>

ServeStorage ==
  /\ ops # <<>>
  /\ LET op == Head(ops) IN
       \/ (ServePatch(op) \/ ServeWrite(op) \/ ServeLoad(op)) /\ UNCHANGED <<mem, overtaken, edits>>
       \/ ServeHydrate(op)
       \/ ServePref(op)

-----------------------------------------------------------------------------
(* Preferences *)

\* What a setter of p sets in memory: a custom colour is also a mood.
Sets(p) == IF p = "rgb" THEN {"rgb", "mood"} ELSE {p}

\* Something asked for earlier will still set p: the read at launch, in memory, or the
\* second write of a custom colour, on disk.
Racing(p) == \E i \in DOMAIN ops :
  \/ ops[i].kind = "hydrate" /\ p \in ops[i].val
  \/ ops[i].kind = "pref" /\ ops[i].rec = "rgb" /\ p = "mood"

\* Fault: a custom colour is not recorded as the mood.
ThemeValuesOnly(p, value) == [q \in {p} |-> value]

ThemeValues(p, value) == [q \in Sets(p) |-> IF q = p THEN value ELSE "custom"]

\* A setter of the theme or the language: memory at once, then the write.  (Choosing what
\* is chosen already writes it again and changes nothing.)
SetPref(p, value) ==
  /\ mem[p] # value
  /\ Edit
  /\ mem' = Merge(mem, ThemeValues(p, value))
  /\ ops' = Append(ops, Op("pref", p, value))
  /\ overtaken' = IF \E q \in Sets(p) : Racing(q) THEN overtaken \cup Sets(p)
                                                  ELSE overtaken \ Sets(p)
  /\ UNCHANGED <<disk, copy, behind, settled>>

\* The settings screen: appearance, logo, mood, colour and language.
SetMode      == \E v \in {"light", "dark"} : SetPref("mode", v)
SetMood      == \E v \in {"tube", "gold"} : SetPref("mood", v)
SetCustomRgb == \E v \in {"white", "blue"} : SetPref("rgb", v)
SetLogo      == \E v \in {"plain", "tinted"} : SetPref("logo", v)
SetLocale    == \E v \in {"en", "fr"} : SetPref("locale", v)

ThemeSettings == SetMode \/ SetMood \/ SetCustomRgb \/ SetLogo \/ SetLocale

-----------------------------------------------------------------------------
(* Launch *)

Hydrations == <<Op("hydrate", "launch", {"locale"}), Op("hydrate", "launch", ThemeRecords),
                Op("hydrate", "launch", {"sound"})>>

StorageInit ==
  /\ disk = [r \in Records |-> Unset]
  /\ ops = Hydrations
  /\ copy = Unset
  /\ behind = FALSE
  /\ settled = [r \in ScreenRecords |-> <<>>]
  /\ mem = DefaultPrefs
  /\ overtaken = {}
  /\ edits = 0

\* The process is killed and the app launched again.
Relaunch ==
  /\ Edit
  /\ ops' = Hydrations
  /\ copy' = Unset
  /\ behind' = FALSE
  /\ mem' = DefaultPrefs
  /\ overtaken' = {}
  /\ UNCHANGED <<disk, settled>>

Without(s, k) == [i \in 1..(Len(s) - 1) |-> s[IF i < k THEN i ELSE i + 1]]

Loads == {i \in DOMAIN ops : ops[i].kind = "load"}

\* A screen is left, with the read it may still be waiting for, and another mounted, which
\* loads its record.
VisitStorage(screen) ==
  /\ LET left == [i \in DOMAIN ops |-> [ops[i] EXCEPT !.here = FALSE]]
         kept == IF Loads = {} THEN left ELSE Without(left, CHOOSE i \in Loads : TRUE)
     IN  ops' = IF screen \in ScreenRecords THEN Append(kept, Op("load", screen, Unset)) ELSE kept
  /\ copy' = Unset
  /\ behind' = FALSE
  /\ UNCHANGED <<disk, settled, mem, overtaken, edits>>
=============================================================================
