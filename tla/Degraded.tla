------------------------------ MODULE Degraded ------------------------------
(***************************************************************************)
(* What the daemon reports as degraded (src/main.rs): the subsystems it has *)
(* found missing at its start and at the reloads that looked for them again, *)
(* and the settings of logind that would act beside it, read from          *)
(* logind.conf and its drop-ins (src/logind_conf.rs).                        *)
(***************************************************************************)
EXTENDS Naturals, Sequences, FiniteSets

CONSTANTS
    NumDirs,        \* DIRS are numbered in order of precedence
    NumDropIns,     \* drop-ins are numbered by name
    Paths,          \* the files there can be: <<dir, name>>, the name MAIN or a drop-in's
    MISSING, UNREADABLE,
    Texts,          \* contents of a file: sequences of lines
    EMPTY, KeyValues,  \* what a key can be set to; EMPTY is the value of `key=`
    Sections,       \* the configurations, see Section
    MaxFiles        \* bound: files that are there at a time

MAIN == 0
Names == 0..NumDropIns
Keys == {"HandleLidSwitch", "HandleLidSwitchExternalPower", "HandleLidSwitchDocked",
         "IdleAction"}

\* A line that is neither comment nor blank: the start of a section, or an
\* assignment.
Line == [section : {"Login", "Other"}] \cup [key : Keys, value : KeyValues \cup {EMPTY}]

\* What a reload compares and hands on: the device of [backlight], and of
\* [server] whether it is enabled, its RTC, and the interval, for the rest of it.
Section == [panel : {"panel0", "panel1"}, server : BOOLEAN, rtc : {"rtc0", "rtc1"},
            interval : Nat]

ASSUME DegradedAssumption ==
    /\ NumDirs \in Nat /\ NumDropIns \in Nat
    /\ Paths \subseteq (1..NumDirs) \X Names
    /\ Texts \subseteq Seq(Line) /\ {MISSING, UNREADABLE} \cap Texts = {}
    /\ EMPTY \notin KeyValues /\ "ignore" \in KeyValues /\ "suspend" \in KeyValues
    /\ Sections \subseteq Section /\ MaxFiles \in Nat

VARIABLES
    files,          \* path -> text, MISSING or UNREADABLE
    present,        \* the devices that can be found
    up,             \* does the daemon run
    config,
    sink, rtc,      \* the devices in use, {} or a singleton
    degraded,       \* the list, each entry once
    fresh           \* history: are the files those the last look was at

degradedVars == <<files, present, up, config, sink, rtc, degraded, fresh>>

-----------------------------------------------------------------------------
(* logind_conf: collect_files, login_section, effective_keys, check.       *)

At(dir, name) == IF <<dir, name>> \in Paths THEN files[<<dir, name>>] ELSE MISSING

\* The first directory that has the file, readable or not.
Found(name) ==
    LET has == {dir \in 1..NumDirs : At(dir, name) # MISSING} IN
    IF has = {} THEN MISSING
    ELSE At(CHOOSE dir \in has : \A other \in has : dir <= other, name)

Readable(text) == text \notin {MISSING, UNREADABLE}

\* Mutant: the drop-ins from the last name to the first.
CollectFilesBackwards ==
    [name \in Names |-> Found(IF name = MAIN THEN name ELSE NumDropIns + 1 - name)]

\* In the order they are applied: the main file, then the drop-ins by name.
CollectFiles == [name \in Names |-> Found(name)]

\* The section each line stands in; the lines that assign something in [Login].
IsHead(line) == "section" \in DOMAIN line
SectionAt(text) ==
    LET section[i \in 0..Len(text)] ==
          IF i = 0 THEN "Other"
          ELSE IF IsHead(text[i]) THEN text[i].section ELSE section[i - 1]
    IN section
LoginSection(text) ==
    {i \in 1..Len(text) : ~IsHead(text[i]) /\ SectionAt(text)[i] = "Login"}

\* What the lines of a file, and the files, one after the other, make of the keys;
\* EMPTY for a key that is not set, or reset.
KeysAt(before, text) ==
    LET keys[i \in 0..Len(text)] ==
          IF i = 0 THEN before
          ELSE IF i \in LoginSection(text)
               THEN [keys[i - 1] EXCEPT ![text[i].key] = text[i].value] ELSE keys[i - 1]
    IN keys
ReadFile(before, text) ==
    IF Readable(text) THEN KeysAt(before, text)[Len(text)] ELSE before
KeysAfter(texts) ==
    LET keys[name \in Names] ==
          ReadFile(IF name = MAIN THEN [key \in Keys |-> EMPTY] ELSE keys[name - 1], texts[name])
    IN keys
EffectiveKeys(texts) == KeysAfter(texts)[NumDropIns]

LoginSettings(keys) ==
    LET Get(key, default) == IF keys[key] = EMPTY THEN default ELSE keys[key]
        lid == Get("HandleLidSwitch", "suspend")
    IN [lid |-> lid,
        external |-> Get("HandleLidSwitchExternalPower", lid),
        docked |-> Get("HandleLidSwitchDocked", "ignore"),
        idle |-> Get("IdleAction", "ignore")]

LidActions(login) == {login.lid, login.external, login.docked} \ {"ignore"}

Check(server) ==
    LET login == LoginSettings(EffectiveKeys(CollectFiles)) IN
    {"lid-switch" : x \in IF server THEN LidActions(login) ELSE {}}
    \cup {"idle-action" : x \in {login.idle} \ {"ignore"}}

-----------------------------------------------------------------------------
(* The daemon: run, reload.                                                *)

PanelFor(c) == {c.panel} \cap present
RtcFor(c) == IF c.server THEN {c.rtc} \cap present ELSE {}

Marked(entry, bad) == {e \in {entry} : bad}

StartDaemon ==
    /\ ~up /\ up' = TRUE
    /\ sink' = PanelFor(config) /\ rtc' = RtcFor(config)
    /\ degraded' = Marked("backlight", sink' = {})
                   \cup Marked("rtc", config.server /\ rtc' = {})
                   \cup Check(config.server)
    /\ fresh' = TRUE
    /\ UNCHANGED <<files, present, config>>

\* mark_degraded: what is said of `entry` from now on.
Remark(entries, entry, bad) == (entries \ {entry}) \cup Marked(entry, bad)

\* Backlight::reconfigure and rtc_for look only if the section has changed, and
\* for the panel if its device has; logind.conf is read again in any case.
Server(c) == <<c.server, c.rtc, c.interval>>

\* Mutant: the entries of devices are not marked again.
ReloadUnmarked(c) ==
    /\ up /\ config' = c
    /\ sink' = IF c.panel # config.panel THEN PanelFor(c) ELSE sink
    /\ rtc' = IF Server(c) # Server(config) THEN RtcFor(c) ELSE rtc
    /\ degraded' = (degraded \ {"lid-switch", "idle-action"}) \cup Check(c.server)
    /\ fresh' = TRUE
    /\ UNCHANGED <<files, present, up>>

Reload(c) ==
    /\ up /\ config' = c
    /\ sink' = IF c.panel # config.panel THEN PanelFor(c) ELSE sink
    /\ rtc' = IF Server(c) # Server(config) THEN RtcFor(c) ELSE rtc
    /\ LET panel == IF c.panel # config.panel
                    THEN Remark(degraded, "backlight", sink' = {}) ELSE degraded
           alarm == IF Server(c) # Server(config)
                    THEN Remark(panel, "rtc", c.server /\ rtc' = {}) ELSE panel
           found == Check(c.server)
       IN degraded' = Remark(Remark(alarm, "lid-switch", "lid-switch" \in found),
                             "idle-action", "idle-action" \in found)
    /\ fresh' = TRUE
    /\ UNCHANGED <<files, present, up>>

StopDaemon ==
    /\ up /\ up' = FALSE
    /\ sink' = {} /\ rtc' = {} /\ degraded' = {}
    /\ UNCHANGED <<files, present, config, fresh>>

-----------------------------------------------------------------------------
(* The machine and its administrator.                                      *)

Edits(path, text) ==
    /\ files[path] # text /\ files' = [files EXCEPT ![path] = text] /\ fresh' = FALSE
    /\ Cardinality({p \in Paths : files'[p] # MISSING}) <= MaxFiles
    /\ UNCHANGED <<present, up, config, sink, rtc, degraded>>

Changes(device) ==
    /\ present' = (present \ {device}) \cup ({device} \ present)
    /\ UNCHANGED <<files, up, config, sink, rtc, degraded, fresh>>

DegradedInit ==
    /\ files = [path \in Paths |-> MISSING]
    /\ present \in SUBSET {"panel0", "rtc0"}
    /\ up = FALSE /\ config \in Sections
    /\ sink = {} /\ rtc = {} /\ degraded = {} /\ fresh = FALSE

DegradedNext ==
    \/ StartDaemon \/ StopDaemon
    \/ \E c \in Sections : Reload(c)
    \/ \E path \in Paths, text \in Texts \cup {MISSING, UNREADABLE} : Edits(path, text)
    \/ \E device \in {"panel0", "rtc0"} : Changes(device)

DegradedSpec == DegradedInit /\ [][DegradedNext]_degradedVars

-----------------------------------------------------------------------------
(* Properties.                                                             *)

\* What is assigned to a key, and where: in a file no earlier directory has, below
\* a [Login] and above the next section.
InForce(p) ==
    /\ Readable(files[p])
    /\ \A q \in Paths : q[2] = p[2] /\ files[q] # MISSING => p[1] <= q[1]
Assigned(text, key) ==
    {i \in 1..Len(text) :
        /\ ~IsHead(text[i]) /\ text[i].key = key
        /\ \E h \in 1..i - 1 :
              /\ text[h] = [section |-> "Login"]
              /\ \A j \in h + 1..i - 1 : ~IsHead(text[j])}
Places(key) == UNION {{p} \X Assigned(files[p], key) : p \in {p \in Paths : InForce(p)}}

\* The drop-ins come after the main file, by name.  What is assigned last is what
\* the key is set to, if it is not EMPTY.
After(x, y) == IF x[1] = y[1] THEN x[2] >= y[2] ELSE x[1][2] > y[1][2]
Final(key) ==
    {files[x[1]][x[2]].value : x \in {x \in Places(key) : \A y \in Places(key) : After(x, y)}}
IsUnset(key) == Final(key) \subseteq {EMPTY}
Acts(key) == ~(Final(key) \subseteq {EMPTY, "ignore"})

\* What logind does by itself at the lid, on its defaults (logind.conf(5)); those
\* for an external power supply are those of HandleLidSwitch, which suspends.
ActsOnLid ==
    \/ IsUnset("HandleLidSwitch") \/ Acts("HandleLidSwitch")
    \/ Acts("HandleLidSwitchExternalPower") \/ Acts("HandleLidSwitchDocked")

\* status.degraded tells the truth about what the daemon does without and about
\* the logind beside it, through starts and reloads in any order: the entries of
\* devices and those of settings, of which some reloads look at some only.
StatusIsHonest ==
    up =>
        /\ "backlight" \in degraded <=> sink = {}
        /\ "rtc" \in degraded <=> config.server /\ rtc = {}
        /\ fresh => /\ "lid-switch" \in degraded <=> config.server /\ ActsOnLid
                    /\ "idle-action" \in degraded <=> Acts("IdleAction")

=============================================================================
