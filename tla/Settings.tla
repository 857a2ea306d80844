------------------------------ MODULE Settings ------------------------------
(***************************************************************************)
(* The dashboard settings: the copy the hub saves (config.json), what the  *)
(* files in conf.d set over it (src/hub/lib/confd.js), and the pages that  *)
(* load, edit, import and save them (loadConfig in src/www/js/app.js,      *)
(* saveSettings in src/www/js/settings.js).                                *)
(*                                                                         *)
(* One panel's setting stands for all: its value in the shared set, which  *)
(* a file may manage, and in the set of its own that a node may have.  A   *)
(* whole key and a key of a nested table are treated alike; a setting that *)
(* is no panel has only the shared value.  A page sends all its settings   *)
(* with each save.                                                         *)
(***************************************************************************)
CONSTANTS
    Page,           \* browsers with the page open
    Own,            \* values a person can give the setting
    Builtin,        \* the page's built-in value
    FileValue,      \* the value a file in conf.d sets
    Unset           \* no value

VARIABLES
    file,           \* conf.d on the disk: FileValue or Unset
    copy,           \* the hub's copy of it (current in createConfd)
    saved,          \* config.json: [shared, own], Unset where it has no value
    defaults,       \* page -> DEFAULTS and what of it is managed
    cfg,            \* page -> cfg
    beforeImport,   \* page -> the cfg an import replaced, or Nothing
    local,          \* page -> the copy in the browser's localStorage
    post,           \* page -> the save under way, or Nothing
    behind,         \* history: pages whose shared set has a file's value from before
                    \* the hub saw it removed
    copied          \* history: pages that copied a file's value into a node's own set

setVars == <<file, copy, saved, defaults, cfg, beforeImport, local, post, behind, copied>>

ASSUME ValuesAssumption ==
    /\ Builtin # FileValue /\ Builtin # Unset /\ FileValue # Unset
    /\ {Builtin, FileValue, Unset} \cap Own = {}

Nothing == [shared |-> Unset, own |-> Unset]

(* importSettings: a file brings values of the right kind, or none.        *)
Imported == [shared : Own \cup {Unset}, own : Own \cup {Unset}]

(* readConfd: what the files set, once checked; a bad file is skipped.     *)
FileSets == {Unset, FileValue}

(* deepMerge and the spreads: what is set wins                             *)
First(v, w) == IF v # Unset THEN v ELSE w
Merged(s, t) == [shared |-> First(s.shared, t.shared), own |-> First(s.own, t.own)]

Builtins == [shared |-> Builtin, own |-> Unset]

(* What a person may have set in another browser                           *)
Choices == [shared : Own, own : Own \cup {Unset}]

-----------------------------------------------------------------------------
(* GET /config.json: the saved settings, with the file's on top; files     *)
(* know only the shared set.                                               *)
Config == [set |-> [saved EXCEPT !.shared = First(copy, @)], managed |-> copy # Unset]

(* The page without an answer of the hub                                   *)
NoConfig == [set |-> Nothing, managed |-> FALSE]

(* loadConfig: the hub's settings over the built-in ones, a copy saved in  *)
(* this browser over both, and then what files manage (applyManaged).      *)
Loaded(p, c) ==
    LET d == Merged(c.set, Builtins)
        s == Merged(local[p], d)
    IN IF c.managed THEN [s EXCEPT !.shared = d.shared] ELSE s

(* The page opens, or is reloaded; without an answer it has only its own.  *)
LoadConfig(p, c) ==
    /\ post[p] = Nothing
    /\ c \in {Config, NoConfig}
    /\ defaults' = [defaults EXCEPT ![p] = [c EXCEPT !.set = Merged(@, Builtins)]]
    /\ cfg' = [cfg EXCEPT ![p] = Loaded(p, c)]
    /\ beforeImport' = [beforeImport EXCEPT ![p] = Nothing]
    /\ behind' = IF FileValue \in {saved.shared, local[p].shared}
                 THEN behind \cup {p} ELSE behind \ {p}
    /\ UNCHANGED <<file, copy, saved, local, post, copied>>

OtherVars == <<file, copy, saved, defaults, beforeImport, local, post, behind, copied>>

(* A person sets the shared value; the control of a managed one is         *)
(* disabled (markManaged).                                                 *)
SetValue(p, v) ==
    /\ ~defaults[p].managed
    /\ cfg' = [cfg EXCEPT ![p].shared = v]
    /\ UNCHANGED OtherVars

(* Or the value in the node's own set, which no file disables.             *)
SetOwn(p, v) ==
    /\ cfg' = [cfg EXCEPT ![p].own = v]
    /\ UNCHANGED OtherVars

(* The first change of another panel of the node: its own set starts as a  *)
(* copy of the shared one, what a file set included (ownSet).              *)
OwnSet(p) ==
    /\ cfg[p].own = Unset
    /\ cfg' = [cfg EXCEPT ![p].own = cfg[p].shared]
    /\ copied' = IF cfg[p].shared = FileValue THEN copied \cup {p} ELSE copied
    /\ UNCHANGED <<file, copy, saved, defaults, beforeImport, local, post, behind>>

(* The node goes back to the shared set.                                   *)
ResetOwn(p) ==
    /\ cfg[p].own # Unset
    /\ cfg' = [cfg EXCEPT ![p].own = Unset]
    /\ UNCHANGED OtherVars

(* Import: fills the form over the defaults; managed values are not put    *)
(* back on top.                                                            *)
Import(p, s) ==
    /\ beforeImport' = [beforeImport EXCEPT ![p] = IF @ = Nothing THEN cfg[p] ELSE @]
    /\ cfg' = [cfg EXCEPT ![p] = Merged(s, defaults[p].set)]
    /\ UNCHANGED <<file, copy, saved, defaults, local, post, behind, copied>>

(* closeSettings without a save undoes an import.                          *)
CloseSettings(p) ==
    /\ beforeImport[p] # Nothing
    /\ cfg' = [cfg EXCEPT ![p] = beforeImport[p]]
    /\ beforeImport' = [beforeImport EXCEPT ![p] = Nothing]
    /\ UNCHANGED <<file, copy, saved, defaults, local, post, behind, copied>>

(* Reset: the defaults this page loaded                                    *)
Reset(p) ==
    /\ local' = [local EXCEPT ![p] = Nothing]
    /\ cfg' = [cfg EXCEPT ![p] = defaults[p].set]
    /\ UNCHANGED <<file, copy, saved, defaults, beforeImport, post, behind, copied>>

(* saveSettings sends what the page has.                                   *)
SaveSettings(p) ==
    /\ post[p] = Nothing
    /\ beforeImport' = [beforeImport EXCEPT ![p] = Nothing]
    /\ post' = [post EXCEPT ![p] = cfg[p]]
    /\ UNCHANGED <<file, copy, saved, defaults, cfg, local, behind, copied>>

-----------------------------------------------------------------------------
(* Variant: a save stores what the page sent.                              *)
StoredAsSent(s) == s

(* POST /__ctl/config: a managed value keeps what was saved before; the    *)
(* nodes' own sets are stored as sent.                                     *)
Stored(s) == IF copy # Unset THEN [s EXCEPT !.shared = saved.shared] ELSE s

(* The hub answers ok: the copy in this browser goes.                      *)
Saved(p) ==
    /\ post[p] # Nothing
    /\ saved' = Stored(post[p])
    /\ local' = [local EXCEPT ![p] = Nothing]
    /\ post' = [post EXCEPT ![p] = Nothing]
    /\ UNCHANGED <<file, copy, defaults, cfg, beforeImport, behind, copied>>

(* It refuses, or cannot write, or its answer is lost: the settings stay   *)
(* in this browser.                                                        *)
SavedLocal(p, stored) ==
    /\ post[p] # Nothing
    /\ saved' = IF stored THEN Stored(post[p]) ELSE saved
    /\ local' = [local EXCEPT ![p] = cfg[p]]
    /\ post' = [post EXCEPT ![p] = Nothing]
    /\ UNCHANGED <<file, copy, defaults, cfg, beforeImport, behind, copied>>

(* Another browser saves values of its own.                                *)
OtherSaves(s) ==
    /\ saved' = Stored(s)
    /\ UNCHANGED <<file, copy, defaults, cfg, beforeImport, local, post, behind, copied>>

(* The host's owner puts a file into conf.d, or takes it away.             *)
FileChanges ==
    /\ file' \in FileSets \ {file}
    /\ UNCHANGED <<copy, saved, defaults, cfg, beforeImport, local, post, behind, copied>>

(* confd.get: the hub looks again at most every 2 s.                       *)
LookAgain ==
    /\ copy # file
    /\ copy' = file
    /\ behind' = IF file = Unset
                 THEN behind \cup {p \in Page : FileValue \in
                        {cfg[p].shared, beforeImport[p].shared, local[p].shared,
                         post[p].shared, defaults[p].set.shared}}
                 ELSE behind
    /\ UNCHANGED <<file, saved, defaults, cfg, beforeImport, local, post, copied>>

-----------------------------------------------------------------------------
SetInit ==
    /\ file \in FileSets /\ copy = file
    /\ saved \in Choices \cup {Nothing}
    /\ defaults = [p \in Page |-> [Config EXCEPT !.set = Merged(@, Builtins)]]
    /\ cfg = [p \in Page |-> Merged(Config.set, Builtins)]
    /\ beforeImport = [p \in Page |-> Nothing] /\ local = [p \in Page |-> Nothing]
    /\ post = [p \in Page |-> Nothing]
    /\ behind = {} /\ copied = {}

SetNext ==
    \/ \E p \in Page, c \in {Config, NoConfig} : LoadConfig(p, c)
    \/ \E p \in Page, v \in Own : SetValue(p, v) \/ SetOwn(p, v)
    \/ \E p \in Page : OwnSet(p) \/ ResetOwn(p)
    \/ \E s \in Choices : OtherSaves(s)
    \/ \E p \in Page, s \in Imported : Import(p, s)
    \/ \E p \in Page : \/ CloseSettings(p) \/ Reset(p) \/ SaveSettings(p) \/ Saved(p)
    \/ \E p \in Page, stored \in BOOLEAN : SavedLocal(p, stored)
    \/ FileChanges \/ LookAgain

-----------------------------------------------------------------------------
(* The hub saves values a person gave or the built-in ones, never one that *)
(* came from a file, so that removing the file "brings the page's own      *)
(* value back" (server.js:992).  There are two exceptions: a page that has *)
(* the file's value from before the hub saw it removed saves it as its     *)
(* own; and ownSet copies it into a node's own set (settings.js:257-262),  *)
(* which no file manages, so that it is saved and stays.                   *)
SavedIsOwn ==
    /\ behind = {} => saved.shared # FileValue
    /\ copied = {} => saved.own # FileValue
=============================================================================
