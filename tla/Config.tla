-------------------------------- MODULE Config --------------------------------
(***************************************************************************)
(* lib/config: the two files of an installation of msh, msh-config.json    *)
(* and msh.instance, across starts, crashes and what users do to them.     *)
(* LoadConfig reads the configuration, finds or makes the id of the        *)
(* instance, works out the runtime configuration and saves what it         *)
(* corrected; a running msh saves again when the server tells its version. *)
(***************************************************************************)
EXTENDS Integers

CONSTANTS
  Folders,      \* directories an msh may be installed in
  Hosts,        \* machine ids with host names
  Ids,          \* msh ids that may be generated: bounds the instances made
  FileIds,      \* file ids (inodes) of a host
  Settings,     \* what users write in the rest of the configuration file
  Unescapable,  \* settings that hold "\u" where no escape follows, as in "C:\users"
  Versions,     \* versions and protocols of the server
  NoId, NoVersion, NoSettings,
  Home, HomeHost   \* where the first installation is

ASSUME ConfigAssumption ==
  /\ Home \in Folders /\ HomeHost \in Hosts
  /\ NoId \notin Ids /\ NoVersion \notin Versions /\ NoSettings \notin Settings
  /\ Settings # {} /\ Unescapable \subseteq Settings

VARIABLES
  host,  \* host[f]: the host of folder f
  node,  \* node[f]: the file id of its msh.instance
  inst,  \* inst[f]: its msh.instance
  cfg,   \* cfg[f]: its msh-config.json
  at,    \* at[f]: statement of its msh; "run" after LoadConfig
  def,   \* def[f]: ConfigDefault
  dirty, \* dirty[f]: configDefaultSave
  run,   \* run[f]: the version in ConfigRuntime; the flags change nothing else
         \* that is saved
  used,  \* ids that were generated
  last,  \* last[f]: the id msh last ran with, unless its instance was touched
  wrote  \* wrote[f]: the settings the user last wrote, msh being down

files   == <<host, node, inst, cfg>>
memory  == <<def, dirty, run>>
history == <<used, last, wrote>>
vars    == <<files, at, memory, history>>

Config == [id : Ids \cup {NoId}, ver : Versions \cup {NoVersion}, set : Settings \cup {NoSettings}]
Ats    == {"down", "id", "create", "write", "runtime", "save", "flush", "run"}

(* "junk" is any content msh does not accept: cut off, edited, of another
   version, or copied without its NUL byte. *)
NoInst == [kind |-> "absent"]
JunkI  == [kind |-> "junk"]
Insts  == {NoInst, JunkI} \cup
            [kind : {"instance"}, id : Ids, host : Hosts, node : FileIds]
NoCfg  == [kind |-> "absent"]
JunkC  == [kind |-> "junk"]
Cfgs   == {NoCfg, JunkC} \cup [kind : {"config"}, value : Config]
Saved(v) == [kind |-> "config", value |-> v]

(* Every variable stays in its domain. *)
TypeOK ==
  /\ host \in [Folders -> Hosts] /\ node \in [Folders -> FileIds]
  /\ inst \in [Folders -> Insts] /\ cfg \in [Folders -> Cfgs]
  /\ at \in [Folders -> Ats] /\ def \in [Folders -> Config]
  /\ dirty \in [Folders -> BOOLEAN] /\ run \in [Folders -> Versions \cup {NoVersion}]
  /\ used \subseteq Ids /\ last \in [Folders -> Ids \cup {NoId}]
  /\ wrote \in [Folders -> Settings \cup {"raced"}]

(* The memory of an msh that does not run. *)
Blank == [id |-> NoId, ver |-> NoVersion, set |-> NoSettings]

Init ==
  /\ host = [f \in Folders |-> HomeHost]
  /\ node \in [Folders -> FileIds] /\ \A f, g \in Folders : node[f] = node[g] => f = g
  /\ inst = [f \in Folders |-> NoInst]
  /\ \E s \in Settings :
       /\ wrote = [f \in Folders |-> s]
       /\ cfg = [f \in Folders |-> IF f = Home THEN Saved([Blank EXCEPT !.set = s]) ELSE NoCfg]
  /\ at = [f \in Folders |-> "down"]
  /\ def = [f \in Folders |-> Blank] /\ run = [f \in Folders |-> NoVersion]
  /\ dirty = [f \in Folders |-> FALSE]
  /\ used = {} /\ last = [f \in Folders |-> NoId]

Step(f, from, to) == at[f] = from /\ at' = [at EXCEPT ![f] = to]
-----------------------------------------------------------------------------
(* LoadConfig *)

Readable(f) == cfg[f].kind = "config"

(* os.ReadFile and json.Unmarshal into ConfigDefault; an error ends msh. *)
LoadDefault(f) ==
  /\ Readable(f)
  /\ Step(f, "down", "id")
  /\ def' = [def EXCEPT ![f] = cfg[f].value]
  /\ UNCHANGED <<files, dirty, run, history>>

(* A mistaken Healthy: the file id is not checked. *)
HealthyAnywhere(f) == inst[f].kind = "instance" /\ inst[f].host = host[f]

(* Another one: the id in the configuration file is the truth. *)
HealthyIfListed(f) ==
  /\ inst[f].kind = "instance" /\ inst[f].id = def[f].id
  /\ inst[f].host = host[f] /\ inst[f].node = node[f]

(* okV0 *)
Healthy(f) ==
  /\ inst[f].kind = "instance"
  /\ inst[f].host = host[f] /\ inst[f].node = node[f]

(* A mistaken SetId: the correction is not saved. *)
SetIdUnsaved(f, id) ==
  /\ def' = [def EXCEPT ![f].id = id]
  /\ UNCHANGED dirty

(* The correction of Msh.ID in loadDefault. *)
SetId(f, id) ==
  /\ def' = [def EXCEPT ![f].id = id]
  /\ dirty' = [dirty EXCEPT ![f] = @ \/ def[f].id # id]

MshID(f) ==
  /\ IF Healthy(f) THEN Step(f, "id", "runtime") /\ SetId(f, inst[f].id)
     ELSE Step(f, "id", "create") /\ UNCHANGED <<def, dirty>>
  /\ UNCHANGED <<files, run, history>>

(* newMshInstance: os.Create empties the file or makes it ... *)
Create(f) ==
  /\ Step(f, "create", "write")
  /\ inst' = [inst EXCEPT ![f] = JunkI]
  /\ UNCHANGED <<host, node, cfg, memory, history>>

(* A mistaken NewInstance: the file id is asked for before the file is made. *)
NewInstanceUntouched(f, id) == [kind |-> "instance", id |-> id, host |-> host[f], node |-> 0]

NewInstance(f, id) == [kind |-> "instance", id |-> id, host |-> host[f], node |-> node[f]]

(* ... and the new instance is written.  genMshId gives a new id. *)
WriteInstance(f) ==
  /\ Step(f, "write", "runtime")
  /\ \E id \in Ids \ used :
       /\ inst' = [inst EXCEPT ![f] = NewInstance(f, id)]
       /\ used' = used \cup {id}
       /\ SetId(f, id)
  /\ UNCHANGED <<host, node, cfg, run, last, wrote>>

(* A mistaken Runtime: the flags are parsed into ConfigDefault. *)
RuntimeInDefault(f) ==
  /\ Step(f, "runtime", "save")
  /\ \E s \in Settings : def' = [def EXCEPT ![f].set = s]
  /\ run' = [run EXCEPT ![f] = def[f].ver]
  /\ UNCHANGED <<files, dirty, history>>

(* loadRuntime copies ConfigDefault, parses the flags into the copy and asks the
   jar for the version: an invalid one is kept in the copy only. *)
Runtime(f) ==
  /\ Step(f, "runtime", "save")
  /\ \E v \in Versions \cup {NoVersion} :
       /\ run' = [run EXCEPT ![f] = v]
       /\ IF v = NoVersion THEN UNCHANGED <<def, dirty>>
          ELSE /\ def' = [def EXCEPT ![f].ver = v]
               /\ dirty' = [dirty EXCEPT ![f] = @ \/ def[f].ver # v]
  /\ UNCHANGED <<files, history>>

(* Save empties the file and writes it. *)
Save(f) ==
  /\ at[f] = "save"
  /\ IF dirty[f] THEN Step(f, "save", "flush") /\ cfg' = [cfg EXCEPT ![f] = JunkC] /\ UNCHANGED last
     ELSE Step(f, "save", "run") /\ last' = [last EXCEPT ![f] = def[f].id] /\ UNCHANGED cfg
  /\ UNCHANGED <<host, node, inst, memory, used, wrote>>

(* UnicodeEscape answers nil when it cannot unquote its input, and Save only
   logs that. *)
Escaped(c) == IF c.set \in Unescapable THEN JunkC ELSE Saved(c)

Flush(f) ==
  /\ Step(f, "flush", "run")
  /\ cfg' = [cfg EXCEPT ![f] = Escaped(def[f])]
  /\ dirty' = [dirty EXCEPT ![f] = FALSE]
  /\ last' = [last EXCEPT ![f] = def[f].id]
  /\ UNCHANGED <<host, node, inst, def, run, used, wrote>>

(* getServInfo: the server tells another version than the runtime one. *)
ServInfo(f) ==
  /\ at[f] = "run"
  /\ \E v \in Versions \ {run[f]} :
       /\ run' = IF run[f] = NoVersion THEN [run EXCEPT ![f] = v] ELSE run
       /\ def' = [def EXCEPT ![f].ver = v]
  /\ at' = [at EXCEPT ![f] = "save"] /\ dirty' = [dirty EXCEPT ![f] = TRUE]
  /\ UNCHANGED <<files, history>>

(* msh ends, in an orderly way or not, at any statement. *)
End(f) ==
  /\ at[f] # "down"
  /\ at' = [at EXCEPT ![f] = "down"]
  /\ def' = [def EXCEPT ![f] = Blank] /\ run' = [run EXCEPT ![f] = NoVersion]
  /\ dirty' = [dirty EXCEPT ![f] = FALSE]
  /\ UNCHANGED <<files, history>>

MshStep(f) ==
  \/ LoadDefault(f) \/ MshID(f) \/ Create(f) \/ WriteInstance(f) \/ Runtime(f)
  \/ Save(f) \/ Flush(f) \/ ServInfo(f) \/ End(f)
-----------------------------------------------------------------------------
(* The user *)

(* Writes the configuration file; msh may be running. *)
EditConfig(f) ==
  /\ cfg[f].kind # "absent"
  /\ \E s \in Settings :
       /\ cfg' = [cfg EXCEPT ![f] =
            Saved([IF @.kind = "config" THEN @.value ELSE Blank EXCEPT !.set = s])]
       /\ wrote' = [wrote EXCEPT ![f] = IF at[f] = "down" THEN s ELSE "raced"]
  /\ UNCHANGED <<host, node, inst, at, memory, used, last>>

Free(f, h) == {n \in FileIds : \A g \in Folders \ {f} : host[g] = h => node[g] # n}

(* Copies the files of f over those of g, whose msh is down. *)
Copy(f, g) ==
  /\ f # g /\ at[g] = "down" /\ cfg[f].kind # "absent"
  /\ cfg' = [cfg EXCEPT ![g] = cfg[f]]
  /\ wrote' = [wrote EXCEPT ![g] = IF at[f] = "down" THEN wrote[f] ELSE "raced"]
  /\ inst' \in {[inst EXCEPT ![g] = i] : i \in {inst[f], JunkI, NoInst}}
  /\ last' = [last EXCEPT ![g] = NoId]
  /\ UNCHANGED <<host, node, at, memory, used>>

(* Moves f to a disk of a host, for example by recreating its container. *)
Move(f) ==
  /\ at[f] = "down"
  /\ \E h \in Hosts : \E n \in Free(f, h) :
       host' = [host EXCEPT ![f] = h] /\ node' = [node EXCEPT ![f] = n]
  /\ last' = [last EXCEPT ![f] = NoId]
  /\ UNCHANGED <<inst, cfg, at, memory, used, wrote>>

(* Deletes or edits msh.instance. *)
Touch(f) ==
  /\ at[f] = "down"
  /\ inst' \in {[inst EXCEPT ![f] = i] : i \in {NoInst, JunkI}}
  /\ last' = [last EXCEPT ![f] = NoId]
  /\ UNCHANGED <<host, node, cfg, at, memory, used, wrote>>

UserStep ==
  \E f \in Folders :
    EditConfig(f) \/ Move(f) \/ Touch(f) \/ \E g \in Folders : Copy(f, g)

Next == UserStep \/ \E f \in Folders : MshStep(f)

Spec == Init /\ [][Next]_vars
-----------------------------------------------------------------------------
(* Properties *)

(* Two msh never run with the same id, however their files were copied or
   moved (config-mshid.go:199). *)
UniqueIds ==
  \A f, g \in Folders : at[f] = "run" /\ at[g] = "run" /\ def[f].id = def[g].id => f = g

(* An msh keeps its id over restarts and crashes, a crash while it makes its
   instance included, unless somebody touched the instance. *)
IdKept ==
  [][\A f \in Folders :
       at[f] # "run" /\ at'[f] = "run" /\ last[f] # NoId => def'[f].id = last[f]]_vars

(* A running msh has the id of its instance in its configuration file, and that
   file is one it can load again, unless UnicodeEscape cannot read a setting in
   it: Save then writes an empty file (config.go:99). *)
FileAgrees ==
  \A f \in Folders : at[f] = "run" /\ def[f].set \notin Unescapable =>
    /\ Readable(f)
    /\ wrote[f] # "raced" => cfg[f].value.id = def[f].id /\ inst[f].id = def[f].id

(* What msh saves never replaces the settings the user wrote by those of the
   flags. *)
KeepsSettings ==
  \A f \in Folders :
    cfg[f].kind = "config" => wrote[f] \in {"raced", cfg[f].value.set}
=============================================================================
