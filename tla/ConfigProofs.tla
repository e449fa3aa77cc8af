---------------------------- MODULE ConfigProofs ----------------------------
(***************************************************************************)
(* The ids of msh instances, for any number of folders, hosts, ids and     *)
(* settings, whatever users copy, move, edit or delete between two runs:   *)
(* theorems about Config.                                                  *)
(***************************************************************************)
EXTENDS Config, TLAPS

(* What the actions write into files and memory is in the domains. *)
LEMMA Values ==
  /\ Blank \in Config
  /\ NoInst \in Insts /\ JunkI \in Insts /\ NoCfg \in Cfgs /\ JunkC \in Cfgs
  /\ \A v \in Config : Saved(v) \in Cfgs
  /\ \A v \in Config, s \in Settings : [v EXCEPT !.set = s] \in Config
  /\ \A v \in Config, id \in Ids : [v EXCEPT !.id = id] \in Config
  /\ \A v \in Config, w \in Versions : [v EXCEPT !.ver = w] \in Config
<1>1. Blank \in Config
  BY DEF Blank, Config
<1>2. NoInst \in Insts /\ JunkI \in Insts
  BY DEF Insts, NoInst, JunkI
<1>3. NoCfg \in Cfgs /\ JunkC \in Cfgs
  BY DEF Cfgs, NoCfg, JunkC
<1>4. ASSUME NEW v \in Config PROVE Saved(v) \in Cfgs
  BY DEF Saved, Cfgs
<1>5. ASSUME NEW v \in Config, NEW s \in Settings PROVE [v EXCEPT !.set = s] \in Config
  BY DEF Config
<1>6. ASSUME NEW v \in Config, NEW id \in Ids PROVE [v EXCEPT !.id = id] \in Config
  BY DEF Config
<1>7. ASSUME NEW v \in Config, NEW w \in Versions PROVE [v EXCEPT !.ver = w] \in Config
  BY DEF Config
<1> QED
  BY <1>1, <1>2, <1>3, <1>4, <1>5, <1>6, <1>7

(* What they read from them is too. *)
LEMMA Kinds ==
  /\ \A c \in Cfgs : c.kind = "config" => c.value \in Config
  /\ \A i \in Insts : i.kind = "instance" => i.id \in Ids
<1>1. ASSUME NEW c \in Cfgs, c.kind = "config" PROVE c.value \in Config
  BY <1>1 DEF Cfgs, NoCfg, JunkC
<1>2. ASSUME NEW i \in Insts, i.kind = "instance" PROVE i.id \in Ids
  BY <1>2 DEF Insts, NoInst, JunkI
<1> QED
  BY <1>1, <1>2

(* The steps of an msh that runs stay in the domains. *)
LEMMA MshType ==
  ASSUME TypeOK, NEW f \in Folders, MshStep(f)
  PROVE  TypeOK'
<1> USE Values, Kinds, ConfigAssumption
<1>1. CASE LoadDefault(f)
  BY <1>1 DEF LoadDefault, Readable, Step, TypeOK, Ats, files, history
<1>2. CASE MshID(f)
  <2>1. CASE Healthy(f)
    <3>1. inst[f].id \in Ids /\ def[f] \in Config
      BY <2>1 DEF Healthy, TypeOK
    <3>2. def' \in [Folders -> Config]
      <4>1. [def[f] EXCEPT !.id = inst[f].id] \in Config
        BY <3>1
      <4> QED
        BY <1>2, <2>1, <4>1 DEF MshID, SetId, TypeOK
    <3>3. dirty' \in [Folders -> BOOLEAN]
      BY <1>2, <2>1 DEF MshID, SetId, TypeOK
    <3> QED
      BY <1>2, <2>1, <3>2, <3>3 DEF MshID, Step, TypeOK, Ats, files, history
  <2>2. CASE ~Healthy(f)
    BY <1>2, <2>2 DEF MshID, Step, TypeOK, Ats, files, history
  <2> QED
    BY <2>1, <2>2
<1>3. CASE Create(f)
  BY <1>3 DEF Create, Step, TypeOK, Ats, memory, history
<1>4. CASE WriteInstance(f)
  <2> PICK id \in Ids \ used :
        /\ inst' = [inst EXCEPT ![f] = NewInstance(f, id)]
        /\ used' = used \cup {id}
        /\ SetId(f, id)
    BY <1>4 DEF WriteInstance
  <2>1. NewInstance(f, id) \in Insts
    BY DEF NewInstance, Insts, TypeOK
  <2>2. [def[f] EXCEPT !.id = id] \in Config
    BY DEF TypeOK
  <2>3. def' \in [Folders -> Config] /\ dirty' \in [Folders -> BOOLEAN]
    BY <2>2 DEF SetId, TypeOK
  <2>4. inst' \in [Folders -> Insts] /\ used' \subseteq Ids
    BY <2>1 DEF TypeOK
  <2> QED
    BY <1>4, <2>3, <2>4 DEF WriteInstance, Step, TypeOK, Ats
<1>5. CASE Runtime(f)
  <2> PICK v \in Versions \cup {NoVersion} :
       /\ run' = [run EXCEPT ![f] = v]
       /\ IF v = NoVersion THEN UNCHANGED <<def, dirty>>
          ELSE /\ def' = [def EXCEPT ![f].ver = v]
               /\ dirty' = [dirty EXCEPT ![f] = @ \/ def[f].ver # v]
    BY <1>5 DEF Runtime
  <2>1. def' \in [Folders -> Config] /\ dirty' \in [Folders -> BOOLEAN]
    <3>1. CASE v = NoVersion
      BY <3>1 DEF TypeOK
    <3>2. CASE v # NoVersion
      <4>1. [def[f] EXCEPT !.ver = v] \in Config
        BY <3>2 DEF TypeOK
      <4>2. def' = [def EXCEPT ![f] = [def[f] EXCEPT !.ver = v]]
        BY <3>2
      <4>3. dirty' \in [Folders -> BOOLEAN]
        BY <3>2 DEF TypeOK
      <4> QED
        BY <4>1, <4>2, <4>3 DEF TypeOK
    <3> QED
      BY <3>1, <3>2
  <2> QED
    BY <1>5, <2>1 DEF Runtime, Step, TypeOK, Ats, files, history
<1>6. CASE Save(f)
  <2>1. def[f].id \in Ids \cup {NoId}
    BY DEF TypeOK, Config
  <2> QED
    BY <1>6, <2>1 DEF Save, Step, TypeOK, Ats, memory
<1>7. CASE Flush(f)
  <2>1. Escaped(def[f]) \in Cfgs /\ def[f].id \in Ids \cup {NoId}
    BY DEF TypeOK, Config, Escaped
  <2> QED
    BY <1>7, <2>1 DEF Flush, Step, TypeOK, Ats
<1>8. CASE ServInfo(f)
  <2> PICK v \in Versions \ {run[f]} :
       /\ run' = IF run[f] = NoVersion THEN [run EXCEPT ![f] = v] ELSE run
       /\ def' = [def EXCEPT ![f].ver = v]
    BY <1>8 DEF ServInfo
  <2>1. def' \in [Folders -> Config]
    <3>1. [def[f] EXCEPT !.ver = v] \in Config
      BY DEF TypeOK
    <3> QED
      BY <3>1 DEF TypeOK
  <2> QED
    BY <1>8, <2>1 DEF ServInfo, TypeOK, Ats, files, history
<1>9. CASE End(f)
  BY <1>9 DEF End, TypeOK, Ats, files, history
<1> QED
  BY <1>1, <1>2, <1>3, <1>4, <1>5, <1>6, <1>7, <1>8, <1>9 DEF MshStep

(* So do the steps of the user. *)
LEMMA UserType ==
  ASSUME TypeOK, UserStep
  PROVE  TypeOK'
<1> USE Values, Kinds
<1>1. ASSUME NEW f \in Folders, EditConfig(f) PROVE TypeOK'
  <2> PICK s \in Settings :
       /\ cfg' = [cfg EXCEPT ![f] =
            Saved([IF @.kind = "config" THEN @.value ELSE Blank EXCEPT !.set = s])]
       /\ wrote' = [wrote EXCEPT ![f] = IF at[f] = "down" THEN s ELSE "raced"]
    BY <1>1 DEF EditConfig
  <2> DEFINE old == IF cfg[f].kind = "config" THEN cfg[f].value ELSE Blank
  <2>1. Saved([old EXCEPT !.set = s]) \in Cfgs
    <3>1. old \in Config
      BY DEF TypeOK
    <3> QED
      BY <3>1
  <2>2. cfg' \in [Folders -> Cfgs]
    BY <2>1 DEF TypeOK
  <2>3. wrote' \in [Folders -> Settings \cup {"raced"}]
    BY DEF TypeOK
  <2> QED
    BY <1>1, <2>2, <2>3 DEF EditConfig, TypeOK, memory
<1>2. ASSUME NEW f \in Folders, Move(f) PROVE TypeOK'
  BY <1>2 DEF Move, Free, TypeOK, memory
<1>3. ASSUME NEW f \in Folders, Touch(f) PROVE TypeOK'
  BY <1>3 DEF Touch, TypeOK, memory
<1>4. ASSUME NEW f \in Folders, NEW g \in Folders, Copy(f, g) PROVE TypeOK'
  <2>1. cfg[f] \in Cfgs /\ inst[f] \in Insts
    BY DEF TypeOK
  <2>2. inst' \in [Folders -> Insts]
    BY <1>4, <2>1 DEF Copy, TypeOK
  <2> QED
    BY <1>4, <2>1, <2>2 DEF Copy, TypeOK, memory
<1> QED
  BY <1>1, <1>2, <1>3, <1>4 DEF UserStep

(* Every variable of Config stays in its domain. *)
THEOREM TypeCorrect == Spec => []TypeOK
<1>1. Init => TypeOK
  <2> SUFFICES ASSUME Init PROVE TypeOK
    OBVIOUS
  <2> PICK s \in Settings :
       /\ wrote = [f \in Folders |-> s]
       /\ cfg = [f \in Folders |-> IF f = Home THEN Saved([Blank EXCEPT !.set = s]) ELSE NoCfg]
    BY DEF Init
  <2>1. Saved([Blank EXCEPT !.set = s]) \in Cfgs
    BY Values
  <2>2. cfg \in [Folders -> Cfgs]
    BY <2>1, Values
  <2> QED
    BY <2>2, Values, ConfigAssumption DEF Init, TypeOK, Ats
<1>2. TypeOK /\ [Next]_vars => TypeOK'
  <2> SUFFICES ASSUME TypeOK, [Next]_vars PROVE TypeOK'
    OBVIOUS
  <2>1. CASE UNCHANGED vars
    BY <2>1 DEF vars, files, memory, history, TypeOK
  <2> QED
    BY <2>1, MshType, UserType DEF Next
<1> QED
  BY <1>1, <1>2, PTL DEF Spec

-----------------------------------------------------------------------------
(* The files of two folders hold one id only if one is a copy of the other, so
   that both name one host and one file id; no two folders are in one place.
   From the moment msh knows its id until it ends, its instance is healthy and
   holds that id; and an instance that nobody touched since msh last ran holds
   the id it ran with. *)
Knows(f) == at[f] \in {"runtime", "save", "flush", "run"}

IdInv ==
  /\ \A f, g \in Folders : host[f] = host[g] /\ node[f] = node[g] => f = g
  /\ \A f \in Folders : inst[f].kind = "instance" => inst[f].id \in used
  /\ \A f, g \in Folders :
       inst[f].kind = "instance" /\ inst[g].kind = "instance" /\ inst[f].id = inst[g].id
         => inst[f].host = inst[g].host /\ inst[f].node = inst[g].node
  /\ \A f \in Folders : Knows(f) => Healthy(f) /\ def[f].id = inst[f].id
  /\ \A f \in Folders :
       last[f] # NoId => Healthy(f) /\ inst[f].id = last[f] /\ at[f] \notin {"create", "write"}

(* The steps that leave the places and the instances alone, and forget or keep
   the ids: most of LoadConfig, and its end. *)
LEMMA MemoryStep ==
  ASSUME TypeOK, IdInv, UNCHANGED <<host, node, inst>>, used \subseteq used',
         \A f \in Folders : Knows(f)' => Healthy(f) /\ def'[f].id = inst[f].id,
         \A f \in Folders : last'[f] # NoId =>
            Healthy(f) /\ inst[f].id = last'[f] /\ at'[f] \notin {"create", "write"}
  PROVE  IdInv'
  BY DEF IdInv, Healthy

(* The steps of an msh keep IdInv: it takes a healthy instance for its own or makes one with a new id. *)
LEMMA MshIds ==
  ASSUME TypeOK, IdInv, NEW f \in Folders, MshStep(f)
  PROVE  IdInv'
<1> USE DEF IdInv
<1>1. CASE LoadDefault(f)
  BY <1>1, MemoryStep DEF LoadDefault, Step, TypeOK, Knows, files, history
<1>2. CASE MshID(f)
  <2>1. CASE Healthy(f)
    <3>1. at' = [at EXCEPT ![f] = "runtime"] /\ at[f] = "id" /\ SetId(f, inst[f].id)
          /\ UNCHANGED <<host, node, inst, last, used>>
      BY <1>2, <2>1 DEF MshID, Step, files, history
    <3>2. def'[f].id = inst[f].id /\ \A g \in Folders \ {f} : def'[g] = def[g] /\ at'[g] = at[g]
      BY <3>1 DEF SetId, TypeOK, Config
    <3>3. at'[f] = "runtime"
      BY <3>1 DEF TypeOK
    <3> QED
      BY <2>1, <3>1, <3>2, <3>3, MemoryStep DEF Knows
  <2>2. CASE ~Healthy(f)
    BY <1>2, <2>2, MemoryStep DEF MshID, Step, TypeOK, Knows, files, history
  <2> QED
    BY <2>1, <2>2
<1>3. CASE Create(f)
  <2>1. last[f] = NoId
    BY <1>3 DEF Create, Step
  <2> QED
    BY <1>3, <2>1 DEF Create, Step, TypeOK, Knows, Healthy, JunkI, memory, history
<1>4. CASE WriteInstance(f)
  <2> PICK id \in Ids \ used :
        /\ inst' = [inst EXCEPT ![f] = NewInstance(f, id)]
        /\ used' = used \cup {id}
        /\ SetId(f, id)
    BY <1>4 DEF WriteInstance
  <2>1. last[f] = NoId
    BY <1>4 DEF WriteInstance, Step
  <2>2. inst'[f] = NewInstance(f, id) /\ def'[f].id = id
        /\ \A g \in Folders \ {f} : inst'[g] = inst[g] /\ def'[g] = def[g] /\ at'[g] = at[g]
    BY <1>4 DEF WriteInstance, SetId, Step, TypeOK
  <2>3. UNCHANGED <<host, node, last>>
    BY <1>4 DEF WriteInstance
  <2>4. \A g \in Folders : inst'[g].kind = "instance" => inst'[g].id \in used'
    BY <2>2 DEF NewInstance
  <2>5. \A g, h \in Folders :
         inst'[g].kind = "instance" /\ inst'[h].kind = "instance" /\ inst'[g].id = inst'[h].id
           => inst'[g].host = inst'[h].host /\ inst'[g].node = inst'[h].node
    BY <2>2 DEF NewInstance
  <2>6. \A g \in Folders : Knows(g)' => Healthy(g)' /\ def'[g].id = inst'[g].id
    BY <2>2, <2>3 DEF NewInstance, Knows, Healthy
  <2>7. \A g \in Folders :
         last'[g] # NoId => Healthy(g)' /\ inst'[g].id = last'[g] /\ at'[g] \notin {"create", "write"}
    BY <2>1, <2>2, <2>3 DEF Healthy
  <2> QED
    BY <2>3, <2>4, <2>5, <2>6, <2>7
<1>5. CASE Runtime(f)
  <2>1. \A g \in Folders : def'[g].id = def[g].id
    BY <1>5 DEF Runtime, TypeOK, Config
  <2> QED
    BY <1>5, <2>1, MemoryStep DEF Runtime, Step, TypeOK, Knows, files, history
<1>6. CASE Save(f)
  BY <1>6, MemoryStep DEF Save, Step, TypeOK, Knows, memory
<1>7. CASE Flush(f)
  BY <1>7, MemoryStep DEF Flush, Step, TypeOK, Knows
<1>8. CASE ServInfo(f)
  <2>1. \A g \in Folders : def'[g].id = def[g].id
    BY <1>8 DEF ServInfo, TypeOK, Config
  <2> QED
    BY <1>8, <2>1, MemoryStep DEF ServInfo, TypeOK, Knows, files, history
<1>9. CASE End(f)
  BY <1>9, MemoryStep DEF End, TypeOK, Knows, files, history
<1> QED
  BY <1>1, <1>2, <1>3, <1>4, <1>5, <1>6, <1>7, <1>8, <1>9 DEF MshStep

(* What users do to the files keeps IdInv. *)
LEMMA UserIds ==
  ASSUME TypeOK, IdInv, UserStep
  PROVE  IdInv'
<1> USE DEF IdInv
<1>1. ASSUME NEW f \in Folders, EditConfig(f) PROVE IdInv'
  BY <1>1, MemoryStep DEF EditConfig, Knows, memory
<1>2. ASSUME NEW f \in Folders, Move(f) PROVE IdInv'
  <2> PICK h \in Hosts : \E n \in Free(f, h) :
        host' = [host EXCEPT ![f] = h] /\ node' = [node EXCEPT ![f] = n]
    BY <1>2 DEF Move
  <2> PICK n \in Free(f, h) :
        host' = [host EXCEPT ![f] = h] /\ node' = [node EXCEPT ![f] = n]
    OBVIOUS
  <2>1. last' = [last EXCEPT ![f] = NoId] /\ at[f] = "down"
        /\ UNCHANGED <<inst, at, def, used>>
    BY <1>2 DEF Move, memory
  <2>2. \A g \in Folders \ {f} : host'[g] = host[g] /\ node'[g] = node[g] /\ last'[g] = last[g]
    BY <2>1 DEF TypeOK
  <2>3. host'[f] = h /\ node'[f] = n /\ last'[f] = NoId
    BY <2>1 DEF TypeOK
  <2>4. \A g \in Folders \ {f} : host[g] = h => node[g] # n
    BY DEF Free
  <2> QED
    BY <2>1, <2>2, <2>3, <2>4 DEF Knows, Healthy
<1>3. ASSUME NEW f \in Folders, Touch(f) PROVE IdInv'
  BY <1>3 DEF Touch, TypeOK, Knows, Healthy, NoInst, JunkI, memory
<1>4. ASSUME NEW f \in Folders, NEW g \in Folders, Copy(f, g) PROVE IdInv'
  <2>1. last' = [last EXCEPT ![g] = NoId] /\ at[g] = "down"
        /\ UNCHANGED <<host, node, at, def, used>>
    BY <1>4 DEF Copy, memory
  <2>2. \A h \in Folders \ {g} : inst'[h] = inst[h] /\ last'[h] = last[h]
    BY <1>4, <2>1 DEF Copy, TypeOK
  <2>3. inst'[g] \in {inst[f], JunkI, NoInst} /\ last'[g] = NoId
    BY <1>4, <2>1 DEF Copy, TypeOK
  <2>4. inst'[g].kind = "instance" => inst'[g] = inst[f]
    BY <2>3 DEF JunkI, NoInst
  <2> QED
    BY <2>1, <2>2, <2>3, <2>4 DEF Knows, Healthy
<1> QED
  BY <1>1, <1>2, <1>3, <1>4 DEF UserStep

(* What is known of ids at every statement of LoadConfig always holds: the
   invariant behind the properties of the ids. *)
THEOREM IdInvCorrect == Spec => []IdInv
<1>1. Init => IdInv
  BY DEF Init, IdInv, NoInst, Knows
<1>2. TypeOK /\ IdInv /\ [Next]_vars => IdInv'
  <2> SUFFICES ASSUME TypeOK, IdInv, [Next]_vars PROVE IdInv'
    OBVIOUS
  <2>1. CASE UNCHANGED vars
    BY <2>1 DEF vars, files, memory, history, IdInv, Knows, Healthy
  <2> QED
    BY <2>1, MshIds, UserIds DEF Next
<1> QED
  BY <1>1, <1>2, TypeCorrect, PTL DEF Spec

(* Two msh never run with the same id (okV0, newMshInstance). *)
THEOREM UniqueIdsCorrect == Spec => []UniqueIds
<1>1. IdInv => UniqueIds
  BY DEF IdInv, UniqueIds, Knows, Healthy
<1> QED
  BY <1>1, IdInvCorrect, PTL

(* An msh keeps its id over restarts and crashes, unless its instance was
   touched (MshID, newMshInstance, Save). *)
THEOREM IdKeptCorrect == Spec => IdKept
<1> DEFINE Kept == \A f \in Folders :
             at[f] # "run" /\ at'[f] = "run" /\ last[f] # NoId => def'[f].id = last[f]
<1>1. TypeOK /\ IdInv /\ [Next]_vars => [Kept]_vars
  <2> SUFFICES ASSUME TypeOK, IdInv, Next, NEW f \in Folders,
                      at[f] # "run", at'[f] = "run", last[f] # NoId
               PROVE  def'[f].id = last[f]
    OBVIOUS
  <2>1. Save(f) \/ Flush(f)
    BY DEF Next, UserStep, MshStep, EditConfig, Move, Touch, Copy, LoadDefault, MshID, Create,
         WriteInstance, Runtime, Save, Flush, ServInfo, End, Step, TypeOK
  <2>2. def' = def /\ Knows(f)
    BY <2>1 DEF Save, Flush, Step, memory, Knows
  <2> QED
    BY <2>2 DEF IdInv
<1> QED
  BY <1>1, TypeCorrect, IdInvCorrect, PTL DEF Spec, IdKept

-----------------------------------------------------------------------------
(* What msh has loaded, and so what it saves, has the settings the user wrote. *)
SettingsInv ==
  \A f \in Folders :
    /\ cfg[f].kind = "config" => wrote[f] \in {"raced", cfg[f].value.set}
    /\ at[f] # "down" => wrote[f] \in {"raced", def[f].set}

(* No flag and no correction reaches the settings of the file (loadRuntime,
   Save). *)
THEOREM KeepsSettingsCorrect == Spec => []KeepsSettings
<1>1. Init => SettingsInv
  <2> SUFFICES ASSUME Init, NEW f \in Folders
               PROVE  /\ cfg[f].kind = "config" => wrote[f] = cfg[f].value.set
                      /\ at[f] = "down"
    BY DEF SettingsInv
  <2> PICK s \in Settings :
       /\ wrote = [g \in Folders |-> s]
       /\ cfg = [g \in Folders |-> IF g = Home THEN Saved([Blank EXCEPT !.set = s]) ELSE NoCfg]
    BY DEF Init
  <2>1. Saved([Blank EXCEPT !.set = s]).value.set = s
    BY DEF Saved, Blank
  <2>2. cfg[f] = Saved([Blank EXCEPT !.set = s]) \/ cfg[f] = NoCfg
    OBVIOUS
  <2> QED
    BY <2>1, <2>2 DEF Init, NoCfg
<1>2. TypeOK /\ SettingsInv /\ [Next]_vars => SettingsInv'
  <2> SUFFICES ASSUME TypeOK, SettingsInv, [Next]_vars PROVE SettingsInv'
    OBVIOUS
  <2> USE DEF SettingsInv
  <2>1. ASSUME NEW f \in Folders, LoadDefault(f) PROVE SettingsInv'
    BY <2>1 DEF LoadDefault, Readable, Step, TypeOK, files, history
  <2>2. ASSUME NEW f \in Folders,
               MshID(f) \/ Create(f) \/ WriteInstance(f) \/ Runtime(f) \/ ServInfo(f)
        PROVE  SettingsInv'
    <3>1. UNCHANGED <<cfg, wrote>> /\ \A g \in Folders : at'[g] # "down" => at[g] # "down"
      BY <2>2 DEF MshID, Create, WriteInstance, Runtime, ServInfo, Step, TypeOK, files, history
    <3>2. \A g \in Folders : def'[g].set = def[g].set
      <4>1. CASE MshID(f)
        BY <4>1 DEF MshID, SetId, TypeOK, Config
      <4>2. CASE Create(f)
        BY <4>2 DEF Create, memory
      <4>3. CASE WriteInstance(f)
        BY <4>3 DEF WriteInstance, SetId, TypeOK, Config
      <4>4. CASE Runtime(f)
        BY <4>4 DEF Runtime, TypeOK, Config
      <4>5. CASE ServInfo(f)
        BY <4>5 DEF ServInfo, TypeOK, Config
      <4> QED
        BY <2>2, <4>1, <4>2, <4>3, <4>4, <4>5
    <3> QED
      BY <3>1, <3>2
  <2>3. ASSUME NEW f \in Folders, Save(f) PROVE SettingsInv'
    BY <2>3 DEF Save, Step, TypeOK, JunkC, memory
  <2>4. ASSUME NEW f \in Folders, Flush(f) PROVE SettingsInv'
    BY <2>4 DEF Flush, Escaped, Step, TypeOK, JunkC, Saved
  <2>5. ASSUME NEW f \in Folders, End(f) PROVE SettingsInv'
    BY <2>5 DEF End, TypeOK, files, history
  <2>6. ASSUME NEW f \in Folders, EditConfig(f) PROVE SettingsInv'
    <3> PICK s \in Settings :
         /\ cfg' = [cfg EXCEPT ![f] =
              Saved([IF @.kind = "config" THEN @.value ELSE Blank EXCEPT !.set = s])]
         /\ wrote' = [wrote EXCEPT ![f] = IF at[f] = "down" THEN s ELSE "raced"]
      BY <2>6 DEF EditConfig
    <3>1. cfg'[f].kind = "config" => cfg'[f].value.set = s
      <4> DEFINE old == IF cfg[f].kind = "config" THEN cfg[f].value ELSE Blank
      <4>1. old \in Config
        BY Values, Kinds DEF TypeOK
      <4>2. cfg'[f] = Saved([old EXCEPT !.set = s])
        BY DEF TypeOK
      <4> QED
        BY <4>1, <4>2 DEF Saved, Config
    <3>2. UNCHANGED <<at, def>> /\ \A g \in Folders \ {f} : cfg'[g] = cfg[g] /\ wrote'[g] = wrote[g]
      BY <2>6 DEF EditConfig, TypeOK, memory
    <3>3. wrote'[f] = IF at[f] = "down" THEN s ELSE "raced"
      BY DEF TypeOK
    <3> QED
      BY <3>1, <3>2, <3>3
  <2>7. ASSUME NEW f \in Folders, Move(f) \/ Touch(f) PROVE SettingsInv'
    BY <2>7 DEF Move, Touch, memory
  <2>8. ASSUME NEW f \in Folders, NEW g \in Folders, Copy(f, g) PROVE SettingsInv'
    BY <2>8 DEF Copy, TypeOK, memory
  <2>9. CASE UNCHANGED vars
    BY <2>9 DEF vars, files, memory, history
  <2> QED
    BY <2>1, <2>2, <2>3, <2>4, <2>5, <2>6, <2>7, <2>8, <2>9 DEF Next, UserStep, MshStep
<1>3. SettingsInv => KeepsSettings
  BY DEF SettingsInv, KeepsSettings
<1> QED
  BY <1>1, <1>2, <1>3, TypeCorrect, PTL DEF Spec

-----------------------------------------------------------------------------
(* An msh that has nothing to save has the file on disk, id included. *)
FileInv ==
  \A f \in Folders :
    /\ at[f] \notin {"down", "flush"} /\ def[f].set \notin Unescapable => Readable(f)
    /\ at[f] \notin {"down", "flush"} /\ def[f].set \notin Unescapable
         /\ ~dirty[f] /\ wrote[f] # "raced"
         => cfg[f].value.id = def[f].id
    /\ at[f] = "run" => ~dirty[f]

(* An id that differs from the one in the file is marked to be saved. *)
LEMMA SetIdSaves ==
  ASSUME TypeOK, NEW f \in Folders, NEW id, SetId(f, id)
  PROVE  /\ \A g \in Folders \ {f} : def'[g] = def[g] /\ dirty'[g] = dirty[g]
         /\ dirty'[f] \in BOOLEAN /\ def'[f].set = def[f].set
         /\ ~dirty'[f] => ~dirty[f] /\ def'[f].id = def[f].id
<1>1. def'[f].id = id /\ def'[f].set = def[f].set /\ dirty'[f] = (dirty[f] \/ def[f].id # id)
  BY DEF SetId, TypeOK, Config
<1>2. \A g \in Folders \ {f} : def'[g] = def[g] /\ dirty'[g] = dirty[g]
  BY DEF SetId, TypeOK
<1> QED
  BY <1>1, <1>2

(* A running msh has its id in a configuration file that it can load again,
   unless UnicodeEscape fails on its settings (LoadConfig, Save). *)
THEOREM FileAgreesCorrect == Spec => []FileAgrees
<1>1. Init => FileInv
  BY DEF Init, FileInv
<1>2. TypeOK /\ FileInv /\ [Next]_vars => FileInv'
  <2> SUFFICES ASSUME TypeOK, FileInv, [Next]_vars PROVE FileInv'
    OBVIOUS
  <2> USE DEF FileInv, Readable
  <2>1. ASSUME NEW f \in Folders, LoadDefault(f) PROVE FileInv'
    BY <2>1 DEF LoadDefault, Step, TypeOK, files, history
  <2>2. ASSUME NEW f \in Folders, MshID(f) PROVE FileInv'
    BY <2>2, SetIdSaves DEF MshID, Step, TypeOK, files, history
  <2>3. ASSUME NEW f \in Folders, Create(f) PROVE FileInv'
    BY <2>3 DEF Create, Step, TypeOK, memory, history
  <2>4. ASSUME NEW f \in Folders, WriteInstance(f) PROVE FileInv'
    BY <2>4, SetIdSaves DEF WriteInstance, Step, TypeOK
  <2>5. ASSUME NEW f \in Folders, Runtime(f) PROVE FileInv'
    BY <2>5 DEF Runtime, Step, TypeOK, Config, files, history
  <2>6. ASSUME NEW f \in Folders, Save(f) PROVE FileInv'
    BY <2>6 DEF Save, Step, TypeOK, memory
  <2>7. ASSUME NEW f \in Folders, Flush(f) PROVE FileInv'
    BY <2>7 DEF Flush, Escaped, Step, TypeOK, Config, Saved
  <2>8. ASSUME NEW f \in Folders, ServInfo(f) PROVE FileInv'
    BY <2>8 DEF ServInfo, TypeOK, Config, files, history
  <2>9. ASSUME NEW f \in Folders, End(f) PROVE FileInv'
    BY <2>9 DEF End, TypeOK, files, history
  <2>10. ASSUME NEW f \in Folders, EditConfig(f) PROVE FileInv'
    BY <2>10 DEF EditConfig, TypeOK, Saved, memory
  <2>11. ASSUME NEW f \in Folders, Move(f) \/ Touch(f) PROVE FileInv'
    BY <2>11 DEF Move, Touch, memory
  <2>12. ASSUME NEW f \in Folders, NEW g \in Folders, Copy(f, g) PROVE FileInv'
    BY <2>12 DEF Copy, TypeOK, memory
  <2>13. CASE UNCHANGED vars
    BY <2>13 DEF vars, files, memory, history
  <2> QED
    BY <2>1, <2>2, <2>3, <2>4, <2>5, <2>6, <2>7, <2>8, <2>9, <2>10, <2>11, <2>12, <2>13
       DEF Next, UserStep, MshStep
<1>3. FileInv /\ IdInv => FileAgrees
  BY DEF FileInv, IdInv, Knows, FileAgrees
<1> QED
  BY <1>1, <1>2, <1>3, TypeCorrect, IdInvCorrect, PTL DEF Spec
=============================================================================
