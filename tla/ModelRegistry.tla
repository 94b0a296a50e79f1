----------------------------- MODULE ModelRegistry -----------------------------
(* aegis/llm/model_manager.py: the models on the disk and the registry file     *)
(* that lists them.  Every process (the API, a command line, the first boot)    *)
(* reads the registry once, works on its copy and writes all of it back at      *)
(* every change, in place: the file is cut when it is opened.                   *)
EXTENDS Naturals, FiniteSets

CONSTANTS
  Model,             \* file names
  Process

VARIABLES
  disk,              \* the model files
  registryFile,      \* missing, torn, or the registry it holds
  registry,          \* process -> its copy, one entry per name
  job                \* process -> where its call is

registryVars == <<disk, registryFile, registry, job>>

Entry == {"none", "idle", "active"}
NoEntries == [m \in Model |-> "none"]
NoFile == [kind |-> "missing", entries |-> NoEntries]
TornFile == [kind |-> "torn", entries |-> NoEntries]

NoModel == "no model"
Down == [at |-> "down", delete |-> NoModel]
AtRest == [at |-> "rest", delete |-> NoModel]

ASSUME ModelNames == {"down", "rest", "saving", "removing", NoModel} \cap Model = {}

RegistryTypeOK ==
  /\ disk \subseteq Model
  /\ registryFile.kind \in {"missing", "torn", "ok"} /\ registryFile.entries \in [Model -> Entry]
  /\ registry \in [Process -> [Model -> Entry]]
  /\ job \in [Process -> [at : {"down", "rest", "saving", "removing"} \cup Model,
                          delete : Model \cup {NoModel}]]

-------------------------------------------------------------------------------
BetweenCalls(p) == job[p] = AtRest
Registered(p, m) == registry[p][m] # "none"

\* _save_registry: opened, then closed.  Where another save has ended since, the
\* longer of the two may show below the shorter one.
Save(p, entries, delete) ==
  /\ registry' = [registry EXCEPT ![p] = entries]
  /\ registryFile' = TornFile
  /\ job' = [job EXCEPT ![p] = [at |-> "saving", delete |-> delete]]

EndSave(p) ==
  /\ job[p].at = "saving"
  /\ registryFile' \in {[kind |-> "ok", entries |-> registry[p]]}
                        \cup (IF registryFile = TornFile THEN {} ELSE {TornFile})
  /\ job' = [job EXCEPT ![p].at = IF job[p].delete = NoModel THEN "rest" ELSE "removing"]
  /\ UNCHANGED <<disk, registry>>

\* A torn registry does not parse: the constructor raises and nothing starts.
OpenRegistry(p) ==
  /\ job[p].at = "down" /\ UNCHANGED disk
  /\ \/ registryFile.kind = "missing" /\ Save(p, NoEntries, NoModel)
     \/ /\ registryFile.kind = "ok"
        /\ registry' = [registry EXCEPT ![p] = registryFile.entries]
        /\ job' = [job EXCEPT ![p] = AtRest] /\ UNCHANGED registryFile

\* download_model fetches a file that is not there,
Fetch(p, m) ==
  /\ BetweenCalls(p)
  /\ disk' = disk \cup {m} /\ job' = [job EXCEPT ![p].at = m]
  /\ UNCHANGED <<registryFile, registry>>

\* hashes it, which raises when it is gone by then, and lists it as a new entry:
\* one that was active is not any more.
Register(p, m) ==
  /\ job[p].at = m
  /\ IF m \in disk THEN Save(p, [registry[p] EXCEPT ![m] = "idle"], NoModel)
     ELSE job' = [job EXCEPT ![p] = AtRest] /\ UNCHANGED <<registryFile, registry>>
  /\ UNCHANGED disk

\* A name that is not listed raises; only a command, which then ends, passes one.
SetActive(p, m) ==
  /\ BetweenCalls(p) /\ Registered(p, m)
  /\ Save(p, [k \in Model |-> IF k = m THEN "active"
                              ELSE IF Registered(p, k) THEN "idle" ELSE "none"], NoModel)
  /\ UNCHANGED disk

\* delete_model saves first; nothing calls it but its tests.
DeleteModel(p, m) ==
  /\ BetweenCalls(p) /\ registry[p][m] # "active"
  /\ Save(p, [registry[p] EXCEPT ![m] = "none"], m) /\ UNCHANGED disk

RemoveModelFile(p) ==
  /\ job[p].at = "removing"
  /\ disk' = disk \ {job[p].delete} /\ job' = [job EXCEPT ![p] = AtRest]
  /\ UNCHANGED <<registryFile, registry>>

ExitProcess(p) ==
  /\ job[p].at # "down"
  /\ job' = [job EXCEPT ![p] = Down] /\ registry' = [registry EXCEPT ![p] = NoEntries]
  /\ UNCHANGED <<disk, registryFile>>

\* external: somebody removes a registry that nothing can read
DropTornRegistry ==
  /\ registryFile = TornFile /\ \A p \in Process : job[p].at # "saving"
  /\ registryFile' = NoFile /\ UNCHANGED <<disk, registry, job>>

-------------------------------------------------------------------------------
RegistryInit ==
  /\ disk = {} /\ registryFile = NoFile
  /\ registry = [p \in Process |-> NoEntries] /\ job = [p \in Process |-> Down]

\* what a process does with the registry once its call has begun
Continue(p) == EndSave(p) \/ RemoveModelFile(p) \/ \E m \in Model : Register(p, m)

RegistryCall(p) ==
  \/ OpenRegistry(p) \/ ExitProcess(p) \/ Continue(p)
  \/ \E m \in Model : Fetch(p, m) \/ SetActive(p, m) \/ DeleteModel(p, m)
===============================================================================
