---------------------------- MODULE Configuration ----------------------------
(***************************************************************************)
(* From the configuration directory to the bhyve that runs: vmstated reads *)
(* the directory (bcs_walkdir), makes a machine of every configuration     *)
(* (bd_new), and at each start generates bhyve's configuration file, links *)
(* the consoles and launches bhyve, which reads the file some time later.  *)
(* Several threads start machines; the kqueue thread sees them end.        *)
(*                                                                         *)
(* A directory is the sequence of its entries [d_name, hidden, directory,  *)
(* config], config being NULL when there is none or it does not parse.     *)
(* What the state machine and the limiter of a VM do in between is the     *)
(* part of ProcessState and Director: here a start succeeds or not, and an *)
(* exit stops the VM or fails it.                                          *)
(***************************************************************************)
EXTENDS BhyveParameters, VmInfo

CONSTANTS
    Directories,   \* the configuration directories to try
    Bases,         \* the files configfile can name: [lines, size]
    Addresses,     \* where malloc may put a string
    NullModems,    \* the pairs of ends <<A, B>> of null modem devices
    Starters,      \* the threads that start machines
    Unnoticed,     \* the sets of texts whose writes may fail without notice
    Stops,         \* the numbers of texts after which the generator may fail
    Unlinkable     \* the consoles at which making or removing links may fail

\* bcs_parseconfdir looks for "config" in each subdirectory.
Readable(e) == ~e.hidden /\ e.directory /\ e.config # NULL

IsSeq(s) == s \in Seq(ToSet(s))

\* What libucl makes of a file; DIR entries and null modems come in order and in pairs.
IsObject(obj) ==
    \A key \in DOMAIN obj :
        /\ "int" \in DOMAIN obj[key] => obj[key].int \in Int
        /\ "boolean" \in DOMAIN obj[key] => obj[key].boolean \in BOOLEAN
        /\ "list" \in DOMAIN obj[key] => IsSeq(obj[key].list)
        /\ \A type \in DOMAIN obj[key] : obj[key][type] # NULL

ASSUME DirectoriesAssumption ==
    \A d \in Directories : IsSeq(d) /\ \A i \in DOMAIN d :
        Readable(d[i]) => /\ IsSeq(d[i].config)
                          /\ \A k \in DOMAIN d[i].config : IsObject(d[i].config[k].value)
ASSUME BasesAssumption == \A file \in DOMAIN Bases : IsSeq(Bases[file].lines)
ASSUME AddressesAssumption == Addresses \subseteq Nat
ASSUME NullModemsAssumption == \A pair \in NullModems : pair = <<pair[1], pair[2]>>

VARIABLES
    dir,       \* the directory, in the order of readdir
    entry,     \* bcs_walkdir: the entry it is at
    found,     \* bcs_walkdir: found_one
    configs,   \* the store's list
    pc,        \* the main thread: "walk", "list", "serving", "exited" or "crashed"
    current,   \* bd_new: the position of its iterator, 0 for NULL
    vms,       \* the director's statelist
    files,     \* the generated files, [lines, lost], by the configfile they are named after
    links,     \* the symbolic links to consoles, [path, target]
    broken,    \* the consoles <<vm, number>> at which linking failed at the VM's last start
    job,       \* what each starter is doing, and for which VM
    ending     \* the VM whose end the kqueue thread handles, or 0

loading == <<dir, entry, found, configs, current>>
vars    == <<loading, pc, vms, files, links, broken, job, ending>>

(***************************************************************************)
(* alone, lost and broken are no part of the program: they remember that   *)
(* the last start of a VM found it at rest and no other began since, that  *)
(* a file misses a text, and that a console was not linked.                *)
(***************************************************************************)
bwv_new(bc) == [config |-> bc, vmstate |-> "INIT", process |-> "none", boot |-> NULL,
                alone |-> FALSE]
Idle == [at |-> "rest", vm |-> 0]
Truncated == [lines |-> <<>>, lost |-> FALSE]

Init ==
    /\ dir \in Directories
    /\ entry = 1 /\ found = FALSE /\ configs = <<>> /\ current = 0
    /\ pc = "walk" /\ vms = <<>>
    /\ files = [c \in DOMAIN Bases |-> Truncated]
    /\ links = {} /\ broken = {} /\ ending = 0
    /\ job = [t \in Starters |-> Idle]

Crash == pc' = "crashed" /\ UNCHANGED <<loading, vms, files, links, broken, job, ending>>

----------------------------------------------------------------------------
\* bcs_walkdir, entry by entry.
bcs_walkdir ==
    /\ pc = "walk" /\ entry <= Len(dir)
    /\ LET e == dir[entry]
       IN  \/ /\ ~Readable(e)
              /\ entry' = entry + 1
              /\ UNCHANGED <<dir, found, configs, current, pc, vms, files, links, broken, job, ending>>
           \/ /\ Readable(e) /\ \E i \in DOMAIN e.config : Crashes(e.config[i])
              /\ Crash
           \/ /\ Readable(e) /\ \A i \in DOMAIN e.config : ~Crashes(e.config[i])
              /\ \E address \in [DOMAIN e.config -> Addresses] :
                    configs' = bcs_parseucl(configs, e.config, e.d_name, address)
              /\ found' = TRUE
              /\ entry' = entry + 1
              /\ UNCHANGED <<dir, current, pc, vms, files, links, broken, job, ending>>

EndOfDir ==
    /\ pc = "walk" /\ entry > Len(dir)
    /\ pc' = IF found THEN "list" ELSE "exited"
    /\ UNCHANGED <<loading, vms, files, links, broken, job, ending>>

bci_next == IF current < Len(configs) THEN current + 1 ELSE 0

\* bd_new: every configuration of the iterator, inserted at the head of the statelist.
bd_new ==
    /\ pc = "list"
    /\ current' = bci_next
    /\ IF bci_next # 0
       THEN vms' = <<bwv_new(configs[bci_next])>> \o vms /\ UNCHANGED pc
       ELSE pc' = "serving" /\ UNCHANGED vms
    /\ UNCHANGED <<dir, entry, found, configs, files, links, broken, job, ending>>

----------------------------------------------------------------------------
(***************************************************************************)
(* bd_startvm.  The VM's state is looked at only by psv_startvm, after the *)
(* file has been generated and the consoles have been linked.              *)
(***************************************************************************)
bd_getvmbyname(name) == SelectInSeq(vms, LAMBDA vm : vm.config.name = name)

AtRest(i) == /\ vms[i].vmstate \in {"INIT", "STOPPED"} /\ vms[i].process = "none" /\ ending # i
             /\ \A t \in Starters : job[t].vm # i

Goto(t, step) == job' = [job EXCEPT ![t].at = step]
Gives(t)      == job' = [job EXCEPT ![t] = Idle]

Begin(t, name) ==
    /\ pc = "serving" /\ job[t] = Idle
    /\ LET i == bd_getvmbyname(name)
       IN  /\ i # 0 /\ vms[i].vmstate # "FAILED"
           /\ job' = [job EXCEPT ![t] = [at |-> "open", vm |-> i]]
           /\ vms' = [vms EXCEPT ![i].alone = AtRest(i)]
    /\ UNCHANGED <<loading, pc, files, links, broken, ending>>

Fails(t) ==
    /\ Gives(t)
    /\ vms' = [vms EXCEPT ![job[t].vm].vmstate = "FAILED"]
    /\ UNCHANGED <<loading, pc, files, links, broken, ending>>

(***************************************************************************)
(* vmstated_generate_config_file up to the open that truncates the file.   *)
(* fm_new frees its record twice when the base file cannot be opened or    *)
(* mapped, and there is no end to the text when it fills its last page.    *)
(* Opening either file may fail.                                           *)
(***************************************************************************)
NamelessComport(bc) ==
    \E port \in 0..3 : LET bcc == bccl_get_consolebyidx(bc.consoles, port)
                       IN  bcc # NULL /\ bcc.name = NULL

Size(bc) == IF bc.configfile \in DOMAIN Bases THEN Bases[bc.configfile].size ELSE "missing"

Open(t) ==
    /\ pc = "serving" /\ job[t].at = "open"
    /\ LET bc == vms[job[t].vm].config
       IN  \/ NamelessComport(bc) /\ Crash
           \/ ~NamelessComport(bc) /\ Size(bc) # "ok" /\ Crash
           \/ ~NamelessComport(bc) /\ Fails(t)
           \/ /\ ~NamelessComport(bc) /\ Size(bc) \in {"ok", "pages"}
              /\ files' = [files EXCEPT ![bc.configfile] = Truncated]
              /\ Goto(t, "write")
              /\ UNCHANGED <<loading, pc, vms, links, broken, ending>>

(***************************************************************************)
(* obc_combine_with fails with fchmod, with a text that is cut short (of   *)
(* which nothing is kept here) or with the newline after a text.  It does  *)
(* not fail with the texts in lost.                                        *)
(***************************************************************************)
obc_combine_with(t) ==
    /\ pc = "serving" /\ job[t].at = "write"
    /\ LET bc    == vms[job[t].vm].config
           texts == Texts(Bases[bc.configfile].lines, obc_new(ptc_translate(bc)))
           Write(n, lost) ==
               files' = [files EXCEPT ![bc.configfile] =
                            [lines |-> Written(texts, n, lost), lost |-> lost \cap 1..n # {}]]
       IN  \E lost \in Unnoticed \cup {{}} :
              \/ Write(Len(texts), lost) /\ Goto(t, "link") /\ UNCHANGED vms
              \/ /\ \E n \in Stops \cap 0..Len(texts) : Write(n, lost)
                 /\ Gives(t)
                 /\ vms' = [vms EXCEPT ![job[t].vm].vmstate = "FAILED"]
    /\ UNCHANGED <<loading, pc, links, broken, ending>>

(***************************************************************************)
(* bwv_linkconsoles: the other end of each console's null modem, under the *)
(* console's name next to the file it was configured in.  It can see five  *)
(* consoles.  The first symlink that fails ends the loop, whether or not   *)
(* the old link was removed before: it always fails for an empty backend,  *)
(* and may for any other.  The start goes on.  A console without a backend *)
(* at all has no name to copy.  The last letter of a backend decides:      *)
(* NullModems has the names that end in A and B.                           *)
(***************************************************************************)
\* Mutant: only the A end has another end.
FaultyPeer(backend) ==
    IF \E pair \in NullModems : pair[1] = backend
    THEN (CHOOSE pair \in NullModems : pair[1] = backend)[2]
    ELSE backend

Peer(backend) ==
    CASE \E pair \in NullModems : pair[1] = backend ->
            (CHOOSE pair \in NullModems : pair[1] = backend)[2]
      [] \E pair \in NullModems : pair[2] = backend ->
            (CHOOSE pair \in NullModems : pair[2] = backend)[1]
      [] OTHER -> backend

Seen(bc)       == SubSeq(bc.consoles, 1, Min({5, Len(bc.consoles)}))
Path(bc, bcc)  == <<bc.backing_filepath, bcc.name>>

\* The first console the loop cannot get past, or one more than there are.
LinkEnds(bc) ==
    CHOOSE n \in 1..(Len(Seen(bc)) + 1) :
        /\ \A i \in 1..(n - 1) : Seen(bc)[i].backend \notin {NULL, ""} /\ Seen(bc)[i].name # NULL
        /\ n <= Len(Seen(bc)) => Seen(bc)[n].backend \in {NULL, ""} \/ Seen(bc)[n].name = NULL

bwv_linkconsoles(t) ==
    /\ pc = "serving" /\ job[t].at = "link"
    /\ LET vm   == job[t].vm
           bc   == vms[vm].config
           last == LinkEnds(bc)
           path(i) == Path(bc, Seen(bc)[i])
       IN  \/ /\ last <= Len(Seen(bc)) /\ (Seen(bc)[last].backend = NULL \/ Seen(bc)[last].name = NULL)
              /\ Crash
           \/ \E n \in (Unlinkable \cap 1..last) \cup {last} :
              \E to \in {n - 1, n} \cap 0..Len(Seen(bc)) :
                /\ n <= Len(Seen(bc)) => Seen(bc)[n].backend # NULL /\ Seen(bc)[n].name # NULL
                /\ links' = {l \in links : \A i \in 1..to : l.path # path(i)}
                            \cup {[path |-> path(i), target |-> Peer(Seen(bc)[i].backend)] :
                                     i \in {k \in 1..(n - 1) : \A j \in (k + 1)..to : path(j) # path(k)}}
                /\ broken' = {c \in broken : c[1] # vm} \cup {<<vm, i>> : i \in {n} \ {last}}
                /\ Goto(t, "launch")
                /\ UNCHANGED <<loading, pc, vms, files, ending>>

\* psv_startvm.
Launch(t) ==
    /\ pc = "serving" /\ job[t].at = "launch"
    /\ LET i == job[t].vm
       IN  vms' \in IF vms[i].vmstate \in {"INIT", "STOPPED"} /\ vms[i].process = "none"
                    THEN {[vms EXCEPT ![i].vmstate = "RUNNING", ![i].process = "exec"],
                          [vms EXCEPT ![i].vmstate = "FAILED"]}
                    ELSE {vms}
    /\ Gives(t)
    /\ UNCHANGED <<loading, pc, files, links, broken, ending>>

----------------------------------------------------------------------------
\* bhyve reads its configuration file.
Boots(i) ==
    /\ pc = "serving" /\ vms[i].process = "exec"
    /\ vms' = [vms EXCEPT ![i].process = "up", ![i].boot = files[vms[i].config.configfile]]
    /\ UNCHANGED <<loading, pc, files, links, broken, job, ending>>

\* bhyve ends, and the kqueue thread removes the links up to the first that is not there
\* or that cannot be removed.
UnlinkEnds(bc) ==
    CHOOSE n \in 1..(Len(Seen(bc)) + 1) :
        /\ \A i \in 1..(n - 1) : \E l \in links : l.path = Path(bc, Seen(bc)[i])
        /\ n <= Len(Seen(bc)) => \A l \in links : l.path # Path(bc, Seen(bc)[n])

Ends(i) ==
    /\ pc = "serving" /\ ending = 0 /\ vms[i].process # "none"
    /\ LET bc == vms[i].config
       IN  \E n \in (Unlinkable \cap 1..UnlinkEnds(bc)) \cup {UnlinkEnds(bc)} :
              links' = {l \in links : \A k \in 1..(n - 1) : l.path # Path(bc, Seen(bc)[k])}
    /\ vms' = [vms EXCEPT ![i].process = "none", ![i].boot = NULL]
    /\ ending' = i
    /\ UNCHANGED <<loading, pc, files, broken, job>>

\* psv_onexit.
OnExit ==
    /\ pc = "serving" /\ ending # 0
    /\ \E state \in {"STOPPED", "FAILED"} : vms' = [vms EXCEPT ![ending].vmstate = state]
    /\ ending' = 0
    /\ UNCHANGED <<loading, pc, files, links, broken, job>>

\* bd_resetfailvm, of a VM whose bhyve has ended.
ResetFail(i) ==
    /\ pc = "serving" /\ vms[i].vmstate = "FAILED" /\ vms[i].process = "none" /\ ending # i
    /\ vms' = [vms EXCEPT ![i].vmstate = "INIT"]
    /\ UNCHANGED <<loading, pc, files, links, broken, job, ending>>

\* The status command; the pids and times of start are told apart by the VM they are of.
bd_getinfo ==
    [i \in DOMAIN vms |->
        bvmi_new(vms[i].config, vmstate[vms[i].vmstate],
                 IF vms[i].process = "none" THEN 0 ELSE 100 + i, <<i, 1>>)]
bd_reply_info == bvmmi_encodenvlist(bd_getinfo)

StartStep(t) == \/ \E i \in DOMAIN vms : Begin(t, vms[i].config.name)
                \/ Open(t) \/ obc_combine_with(t) \/ bwv_linkconsoles(t) \/ Launch(t)

Next ==
    \/ bcs_walkdir \/ EndOfDir \/ bd_new \/ OnExit
    \/ \E t \in Starters : StartStep(t)
    \/ \E i \in DOMAIN vms : Boots(i) \/ Ends(i) \/ ResetFail(i)

Spec == Init /\ [][Next]_vars
=============================================================================
