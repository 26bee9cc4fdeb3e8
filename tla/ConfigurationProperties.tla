----------------------- MODULE ConfigurationProperties -----------------------
(***************************************************************************)
(* What the administrator writes is what bhyve gets, and what vmstatedctl  *)
(* shows is what the director knows.                                       *)
(***************************************************************************)
EXTENDS Configuration

CONSTANT ExtraSlots    \* PCI slots to try the rules with

\* The blocks that were read, in the order of reading, each with the directory it was in.
Blocks == FlattenSeq([e \in 1..(entry - 1) |->
              IF Readable(dir[e])
              THEN [b \in DOMAIN dir[e].config |->
                        [block |-> dir[e].config[b], d_name |-> dir[e].d_name]]
              ELSE <<>>])

\* What a key of a block says: NULL without the key, or with a value of another type.
Says(i, key, type) == LET obj == Blocks[i].block.value
                      IN  IF key \in DOMAIN obj /\ type \in DOMAIN obj[key] THEN obj[key][type] ELSE NULL
NameSaid(i) == IF Says(i, "name", "string") = NULL THEN Blocks[i].block.key ELSE Says(i, "name", "string")

Base(i)     == Bases[vms[i].config.configfile].lines
Unshared(i) == \A j \in DOMAIN vms : vms[j].config.configfile = vms[i].config.configfile => j = i

----------------------------------------------------------------------------
\* The types of what is kept: numbers fit their width, machines and jobs have their parts.
TypeOK ==
    /\ pc \in {"walk", "list", "serving", "exited", "crashed"}
    /\ \A i \in DOMAIN configs :
          /\ {configs[i].numcpus, configs[i].sockets, configs[i].cores} \subseteq 0..(2^16 - 1)
          /\ {configs[i].autostart, configs[i].wire_memory} \subseteq BOOLEAN
    /\ \A i \in DOMAIN vms : /\ vms[i].vmstate \in {"INIT", "RUNNING", "STOPPED", "FAILED"}
                             /\ vms[i].process \in {"none", "exec", "up"}
    /\ job \in [Starters -> [at : {"rest", "open", "write", "link", "launch"}, vm : 0..Len(vms)]]
    /\ \A t \in Starters : job[t] = Idle <=> job[t].vm = 0
    /\ ending \in 0..Len(vms)

(***************************************************************************)
(* Every block that was read is a machine, although two lists are built by *)
(* insertion at the head, and a name reaches the machine of the block that *)
(* was read first.                                                         *)
(***************************************************************************)
NamesResolve ==
    pc = "serving" =>
        /\ Len(vms) = Len(Blocks)
        /\ \A i \in DOMAIN vms : /\ vms[i].config.name = NameSaid(i)
                                 /\ vms[i].config.backing_filepath = Blocks[i].d_name
                                 /\ bd_getvmbyname(NameSaid(i)) =
                                       Min({j \in DOMAIN vms : NameSaid(j) = NameSaid(i)})

\* What a field has room for; TLC has no larger number.
Largest(key) == IF key = "memory" THEN 2147483647 ELSE 65535

\* The value that counts in the file the machine in place i booted from.  Where a text of
\* the file is lost it may be the base file's, or none.
Gets(i, line, value) ==
    \/ Effective(vms[i].boot.lines, line) = value
    \/ vms[i].boot.lost /\ Effective(vms[i].boot.lines, line) \in {Effective(Base(i), line), NULL}

Number(i, key, line) ==
    LET n == Says(i, key, "int")
    IN  \/ n # NULL /\ n \notin 0..Largest(key)
        \/ /\ key = "sockets" /\ Says(i, "cores", "string") # NULL
           /\ n \in {NULL, 0} \/ vms[i].boot.lost
        \/ Gets(i, line, IF n \in {NULL, 0} THEN Effective(Base(i), line) ELSE n)

Flag(i, key, line) == Gets(i, line, Says(i, key, "boolean") \notin {NULL, FALSE})

(***************************************************************************)
(* A bhyve that was started once, and shares its file with no other VM,    *)
(* runs with every setting its block makes and with its base file's        *)
(* setting for every other: no configuration of another VM, none that an   *)
(* error of which obc_combine_with takes notice left half written, none    *)
(* that the order of the generated lines undid.  Where a write of text     *)
(* returned -1, of which it takes none, settings may be missing, but none  *)
(* is another's.  What the code does not keep is left out: cores, a number *)
(* that does not fit its field, and the base file's bootrom and flags.     *)
(***************************************************************************)
BootsAsConfigured ==
    \A i \in DOMAIN vms : vms[i].boot # NULL /\ vms[i].alone /\ Unshared(i) =>
        /\ Gets(i, <<"name">>, NameSaid(i))
        /\ Number(i, "memory", <<"memory.size">>)
        /\ Number(i, "numcpus", <<"cpus">>)
        /\ Number(i, "sockets", <<"sockets">>)
        /\ Flag(i, "vmexit_on_halt", <<"x86.vmexit_on_hlt">>)
        /\ Flag(i, "generate_acpi_tables", <<"acpi_tables">>)
        /\ Says(i, "bootrom", "string") # NULL =>
              Gets(i, <<"lpc.bootrom">>, Says(i, "bootrom", "string"))
        /\ \A key \in {<<"lpc.com", 1>>, <<"pci.device", <<0, 0, 0>>>>, <<"pci.device", <<0, 1, 0>>>>} :
              \/ Gets(i, key, Effective(Base(i), key))
              \/ Says(i, IF key[1] = "lpc.com" \/ key[2] = <<0, 1, 0>> THEN "consoles" ELSE "hostbridge",
                      IF key[1] = "lpc.com" \/ key[2] = <<0, 1, 0>> THEN "list" ELSE "string") # NULL

(***************************************************************************)
(* The translation breaks a rule of check.c only where the administrator   *)
(* left out what the rule asks for: a name, a host bridge, a bootrom, or   *)
(* the consoles that bring the ISA bridge.  Two slots never collide.       *)
(***************************************************************************)
TranslationObeysRules ==
    pc = "list" => \A i \in DOMAIN configs :
        LET bc == configs[i]
        IN  check_parameters_ok(ptc_translate(bc)) =
              IF bc.name = ""                   THEN "non-empty vm name"
              ELSE IF bc.hostbridge = NULL      THEN "hostbridge existence"
              ELSE IF bc.bootrom \in {NULL, ""} THEN "bootrom specified"
              ELSE IF bc.consoles = <<>>        THEN "bootrom requires isa bridge"
              ELSE NULL

(***************************************************************************)
(* The rules accept a set of parameters exactly when bhyve can use it,     *)
(* also with one more slot anywhere, although each looks at the slots one  *)
(* by one and one of them only at the first host bridge.                   *)
(***************************************************************************)
Usable(bpc) ==
    LET slots == ToSet(bpc.pcislots)
        Of(type) == {s \in slots : s.slot_type = type}
    IN  /\ bpc.vmname # "" /\ bpc.bootrom # ""
        /\ \E s \in slots : s.slot_type = "HOSTBRIDGE" /\ s.at = <<0, 0, 0>>
        /\ \E s \in slots : s.slot_type = "ISABRIDGE" /\ s.at[1] = 0
        /\ \A i, j \in DOMAIN bpc.pcislots : i # j =>
              /\ bpc.pcislots[i].at # bpc.pcislots[j].at
              /\ bpc.pcislots[i].slot_type = bpc.pcislots[j].slot_type =>
                    bpc.pcislots[i].slot_type \notin {"HOSTBRIDGE", "ISABRIDGE"}

ChecksAreExact ==
    pc = "list" => \A i \in DOMAIN configs : \A slot \in ExtraSlots :
        LET bpc  == ptc_translate(configs[i])
            more == bpc_addpcislot_at(bpc, slot.at, [slot_type |-> slot.slot_type, device |-> NULL])
        IN  /\ check_parameters_ok(bpc) = NULL <=> Usable(bpc)
            /\ check_parameters_ok(more) = NULL <=> Usable(more)

\* The other end of the null modem, or the device itself if it is none.
OtherEnd(from, to) == \/ <<from, to>> \in NullModems \/ <<to, from>> \in NullModems
                      \/ from = to /\ \A pair \in NullModems : from \notin {pair[1], pair[2]}

ConsolePath(i, n) == Path(vms[i].config, Seen(vms[i].config)[n])

\* The consoles of the machine in place i can be reached, in the sense of ConsolesLinked.
Linked(i) ==
    LET seen == Seen(vms[i].config)
    IN  \A n \in DOMAIN seen :
          \/ \E m \in 1..n : seen[m].backend \in {NULL, ""} \/ <<i, m>> \in broken
          \/ \E j \in DOMAIN vms : \E m \in DOMAIN Seen(vms[j].config) :
                <<j, m>> # <<i, n>> /\ ConsolePath(j, m) = ConsolePath(i, n)
          \/ \E l \in links : l.path = ConsolePath(i, n) /\ OtherEnd(seen[n].backend, l.target)

(***************************************************************************)
(* While a bhyve runs that was started once, each of its consoles up to    *)
(* the first one without a backend, or for which symlink failed, can be    *)
(* reached by its name through the other end of its null modem, unless     *)
(* another console has the same name.                                      *)
(***************************************************************************)
ConsolesLinked ==
    \A i \in DOMAIN vms : vms[i].process # "none" /\ vms[i].alone => Linked(i)

(***************************************************************************)
(* What vmstatedctl decodes is what bd_getinfo put together, for every     *)
(* machine, although pid and state share a place in the mapping; and every *)
(* state has a short name of its own.  (It is asked while no start is      *)
(* under way: of the states in between ProcessState has more to say.)      *)
(***************************************************************************)
StatusExact ==
    /\ vms # <<>> /\ (\A t \in Starters : job[t] = Idle) =>
          bvmmi_decodenvlist(bd_reply_info) = bd_getinfo
    /\ pc = "list" => \A s \in DOMAIN vmstate : \A u \in DOMAIN vmstate \cup {"UNKW"} :
          s # u => bvmi_get_statestring(vmstate[s]) #
                     IF u = "UNKW" THEN u ELSE bvmi_get_statestring(vmstate[u])
=============================================================================
