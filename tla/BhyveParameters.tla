--------------------------- MODULE BhyveParameters ---------------------------
(***************************************************************************)
(* What bhyve gets: the translation of a configuration into the core       *)
(* parameters (libtranslate/param_translate_core.c, libconfig/             *)
(* config_core.c), the rules they have to obey (libconfig/check*.c) and    *)
(* the lines they become in bhyve's configuration file (libconfig/         *)
(* output_bhyve_core.c).                                                   *)
(*                                                                         *)
(* A line is [key, value], a key a tuple of its name and the numbers in    *)
(* it; other numbers stay numbers.  A PCI slot is                          *)
(* [slot_type, at, device], at being <<bus, pcislot, function>> and device *)
(* what obc_set_pcislots writes for it, NULL for the types it refuses.     *)
(***************************************************************************)
EXTENDS BhyveConfig

bpc_new(vmname) ==
    [vmname |-> vmname, memory |-> 0, numcpus |-> 0, sockets |-> 0, cores |-> 0,
     yield_on_hlt |-> FALSE, generate_acpi_tables |-> FALSE, wire_memory |-> FALSE,
     bootrom |-> "",
     comport |-> [port \in 0..3 |-> [portname |-> "", enabled |-> FALSE, backend |-> ""]],
     pcislots |-> <<>>]

bpc_addpcislot_at(bpc, at, slot) ==
    [bpc EXCEPT !.pcislots = <<[slot_type |-> slot.slot_type, at |-> at, device |-> slot.device]>> \o @]

bpp_new_isabridge == [slot_type |-> "ISABRIDGE", device |-> "lpc"]
bpp_new_hostbridge(name) ==
    [slot_type |-> "HOSTBRIDGE",
     device    |-> IF name \in {"amd", "AMD"} THEN "amd_hostbridge" ELSE "hostbridge"]

----------------------------------------------------------------------------
(***************************************************************************)
(* ptc_translate.  Settings that are 0 are as good as not set, but not the *)
(* three flags; names longer than BPC_NAME_MAX are left out.               *)
(***************************************************************************)
TransferCore(bc) ==
    [bpc_new(bc.name) EXCEPT
        !.bootrom              = IF bc.bootrom = NULL THEN @ ELSE bc.bootrom,
        !.yield_on_hlt         = bc.vmexit_on_halt,
        !.generate_acpi_tables = bc.generate_acpi_tables,
        !.wire_memory          = bc.wire_memory,
        !.memory               = bc.memory,
        !.numcpus              = bc.numcpus,
        !.sockets              = bc.sockets,
        !.cores                = bc.cores]

AddHostbridge(bpc, bc) ==
    IF bc.hostbridge = NULL THEN bpc
    ELSE bpc_addpcislot_at(bpc, <<0, 0, 0>>, bpp_new_hostbridge(bc.hostbridge))

Comport(bc, port) ==
    LET bcc == bccl_get_consolebyidx(bc.consoles, port)
    IN  IF bcc = NULL THEN bpc_new(bc.name).comport[port]
        ELSE [portname |-> bcc.name, enabled |-> TRUE,
              backend  |-> IF bcc.backend = NULL THEN "" ELSE bcc.backend]

\* Mutant: no ISA bridge for the com ports.
FaultyConsoles(bpc, bc) == [bpc EXCEPT !.comport = [port \in 0..3 |-> Comport(bc, port)]]

AddConsoles(bpc, bc) ==
    IF bc.consoles = <<>> THEN bpc
    ELSE bpc_addpcislot_at([bpc EXCEPT !.comport = [port \in 0..3 |-> Comport(bc, port)]],
                           <<0, 1, 0>>, bpp_new_isabridge)

ptc_translate(bc) == AddConsoles(AddHostbridge(TransferCore(bc), bc), bc)

----------------------------------------------------------------------------
(***************************************************************************)
(* The rules of check.c, in the order in which check_parameters_ok applies *)
(* them.  The daemon does not call it.                                     *)
(***************************************************************************)
Slots(bpc, type) == {i \in DOMAIN bpc.pcislots : bpc.pcislots[i].slot_type = type}
check_bpc_counthostbridge(bpc) == Cardinality(Slots(bpc, "HOSTBRIDGE"))
check_bpc_countisabridge(bpc)  == Cardinality(Slots(bpc, "ISABRIDGE"))
check_bpc_bootrom(bpc)         == bpc.bootrom = ""

\* Only the first host bridge is looked at.
check_bpc_hostbridgeslot(bpc) ==
    LET found == Slots(bpc, "HOSTBRIDGE")
    IN  found # {} /\ bpc.pcislots[Min(found)].at # <<0, 0, 0>>

check_bpc_comwithisa(bpc) ==
    /\ \E port \in 0..3 : bpc.comport[port].enabled
    /\ check_bpc_countisabridge(bpc) = 0

check_bpc_bootromwithisa(bpc) == ~check_bpc_bootrom(bpc) /\ check_bpc_countisabridge(bpc) = 0

check_bpc_isabridgebus(bpc) ==
    \E i \in DOMAIN bpc.pcislots :
        bpc.pcislots[i].slot_type = "ISABRIDGE" /\ bpc.pcislots[i].at[1] # 0

\* Mutant: the list of the slots before misses the first.
FaultyConflict(bpc) ==
    \E i \in DOMAIN bpc.pcislots :
        bpc.pcislots[i].at \in {bpc.pcislots[j].at : j \in 2..(i - 1)}

\* A slot whose identifiers are in the string list of the slots before it.
check_bpc_pciidconflict(bpc) ==
    \E i \in DOMAIN bpc.pcislots :
        bpc.pcislots[i].at \in {bpc.pcislots[j].at : j \in 1..(i - 1)}

bpchecks(bpc) ==
    <<[rule_name |-> "non-empty vm name",           broken |-> bpc.vmname = ""],
      [rule_name |-> "hostbridge existence",        broken |-> check_bpc_counthostbridge(bpc) = 0],
      [rule_name |-> "single hostbridge",           broken |-> check_bpc_counthostbridge(bpc) > 1],
      [rule_name |-> "hostbridge placement",        broken |-> check_bpc_hostbridgeslot(bpc)],
      [rule_name |-> "single isabridge",            broken |-> check_bpc_countisabridge(bpc) > 1],
      [rule_name |-> "com port with isa bridge",    broken |-> check_bpc_comwithisa(bpc)],
      [rule_name |-> "bootrom requires isa bridge", broken |-> check_bpc_bootromwithisa(bpc)],
      [rule_name |-> "bootrom specified",           broken |-> check_bpc_bootrom(bpc)],
      [rule_name |-> "isabridge bus zero",          broken |-> check_bpc_isabridgebus(bpc)],
      [rule_name |-> "pci id conflict",             broken |-> check_bpc_pciidconflict(bpc)]>>

ASSUME NullAssumption == \A r \in 1..10 : bpchecks(bpc_new(""))[r].rule_name # NULL

\* The first rule that is broken, or NULL.
check_parameters_ok(bpc) ==
    LET first == SelectInSeq(bpchecks(bpc), LAMBDA rule : rule.broken)
    IN  IF first = 0 THEN NULL ELSE bpchecks(bpc)[first].rule_name

----------------------------------------------------------------------------
(***************************************************************************)
(* The lines obc_new collects.  obc_add inserts each at the head of the    *)
(* list, so the last one added comes first in the file.                    *)
(***************************************************************************)
Line(key, value) == <<[key |-> key, value |-> value]>>
Unless0(key, value) == IF value = 0 THEN <<>> ELSE Line(key, value)

obc_set_consoles(bpc) ==
    FlattenSeq([i \in 1..4 |->
        IF bpc.comport[i - 1].enabled
        THEN Line(<<"lpc.com", i>>, bpc.comport[i - 1].backend) ELSE <<>>])

obc_set_pcislots(bpc) ==
    FlattenSeq([i \in DOMAIN bpc.pcislots |->
        Line(<<"pci.device", bpc.pcislots[i].at>>, bpc.pcislots[i].device)])

\* In the order of the calls.  The bootrom is written whether or not there is one.
obc_set_core(bpc) ==
       Line(<<"name">>, bpc.vmname)
    \o Unless0(<<"memory.size">>, bpc.memory)
    \o Unless0(<<"cpus">>, bpc.numcpus)
    \o Unless0(<<"sockets">>, bpc.sockets)
    \o Unless0(<<"sockets">>, bpc.cores)
    \o Line(<<"x86.vmexit_on_hlt">>, bpc.yield_on_hlt)
    \o Line(<<"acpi_tables">>, bpc.generate_acpi_tables)
    \o Line(<<"lpc.bootrom">>, bpc.bootrom)
    \o obc_set_consoles(bpc)
    \o obc_set_pcislots(bpc)

\* Mutant: inserts at the tail.
FaultyNew(bpc) == obc_set_core(bpc)

obc_new(bpc) == Reverse(obc_set_core(bpc))

(***************************************************************************)
(* obc_combine_with writes the existing file and then the lines, each with *)
(* a newline of its own.  The result of a write of text is compared as an  *)
(* unsigned number: one that is cut short ends it, but -1 is taken for     *)
(* success, and what is written next follows as if the text were there.    *)
(***************************************************************************)
Texts(base, lines) == <<base>> \o [i \in DOMAIN lines |-> <<lines[i]>>]

\* What is in the file after n of the texts, when the writes of those in lost returned -1.
Written(texts, n, lost) == FlattenSeq([i \in 1..n |-> IF i \in lost THEN <<>> ELSE texts[i]])

\* bhyve applies the lines of its file in order: the last one for a key counts.
Effective(file, key) ==
    LET i == SelectLastInSeq(file, LAMBDA line : line.key = key)
    IN  IF i = 0 THEN NULL ELSE file[i].value
=============================================================================
