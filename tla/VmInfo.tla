------------------------------- MODULE VmInfo -------------------------------
(***************************************************************************)
(* The status record on its way from the director to vmstatedctl:          *)
(* libcommand/vm_info.c and the encoder and decoder of                     *)
(* libcommand/bhyve_command.c.                                             *)
(*                                                                         *)
(* A struct bhyve_vm_info is a function from the cells of its memory: one  *)
(* cell holds a pointer to a string, or NULL, or 32 bits of a number.  An  *)
(* nvlist is a function from names to strings, to NULL or to numbers of 64 *)
(* bits, <<low, high>>.                                                    *)
(***************************************************************************)
EXTENDS BhyveConfig

\* vminfoitem2nvlist, in its order.  "pid" is mapped to the place of vmstate.
Item(varname, cell, type) == [varname |-> varname, cell |-> cell, value_type |-> type]
\* Mutant: 32 bits for the pid.
FaultyMapping ==
    <<Item("vmname", "vmname", "DYNAMICSTRING"), Item("os", "os", "DYNAMICSTRING"),
      Item("osversion", "osversion", "DYNAMICSTRING"), Item("vmstate", "vmstate", "UINT32"),
      Item("pid", "vmstate", "UINT32"), Item("lastboot", "lastboot", "UINT64"),
      Item("owner", "owner", "DYNAMICSTRING"), Item("group", "group", "DYNAMICSTRING"),
      Item("description", "description", "DYNAMICSTRING")>>

vminfoitem2nvlist ==
    <<Item("vmname", "vmname", "DYNAMICSTRING"), Item("os", "os", "DYNAMICSTRING"),
      Item("osversion", "osversion", "DYNAMICSTRING"), Item("vmstate", "vmstate", "UINT32"),
      Item("pid", "vmstate", "UINT64"), Item("lastboot", "lastboot", "UINT64"),
      Item("owner", "owner", "DYNAMICSTRING"), Item("group", "group", "DYNAMICSTRING"),
      Item("description", "description", "DYNAMICSTRING")>>

\* The cell behind the first one of a number of 64 bits.
NextCell == [vmstate |-> "pid", lastboot |-> "lastboot_high"]

bvmi_new(bc, vmstate, pid, lastboot) ==
    [vmname |-> bc.name, os |-> bc.os, osversion |-> bc.osversion, vmstate |-> vmstate,
     pid |-> pid, lastboot |-> lastboot[1], lastboot_high |-> lastboot[2],
     owner |-> bc.owner, group |-> bc.group, description |-> bc.description]

\* What bzero leaves.
ZeroInfo == bvmi_new([f \in {"name", "os", "osversion", "owner", "group", "description"} |-> NULL],
                     0, 0, <<0, 0>>)

Encoded(item, bvmi) ==
    CASE item.value_type = "DYNAMICSTRING" -> bvmi[item.cell]
      [] item.value_type = "UINT32"        -> <<bvmi[item.cell], 0>>
      [] item.value_type = "UINT64"        -> <<bvmi[item.cell], bvmi[NextCell[item.cell]]>>

bcmd_encodenvlist(mapping, bvmi) ==
    [name \in {mapping[i].varname : i \in DOMAIN mapping} |->
        Encoded(mapping[SelectInSeq(mapping, LAMBDA item : item.varname = name)], bvmi)]

Decoded(bvmi, item, nvl) ==
    LET v == nvl[item.varname]
    IN  CASE item.value_type = "DYNAMICSTRING" -> [bvmi EXCEPT ![item.cell] = v]
          [] item.value_type = "UINT32"        -> [bvmi EXCEPT ![item.cell] = v[1]]
          [] item.value_type = "UINT64"        -> [bvmi EXCEPT ![item.cell] = v[1],
                                                               ![NextCell[item.cell]] = v[2]]

\* One item after the other, into a zeroed struct.
bcmd_decodenvlist(mapping, nvl) ==
    LET after[i \in 0..Len(mapping)] == IF i = 0 THEN ZeroInfo
                                        ELSE Decoded(after[i - 1], mapping[i], nvl)
    IN  after[Len(mapping)]

----------------------------------------------------------------------------
(***************************************************************************)
(* nvlist_pack and nvlist_unpack: bytes that are more for every value that *)
(* is not NULL, and that only together, from the first one on, give the    *)
(* list back.                                                              *)
(***************************************************************************)
nvlist_pack(nvl) ==
    [i \in 1..(1 + Cardinality({name \in DOMAIN nvl : nvl[name] # NULL})) |->
        [list |-> nvl, byte |-> i]]

nvlist_unpack(bytes) ==
    IF bytes # <<>> /\ bytes = nvlist_pack(Head(bytes).list) THEN Head(bytes).list ELSE NULL

(***************************************************************************)
(* transmit_collect.c: the buffers one behind the other, and the length of *)
(* each.  It fails when there is nothing to collect.                       *)
(***************************************************************************)
stc_collect(items) ==
    [result |-> IF items = <<>> THEN -1 ELSE 0,
     buffer |-> FlattenSeq(items), buffer_lens |-> [i \in DOMAIN items |-> Len(items[i])]]

\* The packed lists of all machines; without a machine it fails, and there is no reply.
bvmmi_encodenvlist(infos) ==
    LET collected == stc_collect([i \in DOMAIN infos |->
                         nvlist_pack(bcmd_encodenvlist(vminfoitem2nvlist, infos[i]))])
    IN  IF collected.result # 0 THEN NULL
        ELSE [vm_count |-> Len(infos), lengths |-> collected.buffer_lens,
              vm_infos |-> collected.buffer]

Offset(lengths, i) ==
    LET before[k \in 1..(Len(lengths) + 1)] == IF k = 1 THEN 0 ELSE before[k - 1] + lengths[k - 1]
    IN  before[i]

bvmmi_decodenvlist(nvl) ==
    [i \in 1..nvl.vm_count |->
        bcmd_decodenvlist(vminfoitem2nvlist,
            nvlist_unpack(SubSeq(nvl.vm_infos, Offset(nvl.lengths, i) + 1,
                                 Offset(nvl.lengths, i + 1))))]

----------------------------------------------------------------------------
\* bhyve_vmstate_t.
vmstate ==
    [INIT |-> 0, START_NETWORK |-> 10, PRESTART_AFTER_RESTART |-> 11, START_STORAGE |-> 20,
     START_AFTER_RESTART |-> 21, RUNNING |-> 100, RESTARTED |-> 101, STOPPING |-> 102,
     STOP_STORAGE |-> 150, PRESTOP_BEFORE_RESTART |-> 160, STOP_NETWORK |-> 200,
     RESTARTING |-> 210, STOPPED |-> 300, RESTART_STOPPED |-> 310, FAILED |-> 400]

bvmi_get_statestring(state) ==
    CASE state = 0   -> "INIT" [] state = 10  -> "STNW" [] state = 11  -> "RPRE"
      [] state = 20  -> "SAST" [] state = 21  -> "RAST" [] state = 100 -> "RUNN"
      [] state = 101 -> "RRUN" [] state = 102 -> "STOP" [] state = 150 -> "SOST"
      [] state = 160 -> "PRER" [] state = 200 -> "SONW" [] state = 210 -> "REST"
      [] state = 300 -> "STPD" [] state = 310 -> "RSTP" [] state = 400 -> "FAIL"
      [] OTHER -> "UNKW"
=============================================================================
