----------------------------- MODULE BhyveConfig -----------------------------
(***************************************************************************)
(* The configuration of the virtual machines: what vmstated makes of the   *)
(* UCL files in its configuration directory (libprocwatch/bhyve_config.c,  *)
(* bhyve_config_console.c, bhyve_uclparser.c, bhyve_uclparser_funcs.c).    *)
(*                                                                         *)
(* A UCL value is a record with one field that names its type: "string",   *)
(* "int" or "boolean", or, for the list of consoles, "list".  An object is *)
(* a function from keys to values; a file is the sequence of its blocks,   *)
(* [key, value], and a list is one too.  Elements of a UCL array have no   *)
(* key.  malloc and strdup succeed.                                         *)
(***************************************************************************)
EXTENDS Integers, Sequences, SequencesExt, TLC

CONSTANT NULL

ucl_object_tostring(v)  == IF "string" \in DOMAIN v THEN v.string ELSE NULL
ucl_object_toint(v)     == IF "int" \in DOMAIN v THEN v.int ELSE 0
ucl_object_toboolean(v) == IF "boolean" \in DOMAIN v THEN v.boolean ELSE FALSE
ucl_list(v)             == IF "list" \in DOMAIN v THEN v.list ELSE <<>>

(***************************************************************************)
(* The fields of struct bhyve_configuration that a key of the same name    *)
(* sets, with the type they are mapped to.  cores is a uint16_t, but       *)
(* mapped as a string.                                                     *)
(***************************************************************************)
bc_nvlist2config ==
    [name |-> "FIXEDSTRING", configfile |-> "FIXEDSTRING", scriptpath |-> "FIXEDSTRING",
     os |-> "DYNAMICSTRING", osversion |-> "DYNAMICSTRING", owner |-> "DYNAMICSTRING",
     group |-> "DYNAMICSTRING", description |-> "DYNAMICSTRING", bootrom |-> "DYNAMICSTRING",
     cores |-> "DYNAMICSTRING", hostbridge |-> "DYNAMICSTRING", maxrestart |-> "UINT32",
     memory |-> "UINT32", maxrestarttime |-> "UINT64", numcpus |-> "UINT16", sockets |-> "UINT16",
     autostart |-> "BOOLEAN", generate_acpi_tables |-> "BOOLEAN", wire_memory |-> "BOOLEAN",
     vmexit_on_halt |-> "BOOLEAN"]

bc_console2config == [name |-> "DYNAMICSTRING", enabled |-> "BOOLEAN", backend |-> "DYNAMICSTRING"]

\* What bzero leaves in a field.
Zero(type) ==
    CASE type = "FIXEDSTRING"   -> ""
      [] type = "DYNAMICSTRING" -> NULL
      [] type = "BOOLEAN"       -> FALSE
      [] OTHER                  -> 0

\* An integer kept in so many bits; where it is kept as it is, TLC need not know 2^32.
Unsigned(n, bits) == IF bits > 31 /\ 0 <= n /\ n <= 2147483647 THEN n ELSE n % 2^bits

\* Mutant: a number is kept as it is.
FaultyConverted(type, v) ==
    CASE type \in {"FIXEDSTRING", "DYNAMICSTRING"}      -> ucl_object_tostring(v)
      [] type \in {"UINT16", "UINT32", "UINT64"}        -> ucl_object_toint(v)
      [] type = "BOOLEAN"                               -> ucl_object_toboolean(v)

Converted(type, v) ==
    CASE type \in {"FIXEDSTRING", "DYNAMICSTRING"} -> ucl_object_tostring(v)
      [] type = "UINT16"                           -> Unsigned(ucl_object_toint(v), 16)
      [] type = "UINT32"                           -> Unsigned(ucl_object_toint(v), 32)
      [] type = "UINT64"                           -> Unsigned(ucl_object_toint(v), 64)
      [] type = "BOOLEAN"                          -> ucl_object_toboolean(v)

\* Keys without a mapping are left to the subparsers, or ignored.
bup_generic_parsefromucl(mapping, struct, obj) ==
    [f \in DOMAIN struct |-> IF f \in DOMAIN mapping \cap DOMAIN obj
                             THEN Converted(mapping[f], obj[f])
                             ELSE struct[f]]

\* strncpy from the NULL that a value of another type has for a string.
Crashes(block) ==
    \/ block.key = NULL
    \/ \E k \in DOMAIN bc_nvlist2config \cap DOMAIN block.value :
          /\ bc_nvlist2config[k] = "FIXEDSTRING"
          /\ ucl_object_tostring(block.value[k]) = NULL

----------------------------------------------------------------------------
(***************************************************************************)
(* Consoles.  An element without a key is refused, and then there is no    *)
(* list; a list that is NULL and an empty one are alike to every reader.   *)
(***************************************************************************)
bcc_new(name, enabled) == [name |-> name, enabled |-> enabled, backend |-> NULL]

buf_parse_console(item) ==
    bup_generic_parsefromucl(bc_console2config, bcc_new(item.key, TRUE), item.value)

\* bccl_add inserts each at the head of the list.
buf_parse_console_list(items) ==
    IF \E i \in DOMAIN items : items[i].key = NULL
    THEN <<>>
    ELSE Reverse([i \in DOMAIN items |-> buf_parse_console(items[i])])

\* The list starts at index 0; no more than five can be asked for.
bccl_get_consolebyidx(consoles, idx) ==
    IF idx <= 4 /\ idx < Len(consoles) THEN consoles[idx + 1] ELSE NULL

----------------------------------------------------------------------------
(***************************************************************************)
(* One block of a file.  The string of cores is put on the heap, and what  *)
(* is read back as the number of cores is the low half word of its address.*)
(***************************************************************************)
bc_parsefromucl(bc, obj, address) ==
    LET parsed == bup_generic_parsefromucl(bc_nvlist2config, bc, obj)
    IN  [parsed EXCEPT !.cores    = IF @ = NULL THEN 0 ELSE address % 2^16,
                       !.consoles = IF "consoles" \in DOMAIN obj
                                    THEN buf_parse_console_list(ucl_list(obj["consoles"]))
                                    ELSE @]

NewConfig(key, backing_filepath) ==
    [f \in DOMAIN bc_nvlist2config \cup {"consoles", "backing_filepath"} |->
        CASE f = "name"             -> key
          [] f = "consoles"         -> <<>>
          [] f = "backing_filepath" -> backing_filepath
          [] OTHER                  -> Zero(bc_nvlist2config[f])]

ParsedBlock(block, backing_filepath, address) ==
    bc_parsefromucl(NewConfig(block.key, backing_filepath), block.value, address)

\* Mutant: inserts at the tail.
FaultyParseucl(configs, file, backing_filepath, addresses) ==
    configs \o [i \in DOMAIN file |-> ParsedBlock(file[i], backing_filepath, addresses[i])]

\* The blocks of a file, each inserted at the head of the store's list.
bcs_parseucl(configs, file, backing_filepath, addresses) ==
    Reverse([i \in DOMAIN file |-> ParsedBlock(file[i], backing_filepath, addresses[i])]) \o configs
=============================================================================
