------------------------ MODULE ConfigurationProofs ------------------------
(***************************************************************************)
(* From the directory to the machines and to the reply that shows them,    *)
(* for every directory, every address malloc may return, any null modems   *)
(* and any number of threads that start machines: the widths of numbers,   *)
(* the names, the consoles that can be reached, the rules of check.c, and  *)
(* the status record.                                                      *)
(***************************************************************************)
EXTENDS ConfigurationProperties, TLAPS, FiniteSetTheorems, SequenceTheorems,
        WellFoundedInduction

(***************************************************************************)
(* Sequences: concatenation, reversal, maps; the least element of a set.   *)
(***************************************************************************)

LEMMA SeqIs ==
    ASSUME NEW n \in Nat, NEW f, f = [i \in 1 .. n |-> f[i]]
    PROVE  IsSeq(f) /\ Len(f) = n /\ DOMAIN f = 1 .. n
<1>1. f \in [1 .. n -> ToSet(f)]
  BY DEF ToSet
<1>2. QED
  BY <1>1 DEF IsSeq

LEMMA IsSeqFacts ==
    ASSUME NEW s, IsSeq(s)
    PROVE  Len(s) \in Nat /\ DOMAIN s = 1 .. Len(s) /\ s = [i \in 1 .. Len(s) |-> s[i]]
BY DEF IsSeq

LEMMA ConcatIs ==
    ASSUME NEW s, NEW u, IsSeq(s), IsSeq(u)
    PROVE  /\ IsSeq(s \o u) /\ Len(s \o u) = Len(s) + Len(u) /\ DOMAIN (s \o u) = 1 .. Len(s) + Len(u)
           /\ \A i \in 1 .. Len(s) : (s \o u)[i] = s[i]
           /\ \A i \in 1 .. Len(u) : (s \o u)[Len(s) + i] = u[i]
<1> DEFINE A == ToSet(s) \cup ToSet(u)
<1>1. s \in Seq(A) /\ u \in Seq(A) /\ Len(s) \in Nat /\ Len(u) \in Nat
  <2>1. \A i \in 1 .. Len(s) : s[i] \in A
    BY DEF IsSeq, ToSet
  <2>2. \A i \in 1 .. Len(u) : u[i] \in A
    BY DEF IsSeq, ToSet
  <2>3. QED
    BY <2>1, <2>2 DEF IsSeq
<1> HIDE DEF A
<1> DEFINE c == s \o u
<1>2. /\ c \in Seq(A) /\ Len(c) = Len(s) + Len(u)
      /\ \A i \in 1 .. Len(s) : c[i] = s[i]
      /\ \A i \in 1 .. Len(s) + Len(u) : i > Len(s) => c[i] = u[i - Len(s)]
  BY <1>1
<1> HIDE DEF c
<1>3. \A i \in 1 .. Len(u) : c[Len(s) + i] = u[i]
  <2>1. SUFFICES ASSUME NEW i \in 1 .. Len(u) PROVE c[Len(s) + i] = u[i]
    OBVIOUS
  <2>2. Len(s) + i \in 1 .. Len(s) + Len(u) /\ Len(s) + i > Len(s) /\ (Len(s) + i) - Len(s) = i
    BY <1>1
  <2>3. QED
    BY <1>2, <2>2
<1>4. c = [i \in 1 .. Len(c) |-> c[i]] /\ Len(c) \in Nat
  BY <1>1, <1>2
<1>5. QED
  BY <1>2, <1>3, <1>4, SeqIs DEF c

LEMMA ReverseIs ==
    ASSUME NEW s, IsSeq(s)
    PROVE  /\ IsSeq(Reverse(s)) /\ Len(Reverse(s)) = Len(s) /\ DOMAIN Reverse(s) = 1 .. Len(s)
           /\ \A i \in 1 .. Len(s) : Reverse(s)[i] = s[(Len(s) - i) + 1] /\ (Len(s) - i) + 1 \in 1 .. Len(s)
<1>1. Len(s) \in Nat
  BY IsSeqFacts
<1>2. Reverse(s) = [i \in 1 .. Len(s) |-> s[(Len(s) - i) + 1]]
  BY DEF Reverse
<1> DEFINE r == Reverse(s)
<1>3. r = [i \in 1 .. Len(s) |-> r[i]] /\ \A i \in 1 .. Len(s) : r[i] = s[(Len(s) - i) + 1]
  BY <1>2
<1> HIDE DEF r
<1>4. IsSeq(r) /\ Len(r) = Len(s) /\ DOMAIN r = 1 .. Len(s)
  BY <1>1, <1>3, SeqIs
<1>5. \A i \in 1 .. Len(s) : (Len(s) - i) + 1 \in 1 .. Len(s)
  BY <1>1
<1>6. QED
  BY <1>3, <1>4, <1>5 DEF r

(* [i \in DOMAIN s |-> ...] *)
LEMMA MapIs ==
    ASSUME NEW s, IsSeq(s), NEW f, DOMAIN f = DOMAIN s, f = [i \in DOMAIN s |-> f[i]]
    PROVE  IsSeq(f) /\ Len(f) = Len(s) /\ DOMAIN f = 1 .. Len(s)
<1>1. DOMAIN s = 1 .. Len(s) /\ Len(s) \in Nat
  BY IsSeqFacts
<1>2. QED
  BY <1>1, SeqIs

LEMMA MinIs ==
    ASSUME NEW S \in SUBSET Nat, S # {}
    PROVE  Min(S) \in S /\ \A i \in S : Min(S) <= i
<1>1. \E m \in S : \A i \in S : m <= i
  <2> DEFINE R == OpToRel(<, Nat)
  <2>1. IsWellFoundedOn(R, Nat)
    BY NatLessThanWellFounded
  <2>2. \A x, y \in Nat : x < y => <<x, y>> \in R
    BY DEF OpToRel
  <2> HIDE DEF R
  <2>3. PICK m \in S : \A i \in S : ~ (<<i, m>> \in R)
    BY <2>1, WFMin
  <2>4. \A i \in S : m <= i
    <3>1. SUFFICES ASSUME NEW i \in S PROVE m <= i
      OBVIOUS
    <3>2. i \in Nat /\ m \in Nat /\ ~ (i < m)
      BY <2>2, <2>3
    <3>3. QED
      BY <3>2
  <2>5. QED
    BY <2>4
<1>2. QED
  BY <1>1 DEF Min

----------------------------------------------------------------------------
(***************************************************************************)
(* What the state always has: a store of sound configurations, machines    *)
(* with sound configurations, and no job or link before the daemon serves. *)
(* Then what changing one machine does to that.                            *)
(***************************************************************************)

VMStates == {"INIT", "RUNNING", "STOPPED", "FAILED"}
Processes == {"none", "exec", "up"}
Steps == {"rest", "open", "write", "link", "launch"}

Word == 0 .. 2 ^ 16 - 1

(* What the rest of the daemon relies on in a configuration. *)
Proper(bc) ==
    /\ bc.numcpus \in Word /\ bc.sockets \in Word /\ bc.cores \in Word
    /\ bc.autostart \in BOOLEAN /\ bc.wire_memory \in BOOLEAN
    /\ IsSeq(bc.consoles)

MachineOf(config, vmstate_, process, boot, alone) ==
    [config |-> config, vmstate |-> vmstate_, process |-> process, boot |-> boot, alone |-> alone]

Machine(m) ==
    /\ m = MachineOf(m.config, m.vmstate, m.process, m.boot, m.alone)
    /\ m.vmstate \in VMStates /\ m.process \in Processes /\ m.alone \in BOOLEAN
    /\ Proper(m.config)

Machines == IsSeq(vms) /\ \A i \in DOMAIN vms : Machine(vms[i])

Jobs == /\ job \in [Starters -> [at : Steps, vm : 0 .. Len(vms)]]
        /\ \A t \in Starters : job[t] = Idle <=> job[t].vm = 0

(* Before the daemon serves, nothing has been started. *)
Loads ==
    pc \in {"walk", "list"} =>
        /\ \A t \in Starters : job[t] = Idle
        /\ \A i \in DOMAIN vms : vms[i].process = "none" /\ ~ vms[i].alone

Reading ==
    /\ IsSeq(dir) /\ dir \in Directories /\ entry \in Nat \ {0} /\ entry <= Len(dir) + 1
    /\ IsSeq(configs) /\ current \in 0 .. Len(configs)
    /\ \A i \in DOMAIN configs : Proper(configs[i])

TypeInv ==
    /\ pc \in {"walk", "list", "serving", "exited", "crashed"}
    /\ Reading /\ Machines /\ Jobs /\ Loads
    /\ ending \in 0 .. Len(vms)

(* One machine changes, and keeps its configuration. *)
Changes(i, vmstate_, process, boot, alone) ==
    vms' = [vms EXCEPT ![i] = MachineOf(vms[i].config, vmstate_, process, boot, alone)]

LEMMA OneMachine ==
    ASSUME Machines, NEW i \in DOMAIN vms, NEW x \in VMStates, NEW p \in Processes, NEW b,
           NEW a \in BOOLEAN, Changes(i, x, p, b, a)
    PROVE  /\ Machines' /\ Len(vms') = Len(vms) /\ DOMAIN vms' = DOMAIN vms
           /\ vms'[i].vmstate = x /\ vms'[i].process = p /\ vms'[i].boot = b /\ vms'[i].alone = a
           /\ \A k \in DOMAIN vms : k # i => vms'[k] = vms[k]
           /\ \A k \in DOMAIN vms : vms'[k].config = vms[k].config
<1> DEFINE m == MachineOf(vms[i].config, x, p, b, a)
<1>1. /\ m.config = vms[i].config /\ m.vmstate = x /\ m.process = p /\ m.boot = b /\ m.alone = a
      /\ m = MachineOf(m.config, m.vmstate, m.process, m.boot, m.alone)
  BY DEF MachineOf
<1>2. vms' = [vms EXCEPT ![i] = m]
  BY DEF Changes
<1>3. Proper(vms[i].config)
  BY DEF Machines, Machine
<1> HIDE DEF m
<1>4. DOMAIN vms' = DOMAIN vms /\ vms' = [k \in DOMAIN vms |-> vms'[k]] /\ vms'[i] = m
      /\ \A k \in DOMAIN vms : k # i => vms'[k] = vms[k]
  BY <1>2
<1>5. IsSeq(vms') /\ Len(vms') = Len(vms)
  BY <1>4, MapIs DEF Machines
<1>6. Machine(m)
  BY <1>1, <1>3 DEF Machine
<1>7. \A k \in DOMAIN vms' : Machine(vms'[k])
  BY <1>4, <1>6 DEF Machines
<1>8. QED
  BY <1>1, <1>4, <1>5, <1>7 DEF Machines, IsSeq

LEMMA BothParts ==
    ASSUME NEW m, m = MachineOf(m.config, m.vmstate, m.process, m.boot, m.alone), NEW x, NEW y
    PROVE  /\ [m EXCEPT !.process = x, !.boot = y] = MachineOf(m.config, m.vmstate, x, y, m.alone)
           /\ [m EXCEPT !.vmstate = x, !.process = y] = MachineOf(m.config, x, y, m.boot, m.alone)
<1>0. PICK c, v, p, b, a : c = m.config /\ v = m.vmstate /\ p = m.process /\ b = m.boot /\ a = m.alone
  OBVIOUS
<1> USE <1>0
<1> DEFINE n == [m EXCEPT !.process = x]
           o == [m EXCEPT !.vmstate = x]
<1>1. /\ [m EXCEPT !.process = x, !.boot = y] = [n EXCEPT !.boot = y]
      /\ [m EXCEPT !.vmstate = x, !.process = y] = [o EXCEPT !.process = y]
  OBVIOUS
<1>2. n = MachineOf(c, v, x, b, a) /\ o = MachineOf(c, x, p, b, a)
  BY DEF MachineOf
<1> HIDE DEF n, o
<1>3. [n EXCEPT !.boot = y] = MachineOf(c, v, x, y, a)
  BY <1>2 DEF MachineOf
<1>4. [o EXCEPT !.process = y] = MachineOf(c, x, y, b, a)
  BY <1>2 DEF MachineOf
<1>5. QED
  BY <1>1, <1>3, <1>4

(* How the actions change it. *)
LEMMA AMachineChanges ==
    ASSUME Machines, NEW i \in DOMAIN vms
    PROVE  LET m == vms[i] IN
           /\ \A x : vms' = [vms EXCEPT ![i].alone = x]
                        => Changes(i, m.vmstate, m.process, m.boot, x)
           /\ \A x : vms' = [vms EXCEPT ![i].vmstate = x]
                        => Changes(i, x, m.process, m.boot, m.alone)
           /\ \A x, b : vms' = [vms EXCEPT ![i].process = x, ![i].boot = b]
                        => Changes(i, m.vmstate, x, b, m.alone)
           /\ vms' = [vms EXCEPT ![i].vmstate = "RUNNING", ![i].process = "exec"]
                        => Changes(i, "RUNNING", "exec", m.boot, m.alone)
<1> DEFINE m == vms[i]
<1>1. m = [config |-> m.config, vmstate |-> m.vmstate, process |-> m.process, boot |-> m.boot,
            alone |-> m.alone]
  BY DEF Machines, Machine, MachineOf
<1>6. m = MachineOf(m.config, m.vmstate, m.process, m.boot, m.alone)
  BY DEF Machines, Machine
<1>2. ASSUME NEW x, vms' = [vms EXCEPT ![i].alone = x]
      PROVE  Changes(i, m.vmstate, m.process, m.boot, x)
  <2>1. [m EXCEPT !.alone = x] = MachineOf(m.config, m.vmstate, m.process, m.boot, x)
    BY <1>1 DEF MachineOf
  <2>2. QED
    BY <2>1, <1>2 DEF Changes
<1>3. ASSUME NEW x, vms' = [vms EXCEPT ![i].vmstate = x]
      PROVE  Changes(i, x, m.process, m.boot, m.alone)
  <2>1. [m EXCEPT !.vmstate = x] = MachineOf(m.config, x, m.process, m.boot, m.alone)
    BY <1>1 DEF MachineOf
  <2>2. QED
    BY <2>1, <1>3 DEF Changes
<1>4. ASSUME NEW x, NEW b, vms' = [vms EXCEPT ![i].process = x, ![i].boot = b]
      PROVE  Changes(i, m.vmstate, x, b, m.alone)
  <2>1. [m EXCEPT !.process = x, !.boot = b] = MachineOf(m.config, m.vmstate, x, b, m.alone)
    BY <1>6, BothParts
  <2>2. vms' = [vms EXCEPT ![i] = [m EXCEPT !.process = x, !.boot = b]]
    BY <1>4
  <2>3. QED
    BY <2>1, <2>2 DEF Changes
<1>5. ASSUME vms' = [vms EXCEPT ![i].vmstate = "RUNNING", ![i].process = "exec"]
      PROVE  Changes(i, "RUNNING", "exec", m.boot, m.alone)
  <2>1. [m EXCEPT !.vmstate = "RUNNING", !.process = "exec"]
           = MachineOf(m.config, "RUNNING", "exec", m.boot, m.alone)
    BY <1>6, BothParts
  <2>2. vms' = [vms EXCEPT ![i] = [m EXCEPT !.vmstate = "RUNNING", !.process = "exec"]]
    BY <1>5
  <2>3. QED
    BY <2>1, <2>2 DEF Changes
<1>7. QED
  BY <1>2, <1>3, <1>4, <1>5

----------------------------------------------------------------------------
(***************************************************************************)
(* A block becomes a sound configuration: the conversions of               *)
(* bup_generic_parsefromucl keep every number in its field's width.        *)
(***************************************************************************)

LEMMA WordIs == \A n \in Int : n % 2 ^ 16 \in Word
<1>1. 2 ^ 16 \in Nat /\ 2 ^ 16 > 0
  OBVIOUS
<1>2. \A k \in Nat : k > 0 => \A n \in Int : n % k \in 0 .. k - 1
  OBVIOUS
<1>3. QED
  BY <1>1, <1>2 DEF Word

LEMMA MappingIs ==
    LET map == bc_nvlist2config IN
    /\ "numcpus" \in DOMAIN map /\ map["numcpus"] = "UINT16"
    /\ "sockets" \in DOMAIN map /\ map["sockets"] = "UINT16"
    /\ "cores" \in DOMAIN map /\ map["cores"] = "DYNAMICSTRING"
    /\ "autostart" \in DOMAIN map /\ map["autostart"] = "BOOLEAN"
    /\ "wire_memory" \in DOMAIN map /\ map["wire_memory"] = "BOOLEAN"
    /\ "name" \in DOMAIN map /\ map["name"] = "FIXEDSTRING"
    /\ "consoles" \notin DOMAIN map /\ "backing_filepath" \notin DOMAIN map
BY DEF bc_nvlist2config

LEMMA NewConfigIs ==
    \A key, path : LET bc == NewConfig(key, path) IN
           /\ DOMAIN bc = DOMAIN bc_nvlist2config \cup {"consoles", "backing_filepath"}
           /\ bc.name = key /\ bc.backing_filepath = path /\ bc.consoles = <<>>
           /\ bc.numcpus = 0 /\ bc.sockets = 0 /\ bc.cores = NULL
           /\ bc.autostart = FALSE /\ bc.wire_memory = FALSE
<1> TAKE key, path
<1> DEFINE bc == NewConfig(key, path)
<1> DEFINE map == bc_nvlist2config
<1>1. /\ Zero("UINT16") = 0 /\ Zero("DYNAMICSTRING") = NULL /\ Zero("BOOLEAN") = FALSE
  BY DEF Zero
<1> HIDE DEF map
<1>2. bc =
        [f \in DOMAIN map \cup {"consoles", "backing_filepath"} |->
            CASE f = "name" -> key [] f = "consoles" -> <<>> [] f = "backing_filepath" -> path
              [] OTHER -> Zero(map[f])]
  BY DEF NewConfig, map
<1>3. QED
  BY <1>1, <1>2, MappingIs DEF map

(* The parsed struct keeps its fields, and converts those that the mapping and the object have. *)
LEMMA GenericIs ==
    ASSUME NEW map, NEW struct, NEW obj
    PROVE  LET p == bup_generic_parsefromucl(map, struct, obj) IN
           /\ DOMAIN p = DOMAIN struct /\ p = [f \in DOMAIN struct |-> p[f]]
           /\ \A f \in DOMAIN struct :
                 /\ f \in DOMAIN map /\ f \in DOMAIN obj => p[f] = Converted(map[f], obj[f])
                 /\ f \notin DOMAIN map \/ f \notin DOMAIN obj => p[f] = struct[f]
BY DEF bup_generic_parsefromucl

LEMMA ConvertedIs ==
    ASSUME NEW obj, IsObject(obj), NEW f \in DOMAIN obj
    PROVE  /\ Converted("UINT16", obj[f]) \in Word
           /\ Converted("BOOLEAN", obj[f]) \in BOOLEAN
<1>1. ucl_object_toint(obj[f]) \in Int
  BY DEF IsObject, ucl_object_toint
<1>2. ucl_object_toboolean(obj[f]) \in BOOLEAN
  BY Zenon DEF IsObject, ucl_object_toboolean
<1>3. Converted("UINT16", obj[f]) = ucl_object_toint(obj[f]) % 2 ^ 16
  <2>1. Converted("UINT16", obj[f]) = Unsigned(ucl_object_toint(obj[f]), 16)
    BY DEF Converted
  <2>2. QED
    BY <1>1, <2>1, SMT DEF Unsigned
<1>4. Converted("BOOLEAN", obj[f]) = ucl_object_toboolean(obj[f])
  BY DEF Converted
<1>5. QED
  BY <1>1, <1>2, <1>3, <1>4, WordIs

LEMMA ConsolesAreASeq ==
    ASSUME NEW items, IsSeq(items)
    PROVE  IsSeq(buf_parse_console_list(items))
<1>1. IsSeq(<<>>)
  BY DEF IsSeq
<1> DEFINE m == [i \in DOMAIN items |-> buf_parse_console(items[i])]
<1>2. DOMAIN m = DOMAIN items /\ m = [i \in DOMAIN items |-> m[i]]
  OBVIOUS
<1>3. buf_parse_console_list(items) = <<>> \/ buf_parse_console_list(items) = Reverse(m)
  BY DEF buf_parse_console_list
<1> HIDE DEF m
<1>4. IsSeq(m)
  BY <1>2, MapIs
<1>5. QED
  BY <1>1, <1>3, <1>4, ReverseIs

LEMMA ParsedIsProper ==
    ASSUME NEW block, IsObject(block.value), NEW path, NEW address \in Nat
    PROVE  Proper(ParsedBlock(block, path, address))
<1> DEFINE new == NewConfig(block.key, path)
           obj == block.value
           p == bup_generic_parsefromucl(bc_nvlist2config, new, obj)
           cores == IF p.cores = NULL THEN 0 ELSE address % 2 ^ 16
           consoles == IF "consoles" \in DOMAIN obj THEN buf_parse_console_list(ucl_list(obj["consoles"]))
                       ELSE p.consoles
           bc == ParsedBlock(block, path, address)
<1>1. bc = [p EXCEPT !.cores = cores, !.consoles = consoles]
  BY DEF ParsedBlock, bc_parsefromucl
<1>2. address % 2 ^ 16 \in Word /\ 0 \in Word
  BY WordIs DEF Word
<1>3. IsSeq(<<>>)
  BY DEF IsSeq
<1>4. IsSeq(ucl_list(obj["consoles"])) \/ "consoles" \notin DOMAIN obj
  BY <1>3 DEF IsObject, ucl_list
<1> HIDE DEF bc
<1>5. /\ DOMAIN new = DOMAIN bc_nvlist2config \cup {"consoles", "backing_filepath"}
      /\ new.consoles = <<>>
      /\ new.numcpus = 0 /\ new.sockets = 0
      /\ new.autostart = FALSE /\ new.wire_memory = FALSE
  <2>1. new = NewConfig(block.key, path)
    OBVIOUS
  <2> HIDE DEF new
  <2>2. /\ DOMAIN new = DOMAIN bc_nvlist2config \cup {"consoles", "backing_filepath"}
        /\ new.consoles = <<>>
    BY <2>1, NewConfigIs
  <2>3. new.numcpus = 0 /\ new.sockets = 0
    BY <2>1, NewConfigIs
  <2>4. new.autostart = FALSE /\ new.wire_memory = FALSE
    BY <2>1, NewConfigIs, Zenon
  <2>5. QED
    BY <2>2, <2>3, <2>4
<1>13. IsObject(obj)
  OBVIOUS
<1> HIDE DEF new, obj
<1>6. /\ DOMAIN p = DOMAIN new /\ p = [f \in DOMAIN new |-> p[f]]
      /\ \A f \in DOMAIN new :
                 /\ f \in DOMAIN bc_nvlist2config /\ f \in DOMAIN obj
                      => p[f] = Converted(bc_nvlist2config[f], obj[f])
                 /\ f \notin DOMAIN bc_nvlist2config \/ f \notin DOMAIN obj => p[f] = new[f]
  BY GenericIs
<1> HIDE DEF p
<1>7. p["numcpus"] \in Word /\ p["sockets"] \in Word
  <2>1. \A f \in {"numcpus", "sockets"} :
           /\ f \in DOMAIN new
           /\ f \in DOMAIN obj => p[f] = Converted("UINT16", obj[f])
           /\ f \notin DOMAIN obj => p[f] = 0
    <3>1. SUFFICES ASSUME NEW f \in {"numcpus", "sockets"}
          PROVE  /\ f \in DOMAIN new
                 /\ f \in DOMAIN obj => p[f] = Converted("UINT16", obj[f])
                 /\ f \notin DOMAIN obj => p[f] = 0
      OBVIOUS
    <3>2. f \in DOMAIN bc_nvlist2config /\ bc_nvlist2config[f] = "UINT16" /\ new[f] = 0
      BY <1>5, MappingIs
    <3>3. f \in DOMAIN new
      BY <3>2, <1>5
    <3>4. QED
      BY <3>2, <3>3, <1>6
  <2>2. QED
    BY <2>1, <1>2, <1>13, ConvertedIs
<1>8. p["autostart"] \in BOOLEAN /\ p["wire_memory"] \in BOOLEAN
  <2>1. \A f \in {"autostart", "wire_memory"} :
           /\ f \in DOMAIN new
           /\ f \in DOMAIN obj => p[f] = Converted("BOOLEAN", obj[f])
           /\ f \notin DOMAIN obj => p[f] = FALSE
    <3>1. SUFFICES ASSUME NEW f \in {"autostart", "wire_memory"}
          PROVE  /\ f \in DOMAIN new
                 /\ f \in DOMAIN obj => p[f] = Converted("BOOLEAN", obj[f])
                 /\ f \notin DOMAIN obj => p[f] = FALSE
      OBVIOUS
    <3>2. f \in DOMAIN bc_nvlist2config /\ bc_nvlist2config[f] = "BOOLEAN" /\ new[f] = FALSE
      BY <1>5, MappingIs
    <3>3. f \in DOMAIN new
      BY <3>2, <1>5
    <3>4. QED
      BY <3>2, <3>3, <1>6
  <2>2. QED
    BY <2>1, <1>13, ConvertedIs
<1>9. p["consoles"] = <<>> /\ "consoles" \in DOMAIN p /\ "cores" \in DOMAIN p
  BY <1>5, <1>6, MappingIs
<1>10. cores \in Word /\ IsSeq(consoles)
  BY <1>2, <1>3, <1>4, <1>9, ConsolesAreASeq
<1> HIDE DEF cores, consoles
<1>11. /\ bc.cores = cores /\ bc.consoles = consoles
       /\ bc.numcpus = p.numcpus /\ bc.sockets = p.sockets
       /\ bc.autostart = p.autostart /\ bc.wire_memory = p.wire_memory
  BY <1>1, <1>9, <1>6, <1>5, MappingIs
<1>12. QED
  BY <1>7, <1>8, <1>10, <1>11 DEF Proper, bc

----------------------------------------------------------------------------
(***************************************************************************)
(* Reading the directory: bcs_parseucl, bcs_walkdir, bd_new.               *)
(***************************************************************************)

LEMMA EmptyIs == IsSeq(<<>>) /\ Len(<<>>) = 0 /\ DOMAIN <<>> = {}
BY DEF IsSeq

LEMMA OneIs ==
    ASSUME NEW x
    PROVE  IsSeq(<<x>>) /\ Len(<<x>>) = 1 /\ DOMAIN <<x>> = 1 .. 1 /\ <<x>>[1] = x
BY DEF IsSeq, ToSet

(* The blocks of a file are put before what the store has. *)
LEMMA ParseuclIs ==
    \A file, path, address : IsSeq(file) /\ IsSeq(configs) =>
        LET c == bcs_parseucl(configs, file, path, address)
            n == Len(file)
        IN  /\ IsSeq(c) /\ Len(c) = n + Len(configs) /\ DOMAIN c = 1 .. n + Len(configs)
            /\ n \in Nat /\ DOMAIN file = 1 .. n
            /\ \A i \in 1 .. n : /\ (n - i) + 1 \in 1 .. n
                                 /\ c[i] = ParsedBlock(file[(n - i) + 1], path, address[(n - i) + 1])
            /\ \A i \in DOMAIN configs : c[n + i] = configs[i]
<1> TAKE file, path, address
<1> HAVE IsSeq(file) /\ IsSeq(configs)
<1> DEFINE n == Len(file)
           c == bcs_parseucl(configs, file, path, address)
<1> DEFINE new == [i \in DOMAIN file |-> ParsedBlock(file[i], path, address[i])]
<1>1. c = Reverse(new) \o configs
  BY DEF bcs_parseucl
<1>2. DOMAIN new = DOMAIN file /\ new = [i \in DOMAIN file |-> new[i]]
      /\ \A i \in DOMAIN file : new[i] = ParsedBlock(file[i], path, address[i])
  OBVIOUS
<1>3. n \in Nat /\ DOMAIN file = 1 .. n
  BY IsSeqFacts
<1> HIDE DEF new, c, n
<1>4. IsSeq(new) /\ Len(new) = n
  BY <1>2, MapIs DEF n
<1>5. /\ IsSeq(Reverse(new)) /\ Len(Reverse(new)) = n
      /\ \A i \in 1 .. n : Reverse(new)[i] = new[(n - i) + 1] /\ (n - i) + 1 \in 1 .. n
  BY <1>4, ReverseIs
<1> DEFINE r == Reverse(new)
<1>11. IsSeq(r)
  BY <1>5
<1> HIDE DEF r
<1>6. /\ IsSeq(r \o configs) /\ Len(r \o configs) = Len(r) + Len(configs)
      /\ DOMAIN (r \o configs) = 1 .. Len(r) + Len(configs)
      /\ \A i \in 1 .. Len(r) : (r \o configs)[i] = r[i]
      /\ \A i \in 1 .. Len(configs) : (r \o configs)[Len(r) + i] = configs[i]
  BY <1>11, ConcatIs
<1>7. DOMAIN configs = 1 .. Len(configs)
  BY IsSeqFacts
<1>8. \A i \in 1 .. n : /\ (n - i) + 1 \in 1 .. n
                        /\ c[i] = ParsedBlock(file[(n - i) + 1], path, address[(n - i) + 1])
  BY <1>1, <1>2, <1>3, <1>5, <1>6 DEF r
<1>9. /\ IsSeq(c) /\ Len(c) = n + Len(configs) /\ DOMAIN c = 1 .. n + Len(configs)
      /\ \A i \in DOMAIN configs : c[n + i] = configs[i]
  BY <1>1, <1>5, <1>6, <1>7 DEF r
<1>10. QED
  BY <1>3, <1>8, <1>9 DEF n, c

LEMMA InitType == Init => TypeInv
<1>1. SUFFICES ASSUME Init PROVE TypeInv
  OBVIOUS
<1>2. IsSeq(dir) /\ dir \in Directories /\ Len(dir) \in Nat
  BY <1>1, DirectoriesAssumption, IsSeqFacts DEF Init
<1>3. Reading
  BY <1>1, <1>2, EmptyIs DEF Init, Reading
<1>4. Machines /\ Len(vms) = 0
  BY <1>1, EmptyIs DEF Init, Machines
<1>5. Jobs
  BY <1>1, <1>4 DEF Init, Jobs, Idle, Steps
<1>6. Loads
  BY <1>1, EmptyIs DEF Init, Loads
<1>7. QED
  BY <1>1, <1>3, <1>4, <1>5, <1>6 DEF Init, TypeInv

LEMMA WalkType == TypeInv /\ bcs_walkdir => TypeInv'
<1>1. SUFFICES ASSUME TypeInv, bcs_walkdir PROVE TypeInv'
  OBVIOUS
<1>2. CASE Crash
  BY <1>1, <1>2 DEF Crash, loading, TypeInv, Reading, Machines, Jobs, Loads
<1>3. CASE /\ entry' = entry + 1
           /\ UNCHANGED <<dir, found, configs, current, pc, vms, files, links, broken, job, ending>>
  <2>1. Len(dir) \in Nat /\ entry <= Len(dir) /\ entry \in Nat
    BY <1>1, IsSeqFacts DEF bcs_walkdir, TypeInv, Reading
  <2>2. entry' \in Nat \ {0} /\ entry' <= Len(dir) + 1
    BY <2>1, <1>3
  <2>3. QED
    BY <1>1, <1>3, <2>2 DEF TypeInv, Reading, Machines, Jobs, Loads
<1>4. ASSUME Readable(dir[entry]),
             NEW address \in [DOMAIN dir[entry].config -> Addresses],
             configs' = bcs_parseucl(configs, dir[entry].config, dir[entry].d_name, address),
             entry' = entry + 1, entry <= Len(dir),
             UNCHANGED <<dir, current, pc, vms, files, links, broken, job, ending>>
      PROVE  TypeInv'
  <2> DEFINE file == dir[entry].config
  <2>1. Len(dir) \in Nat /\ entry <= Len(dir) /\ entry \in Nat /\ entry \in DOMAIN dir
    BY <1>1, <1>4, IsSeqFacts DEF TypeInv, Reading
  <2>2. entry' \in Nat \ {0} /\ entry' <= Len(dir) + 1
    BY <2>1, <1>4
  <2>3. IsSeq(file) /\ \A k \in DOMAIN file : IsObject(file[k].value)
    BY <1>1, <1>4, <2>1, DirectoriesAssumption DEF TypeInv, Reading
  <2>4. IsSeq(configs) /\ current \in 0 .. Len(configs) /\ \A i \in DOMAIN configs : Proper(configs[i])
    BY <1>1 DEF TypeInv, Reading
  <2> DEFINE n == Len(file)
  <2>5. /\ IsSeq(configs') /\ Len(configs') = n + Len(configs) /\ DOMAIN configs' = 1 .. n + Len(configs)
        /\ n \in Nat /\ DOMAIN file = 1 .. n
        /\ \A i \in 1 .. n : /\ (n - i) + 1 \in 1 .. n
                             /\ configs'[i] = ParsedBlock(file[(n - i) + 1], dir[entry].d_name,
                                                          address[(n - i) + 1])
        /\ \A i \in DOMAIN configs : configs'[n + i] = configs[i]
    <3> DEFINE path == dir[entry].d_name
               c == bcs_parseucl(configs, file, path, address)
    <3>1. IsSeq(file) /\ IsSeq(configs)
      BY <2>3, <2>4
    <3> HIDE DEF file, path
    <3>2. /\ IsSeq(c) /\ Len(c) = Len(file) + Len(configs) /\ DOMAIN c = 1 .. Len(file) + Len(configs)
          /\ Len(file) \in Nat /\ DOMAIN file = 1 .. Len(file)
          /\ \A i \in 1 .. Len(file) :
                /\ (Len(file) - i) + 1 \in 1 .. Len(file)
                /\ c[i] = ParsedBlock(file[(Len(file) - i) + 1], path, address[(Len(file) - i) + 1])
          /\ \A i \in DOMAIN configs : c[Len(file) + i] = configs[i]
      BY <3>1, ParseuclIs
    <3>3. configs' = c
      BY <1>4 DEF file, path
    <3> HIDE DEF c
    <3>4. QED
      BY <3>2, <3>3 DEF path
  <2> HIDE DEF n
  <2>6. Len(configs) \in Nat /\ DOMAIN configs = 1 .. Len(configs)
    BY <2>4, IsSeqFacts
  <2>7. ASSUME NEW i \in DOMAIN configs' PROVE Proper(configs'[i])
    <3>1. CASE i <= n
      <4>1. i \in 1 .. n
        BY <2>5, <2>6, <3>1
      <4> DEFINE k == (n - i) + 1
      <4>2. k \in 1 .. n /\ configs'[i] = ParsedBlock(file[k], dir[entry].d_name, address[k])
        BY <4>1, <2>5
      <4> HIDE DEF k
      <4>3. address[k] \in Nat /\ IsObject(file[k].value)
        BY <4>2, <2>3, <2>5, <1>4, AddressesAssumption
      <4>4. QED
        BY <4>2, <4>3, ParsedIsProper
    <3>2. CASE i > n
      <4>1. i - n \in DOMAIN configs /\ n + (i - n) = i
        BY <2>5, <2>6, <3>2
      <4>2. QED
        BY <4>1, <2>4, <2>5
    <3>3. QED
      BY <3>1, <3>2, <2>5, <2>6
  <2>8. current' \in 0 .. Len(configs')
    BY <1>4, <2>4, <2>5, <2>6
  <2>9. Reading'
    BY <1>1, <1>4, <2>2, <2>5, <2>7, <2>8 DEF TypeInv, Reading
  <2>10. QED
    BY <1>1, <1>4, <2>9 DEF TypeInv, Machines, Jobs, Loads
<1>5. QED
  BY <1>1, <1>2, <1>3, <1>4 DEF bcs_walkdir

LEMMA GetVmIs ==
    ASSUME IsSeq(vms), NEW name
    PROVE  /\ bd_getvmbyname(name) \in 0 .. Len(vms)
           /\ (\E i \in DOMAIN vms : vms[i].config.name = name)
                 => /\ bd_getvmbyname(name) \in DOMAIN vms
                    /\ vms[bd_getvmbyname(name)].config.name = name
                    /\ bd_getvmbyname(name) = Min({i \in DOMAIN vms : vms[i].config.name = name})
           /\ (\A i \in DOMAIN vms : vms[i].config.name # name) => bd_getvmbyname(name) = 0
<1> DEFINE I == {i \in 1 .. Len(vms) : vms[i].config.name = name}
           k == bd_getvmbyname(name)
<1>1. k = IF I # {} THEN Min(I) ELSE 0
  BY DEF bd_getvmbyname, SelectInSeq
<1>2. DOMAIN vms = 1 .. Len(vms) /\ Len(vms) \in Nat
  BY IsSeqFacts
<1>3. I \in SUBSET Nat
  BY <1>2
<1> HIDE DEF k
<1>4. CASE I = {}
  <2>1. k = 0 /\ k \in 0 .. Len(vms)
    BY <1>1, <1>2, <1>4
  <2>2. \A i \in DOMAIN vms : vms[i].config.name # name
    BY <1>2, <1>4
  <2> HIDE DEF I
  <2>3. QED
    BY <2>1, <2>2 DEF k
<1>5. CASE I # {}
  <2>1. Min(I) \in I
    BY <1>3, <1>5, MinIs
  <2>2. k \in I /\ k = Min(I)
    BY <1>1, <1>5, <2>1
  <2>3. I = {i \in DOMAIN vms : vms[i].config.name = name}
    BY <1>2
  <2>4. k \in DOMAIN vms /\ vms[k].config.name = name
    BY <1>2, <2>2
  <2>5. \E i \in DOMAIN vms : vms[i].config.name = name
    BY <2>4
  <2>6. k \in 0 .. Len(vms)
    BY <1>2, <2>4
  <2> HIDE DEF I
  <2>7. QED
    BY <2>2, <2>3, <2>4, <2>5, <2>6 DEF k
<1>6. QED
  BY <1>4, <1>5 DEF k

LEMMA EndOfDirType == TypeInv /\ EndOfDir => TypeInv'
BY DEF EndOfDir, loading, TypeInv, Reading, Machines, Jobs, Loads

LEMMA NewType == TypeInv /\ bd_new => TypeInv'
<1>1. SUFFICES ASSUME TypeInv, bd_new PROVE TypeInv'
  OBVIOUS
<1>2. Len(configs) \in Nat /\ DOMAIN configs = 1 .. Len(configs) /\ current \in 0 .. Len(configs)
  BY <1>1, IsSeqFacts DEF TypeInv, Reading
<1>3. bci_next \in 0 .. Len(configs) /\ current' = bci_next /\ pc = "list"
      /\ UNCHANGED <<dir, entry, found, configs, files, links, broken, job, ending>>
  BY <1>1, <1>2 DEF bd_new, bci_next
<1>4. Reading'
  BY <1>1, <1>3 DEF TypeInv, Reading
<1>5. CASE bci_next = 0
  <2>1. pc' = "serving" /\ UNCHANGED vms
    BY <1>1, <1>5 DEF bd_new
  <2>2. QED
    BY <1>1, <1>3, <1>4, <2>1 DEF TypeInv, Machines, Jobs, Loads
<1>6. CASE bci_next # 0
  <2> DEFINE m == bwv_new(configs[bci_next])
  <2>1. vms' = <<m>> \o vms /\ UNCHANGED pc
    BY <1>1, <1>6 DEF bd_new
  <2>2. Proper(configs[bci_next])
    BY <1>1, <1>2, <1>3, <1>6 DEF TypeInv, Reading
  <2>3. Machine(m) /\ m.process = "none" /\ ~ m.alone
    BY <2>2 DEF Machine, MachineOf, bwv_new, VMStates, Processes
  <2> HIDE DEF m
  <2> DEFINE one == <<m>>
  <2>4. IsSeq(one) /\ Len(one) = 1 /\ one[1] = m
    BY OneIs
  <2>5. IsSeq(vms) /\ Len(vms) \in Nat /\ DOMAIN vms = 1 .. Len(vms)
    BY <1>1, IsSeqFacts DEF TypeInv, Machines
  <2> HIDE DEF one
  <2>6. vms' = one \o vms
    BY <2>1 DEF one
  <2>7. /\ IsSeq(vms') /\ Len(vms') = 1 + Len(vms) /\ DOMAIN vms' = 1 .. 1 + Len(vms)
        /\ \A i \in 1 .. Len(one) : vms'[i] = one[i]
        /\ \A i \in 1 .. Len(vms) : vms'[Len(one) + i] = vms[i]
    <3> DEFINE c == one \o vms
    <3>4. IsSeq(one) /\ IsSeq(vms)
      BY <2>4, <2>5
    <3>1. /\ IsSeq(c) /\ Len(c) = Len(one) + Len(vms) /\ DOMAIN c = 1 .. Len(one) + Len(vms)
          /\ \A i \in 1 .. Len(one) : c[i] = one[i]
          /\ \A i \in 1 .. Len(vms) : c[Len(one) + i] = vms[i]
      BY <3>4, ConcatIs
    <3>2. vms' = c
      BY <2>6
    <3> HIDE DEF c
    <3>3. QED
      BY <2>4, <3>1, <3>2
  <2>8. vms'[1] = m /\ \A i \in DOMAIN vms : vms'[1 + i] = vms[i]
    BY <2>4, <2>5, <2>7
  <2>9. \A i \in DOMAIN vms' : i = 1 \/ (i - 1 \in DOMAIN vms /\ 1 + (i - 1) = i)
    BY <2>5, <2>7
  <2>10. Machines'
    BY <1>1, <2>3, <2>7, <2>8, <2>9 DEF Machines, TypeInv
  <2>11. \A t \in Starters : job[t] = Idle
    BY <1>1, <1>3 DEF TypeInv, Loads
  <2>12. Loads'
    <3>1. \A i \in DOMAIN vms' : vms'[i].process = "none" /\ ~ vms'[i].alone
      BY <1>1, <1>3, <2>3, <2>8, <2>9 DEF TypeInv, Loads
    <3>2. QED
      BY <1>3, <2>11, <3>1 DEF Loads
  <2>13. Jobs'
    <3>1. 0 .. Len(vms) \subseteq 0 .. Len(vms')
      BY <2>5, <2>7
    <3>2. job \in [Starters -> [at : Steps, vm : 0 .. Len(vms')]]
      BY <1>1, <3>1 DEF TypeInv, Jobs
    <3>3. QED
      BY <1>1, <1>3, <3>2 DEF TypeInv, Jobs
  <2>14. ending' \in 0 .. Len(vms')
    BY <1>1, <1>3, <2>5, <2>7 DEF TypeInv
  <2>15. QED
    BY <1>1, <1>4, <2>1, <2>10, <2>12, <2>13, <2>14 DEF TypeInv
<1>7. QED
  BY <1>5, <1>6

----------------------------------------------------------------------------
(* While the daemon serves, only the machines, the jobs and the links change. *)
LEMMA ServingType ==
    ASSUME TypeInv, pc = "serving", pc' \in {"serving", "crashed"}, UNCHANGED loading,
           Machines', Len(vms') = Len(vms), Jobs', ending' \in 0 .. Len(vms)
    PROVE  TypeInv'
BY DEF TypeInv, Reading, loading, Loads

(* What a starter does to its own job. *)
LEMMA JobMoves ==
    ASSUME TypeInv, NEW t \in Starters, Len(vms') = Len(vms)
    PROVE  /\ \A step \in Steps \ {"rest"} : job[t].vm # 0 /\ Goto(t, step) =>
                 /\ Jobs' /\ job'[t].vm = job[t].vm /\ job'[t].at = step
                 /\ \A u \in Starters : u # t => job'[u] = job[u]
           /\ Gives(t) => /\ Jobs' /\ job'[t] = Idle /\ job'[t].vm = 0
                          /\ \A u \in Starters : u # t => job'[u] = job[u]
           /\ \A i \in DOMAIN vms : job' = [job EXCEPT ![t] = [at |-> "open", vm |-> i]] =>
                 /\ Jobs' /\ job'[t].vm = i /\ job'[t].at = "open"
                 /\ \A u \in Starters : u # t => job'[u] = job[u]
<1>1. Len(vms) \in Nat /\ DOMAIN vms = 1 .. Len(vms)
  BY IsSeqFacts DEF TypeInv, Machines
<1>2. job \in [Starters -> [at : Steps, vm : 0 .. Len(vms)]] /\ (\A u \in Starters : job[u] = Idle <=> job[u].vm = 0)
  BY DEF TypeInv, Jobs
<1>3. ASSUME NEW step \in Steps \ {"rest"}, job[t].vm # 0, Goto(t, step)
      PROVE  /\ Jobs' /\ job'[t].vm = job[t].vm /\ job'[t].at = step
             /\ \A u \in Starters : u # t => job'[u] = job[u]
  <2> DEFINE j == [job[t] EXCEPT !.at = step]
  <2>1. j = [at |-> step, vm |-> job[t].vm]
    BY <1>2
  <2>2. job' = [job EXCEPT ![t] = j]
    BY <1>3 DEF Goto
  <2>3. j \in [at : Steps, vm : 0 .. Len(vms)] /\ j # Idle /\ j.vm = job[t].vm /\ j.at = step
    BY <1>2, <1>3, <2>1 DEF Idle
  <2> HIDE DEF j
  <2>4. /\ job' \in [Starters -> [at : Steps, vm : 0 .. Len(vms)]] /\ job'[t] = j
        /\ \A u \in Starters : u # t => job'[u] = job[u]
    BY <1>2, <2>2, <2>3
  <2>5. QED
    BY <1>2, <1>3, <2>3, <2>4 DEF Jobs
<1>4. ASSUME Gives(t)
      PROVE  /\ Jobs' /\ job'[t] = Idle /\ job'[t].vm = 0
             /\ \A u \in Starters : u # t => job'[u] = job[u]
  <2>1. Idle \in [at : Steps, vm : 0 .. Len(vms)] /\ Idle.vm = 0
    BY <1>1 DEF Idle, Steps
  <2>2. QED
    BY <1>2, <1>4, <2>1 DEF Jobs, Gives
<1>5. ASSUME NEW i \in DOMAIN vms, job' = [job EXCEPT ![t] = [at |-> "open", vm |-> i]]
      PROVE  /\ Jobs' /\ job'[t].vm = i /\ job'[t].at = "open"
             /\ \A u \in Starters : u # t => job'[u] = job[u]
  <2> DEFINE j == [at |-> "open", vm |-> i]
  <2>1. j \in [at : Steps, vm : 0 .. Len(vms)] /\ j # Idle /\ j.vm = i /\ j.at = "open" /\ i # 0
    BY <1>1 DEF Idle, Steps
  <2>2. job' = [job EXCEPT ![t] = j]
    BY <1>5
  <2> HIDE DEF j
  <2>3. QED
    BY <1>2, <2>1, <2>2 DEF Jobs
<1>6. QED
  BY <1>3, <1>4, <1>5

----------------------------------------------------------------------------
(***************************************************************************)
(* The consoles.  A machine that runs after a start of its own keeps its   *)
(* links while the others start, link and unlink: theirs replace one of its *)
(* links only where the paths are the same.                                *)
(***************************************************************************)

(* What holds of a machine whose start is alone. *)
OneStart(i) == \A t, u \in Starters : job[t].vm = i /\ job[u].vm = i => t = u
NoProcess(i) == (\E t \in Starters : job[t].vm = i) => vms[i].process = "none"
LinkedIfUp(i) ==
    vms[i].process # "none" \/ (\E t \in Starters : job[t].vm = i /\ job[t].at = "launch") => Linked(i)

LinkInv ==
    \A i \in DOMAIN vms : vms[i].alone => OneStart(i) /\ NoProcess(i) /\ LinkedIfUp(i)

SameConfigs == /\ DOMAIN vms' = DOMAIN vms /\ Len(vms') = Len(vms)
               /\ \A k \in DOMAIN vms : vms'[k].config = vms[k].config

(* Links of other machines may go: where they have the path of one of i's, i is excused. *)
OthersRemoved(i) ==
    /\ \A l \in links \ links' :
          \E j \in DOMAIN vms : j # i /\ \E m \in DOMAIN Seen(vms[j].config) : l.path = ConsolePath(j, m)
    /\ \A n : <<i, n>> \in broken => <<i, n>> \in broken'

LEMMA LinkedStays ==
    ASSUME NEW i \in DOMAIN vms, Linked(i), SameConfigs, OthersRemoved(i)
    PROVE  Linked(i)'
<1> DEFINE seen == Seen(vms[i].config)
<1>1. \A j \in DOMAIN vms : /\ Seen(vms'[j].config) = Seen(vms[j].config)
                            /\ \A m : ConsolePath(j, m)' = ConsolePath(j, m)
  BY DEF SameConfigs, ConsolePath
<1>2. ASSUME NEW n \in DOMAIN seen
      PROVE  \/ \E m \in 1 .. n : seen[m].backend \in {NULL, ""} \/ <<i, m>> \in broken
             \/ \E j \in DOMAIN vms : \E m \in DOMAIN Seen(vms[j].config) :
                   <<j, m>> # <<i, n>> /\ ConsolePath(j, m) = ConsolePath(i, n)
             \/ \E l \in links' : l.path = ConsolePath(i, n) /\ OtherEnd(seen[n].backend, l.target)
  <2>1. CASE \E l \in links : l.path = ConsolePath(i, n) /\ OtherEnd(seen[n].backend, l.target)
    <3>1. PICK l \in links : l.path = ConsolePath(i, n) /\ OtherEnd(seen[n].backend, l.target)
      BY <2>1
    <3>2. CASE l \in links'
      BY <3>1, <3>2
    <3>3. CASE l \notin links'
      <4>1. PICK j \in DOMAIN vms : j # i /\ \E m \in DOMAIN Seen(vms[j].config) : l.path = ConsolePath(j, m)
        BY <3>3 DEF OthersRemoved
      <4>2. PICK m \in DOMAIN Seen(vms[j].config) : l.path = ConsolePath(j, m)
        BY <4>1
      <4>3. <<j, m>> # <<i, n>>
        BY <4>1
      <4>4. QED
        BY <3>1, <4>2, <4>3
    <3>4. QED
      BY <3>2, <3>3
  <2>2. QED
    BY <1>2, <2>1 DEF Linked
<1>3. DOMAIN vms' = DOMAIN vms
  BY DEF SameConfigs
<1>4. ASSUME NEW n \in DOMAIN seen
      PROVE  \/ \E m \in 1 .. n : Seen(vms'[i].config)[m].backend \in {NULL, ""} \/ <<i, m>> \in broken'
             \/ \E j \in DOMAIN vms' : \E m \in DOMAIN Seen(vms'[j].config) :
                   <<j, m>> # <<i, n>> /\ ConsolePath(j, m)' = ConsolePath(i, n)'
             \/ \E l \in links' : l.path = ConsolePath(i, n)'
                                  /\ OtherEnd(Seen(vms'[i].config)[n].backend, l.target)
  <2>1. ConsolePath(i, n)' = ConsolePath(i, n) /\ Seen(vms'[i].config) = seen
    BY <1>1
  <2>2. CASE \E m \in 1 .. n : seen[m].backend \in {NULL, ""} \/ <<i, m>> \in broken
    <3>1. \A m : <<i, m>> \in broken => <<i, m>> \in broken'
      BY DEF OthersRemoved
    <3>2. QED
      BY <2>1, <2>2, <3>1
  <2>3. CASE \E j \in DOMAIN vms : \E m \in DOMAIN Seen(vms[j].config) :
                   <<j, m>> # <<i, n>> /\ ConsolePath(j, m) = ConsolePath(i, n)
    <3>1. PICK j \in DOMAIN vms : \E m \in DOMAIN Seen(vms[j].config) :
                   <<j, m>> # <<i, n>> /\ ConsolePath(j, m) = ConsolePath(i, n)
      BY <2>3
    <3>2. PICK m \in DOMAIN Seen(vms[j].config) :
                   <<j, m>> # <<i, n>> /\ ConsolePath(j, m) = ConsolePath(i, n)
      BY <3>1
    <3>3. j \in DOMAIN vms' /\ m \in DOMAIN Seen(vms'[j].config) /\ ConsolePath(j, m)' = ConsolePath(j, m)
      BY <1>1, <1>3, <3>2
    <3>4. QED
      BY <2>1, <3>2, <3>3
  <2>4. CASE \E l \in links' : l.path = ConsolePath(i, n) /\ OtherEnd(seen[n].backend, l.target)
    BY <2>1, <2>4
  <2>5. QED
    BY <1>2, <2>2, <2>3, <2>4
<1>5. Seen(vms'[i].config) = seen
  BY <1>1
<1>6. QED
  BY <1>4, <1>5 DEF Linked

(* A machine that the step leaves alone. *)
LEMMA Quiet ==
    ASSUME LinkInv, NEW i \in DOMAIN vms, vms[i].alone, SameConfigs, OthersRemoved(i),
           \A t \in Starters : job'[t].vm = i => /\ job[t].vm = i
                                                 /\ job'[t].at = "launch" => job[t].at = "launch",
           vms'[i].process # "none" => vms[i].process # "none"
    PROVE  OneStart(i)' /\ NoProcess(i)' /\ LinkedIfUp(i)'
<1>1. OneStart(i) /\ NoProcess(i) /\ LinkedIfUp(i)
  BY DEF LinkInv
<1>2. OneStart(i)'
  BY <1>1 DEF OneStart
<1>3. NoProcess(i)'
  BY <1>1 DEF NoProcess
<1>4. LinkedIfUp(i)'
  BY <1>1, LinkedStays DEF LinkedIfUp
<1>5. QED
  BY <1>2, <1>3, <1>4

(* A step that only moves jobs back or changes what no machine's start depends on. *)
LEMMA AllQuiet ==
    ASSUME LinkInv, SameConfigs, links \subseteq links', broken \subseteq broken',
           \A t \in Starters : job'[t].vm # 0 => /\ job'[t].vm = job[t].vm
                                                 /\ job'[t].at = "launch" => job[t].at = "launch",
           0 \notin DOMAIN vms,
           \A i \in DOMAIN vms : /\ vms'[i].alone => vms[i].alone
                                 /\ vms'[i].process # "none" => vms[i].process # "none"
    PROVE  LinkInv'
<1>1. SUFFICES ASSUME NEW i \in DOMAIN vms, vms'[i].alone
      PROVE  OneStart(i)' /\ NoProcess(i)' /\ LinkedIfUp(i)'
  BY DEF LinkInv, SameConfigs
<1>2. OthersRemoved(i)
  BY DEF OthersRemoved
<1>3. QED
  BY <1>1, <1>2, Quiet

----------------------------------------------------------------------------
(***************************************************************************)
(* bwv_linkconsoles: how far it gets, and which end it links to.           *)
(***************************************************************************)

LEMMA SeenIs ==
    ASSUME NEW bc, IsSeq(bc.consoles)
    PROVE  IsSeq(Seen(bc)) /\ Len(Seen(bc)) \in Nat /\ DOMAIN Seen(bc) = 1 .. Len(Seen(bc))
<1> DEFINE s == bc.consoles
           k == Min({5, Len(s)})
<1>1. s \in Seq(ToSet(s)) /\ Len(s) \in Nat
  BY DEF IsSeq
<1>2. k \in {5, Len(s)} /\ k <= 5 /\ k <= Len(s)
  <2> DEFINE S == {5, Len(s)}
  <2>1. S \in SUBSET Nat /\ S # {} /\ 5 \in S /\ Len(s) \in S
    BY <1>1
  <2> HIDE DEF S
  <2>2. Min(S) \in S /\ \A i \in S : Min(S) <= i
    BY <2>1, MinIs
  <2>3. Min(S) <= 5 /\ Min(S) <= Len(s)
    BY <2>1, <2>2
  <2>4. QED
    BY <2>2, <2>3 DEF S
<1> HIDE DEF k
<1>3. 1 \in 1 .. Len(s) + 1 /\ k \in 0 .. Len(s)
  BY <1>1, <1>2
<1>4. Seen(bc) = SubSeq(s, 1, k)
  BY DEF Seen, k
<1>5. SubSeq(s, 1, k) = [i \in 1 .. k |-> SubSeq(s, 1, k)[i]]
  BY <1>1, <1>3
<1> DEFINE q == SubSeq(s, 1, k)
<1> HIDE DEF q
<1>8. k \in Nat /\ q = [i \in 1 .. k |-> q[i]]
  BY <1>1, <1>3, <1>5 DEF q
<1>6. IsSeq(q)
  BY <1>8, SeqIs
<1>7. QED
  BY <1>4, <1>6, IsSeqFacts DEF q

(* The first index at which P fails to hold, for P given by the set of the indices where it does. *)
LEMMA FirstIs ==
    ASSUME NEW n \in Nat, NEW Good \in SUBSET (1 .. n)
    PROVE  \E k \in 1 .. n + 1 : /\ \A i \in 1 .. k - 1 : i \in Good
                                 /\ k <= n => k \notin Good
<1> DEFINE Bad == (1 .. n + 1) \ Good
<1>1. Bad \in SUBSET Nat /\ n + 1 \in Bad
  OBVIOUS
<1>2. Min(Bad) \in Bad /\ \A i \in Bad : Min(Bad) <= i
  BY <1>1, MinIs
<1> DEFINE k == Min(Bad)
<1> HIDE DEF k
<1>3. k \in 1 .. n + 1 /\ k \notin Good /\ \A i \in 1 .. n + 1 : i \notin Good => k <= i
  BY <1>2 DEF k
<1>4. \A i \in 1 .. k - 1 : i \in Good
  BY <1>3
<1>5. QED
  BY <1>3, <1>4

LEMMA LinkEndsIs ==
    ASSUME NEW bc, IsSeq(bc.consoles)
    PROVE  /\ LinkEnds(bc) \in 1 .. Len(Seen(bc)) + 1
           /\ \A i \in 1 .. LinkEnds(bc) - 1 : Seen(bc)[i].backend \notin {NULL, ""} /\ Seen(bc)[i].name # NULL
           /\ LinkEnds(bc) <= Len(Seen(bc)) =>
                 Seen(bc)[LinkEnds(bc)].backend \in {NULL, ""} \/ Seen(bc)[LinkEnds(bc)].name = NULL
<1> DEFINE seen == Seen(bc)
           Good == {i \in 1 .. Len(seen) : seen[i].backend \notin {NULL, ""} /\ seen[i].name # NULL}
<1>1. Len(seen) \in Nat
  BY SeenIs
<1> HIDE DEF seen
<1>5. \E k \in 1 .. Len(seen) + 1 : /\ \A i \in 1 .. k - 1 : i \in Good
                                    /\ k <= Len(seen) => k \notin Good
  BY <1>1, FirstIs
<1>2. PICK k \in 1 .. Len(seen) + 1 : /\ \A i \in 1 .. k - 1 : i \in Good
                                      /\ k <= Len(seen) => k \notin Good
  BY <1>5
<1>6. k <= Len(seen) => k \in 1 .. Len(seen)
  BY <1>1
<1>3. \E k_ \in 1 .. Len(seen) + 1 :
         /\ \A i \in 1 .. k_ - 1 : seen[i].backend \notin {NULL, ""} /\ seen[i].name # NULL
         /\ k_ <= Len(seen) => seen[k_].backend \in {NULL, ""} \/ seen[k_].name = NULL
  BY <1>2, <1>6
<1>4. QED
  BY <1>3 DEF LinkEnds, seen

LEMMA UnlinkEndsIs ==
    ASSUME NEW bc, IsSeq(bc.consoles)
    PROVE  UnlinkEnds(bc) \in 1 .. Len(Seen(bc)) + 1
<1> DEFINE seen == Seen(bc)
           Good == {i \in 1 .. Len(seen) : \E l \in links : l.path = Path(bc, seen[i])}
<1>1. Len(seen) \in Nat
  BY SeenIs
<1> HIDE DEF seen
<1>2. \E k \in 1 .. Len(seen) + 1 : /\ \A i \in 1 .. k - 1 : i \in Good
                                    /\ k <= Len(seen) => k \notin Good
  BY <1>1, FirstIs
<1>3. \E k \in 1 .. Len(seen) + 1 :
         /\ \A i \in 1 .. k - 1 : \E l \in links : l.path = Path(bc, seen[i])
         /\ k <= Len(seen) => \A l \in links : l.path # Path(bc, seen[k])
  BY <1>1, <1>2
<1>4. QED
  BY <1>3 DEF UnlinkEnds, seen

(* The other end of a null modem, or the device itself. *)
LEMMA PeerIs == \A backend : OtherEnd(backend, Peer(backend))
<1>1. TAKE backend
<1> DEFINE A == \E pair \in NullModems : pair[1] = backend
           B == \E pair \in NullModems : pair[2] = backend
           a == CHOOSE pair \in NullModems : pair[1] = backend
           b == CHOOSE pair \in NullModems : pair[2] = backend
<1>2. \/ A /\ Peer(backend) = a[2]
      \/ B /\ Peer(backend) = b[1]
      \/ ~ A /\ ~ B /\ Peer(backend) = backend
  <2>1. Peer(backend) = CASE A -> a[2] [] B -> b[1] [] OTHER -> backend
    BY DEF Peer
  <2> HIDE DEF A, B, a, b
  <2>2. QED
    BY <2>1
<1>3. CASE A /\ Peer(backend) = a[2]
  <2>1. a \in NullModems /\ a[1] = backend
    BY <1>3
  <2> HIDE DEF a
  <2>2. a = <<backend, a[2]>>
    BY <2>1, NullModemsAssumption
  <2>3. QED
    BY <2>1, <2>2, <1>3 DEF OtherEnd
<1>4. CASE B /\ Peer(backend) = b[1]
  <2>1. b \in NullModems /\ b[2] = backend
    BY <1>4
  <2> HIDE DEF b
  <2>2. b = <<b[1], backend>>
    BY <2>1, NullModemsAssumption
  <2>3. QED
    BY <2>1, <2>2, <1>4 DEF OtherEnd
<1>5. CASE ~ A /\ ~ B /\ Peer(backend) = backend
  BY <1>5 DEF OtherEnd
<1>6. QED
  BY <1>2, <1>3, <1>4, <1>5

----------------------------------------------------------------------------
(***************************************************************************)
(* The invariant, and the steps that keep it, one lemma per action.        *)
(***************************************************************************)

IInv == TypeInv /\ LinkInv

LEMMA Basics ==
    ASSUME TypeInv
    PROVE  /\ IsSeq(vms) /\ Len(vms) \in Nat /\ DOMAIN vms = 1 .. Len(vms) /\ 0 \notin DOMAIN vms
           /\ \A i \in DOMAIN vms : /\ vms[i].vmstate \in VMStates /\ vms[i].process \in Processes
                                    /\ vms[i].alone \in BOOLEAN
                                    /\ IsSeq(vms[i].config.consoles)
           /\ \A t \in Starters : job[t] # Idle => job[t].vm \in DOMAIN vms
           /\ \A t \in Starters : job[t].at # "rest" => job[t].vm \in DOMAIN vms
           /\ \A t \in Starters : job[t].at \in Steps
<1>1. IsSeq(vms) /\ Len(vms) \in Nat /\ DOMAIN vms = 1 .. Len(vms) /\ 0 \notin DOMAIN vms
  BY IsSeqFacts DEF TypeInv, Machines
<1>2. \A t \in Starters : /\ job[t].vm \in 0 .. Len(vms) /\ job[t].at \in Steps
                          /\ job[t] = Idle <=> job[t].vm = 0
  BY DEF TypeInv, Jobs
<1>3. \A t \in Starters : job[t].at # "rest" => job[t] # Idle
  BY DEF Idle
<1>4. QED
  BY <1>1, <1>2, <1>3 DEF TypeInv, Machines, Machine, Proper

(* A step of starter t that changes no machine. *)
LEMMA OnlyJob ==
    ASSUME IInv, pc = "serving", NEW t \in Starters, job[t].at # "rest",
           NEW step \in Steps \ {"rest"}, Goto(t, step),
           UNCHANGED <<loading, pc, vms, ending>>
    PROVE  /\ TypeInv' /\ SameConfigs
           /\ job'[t].vm = job[t].vm /\ job'[t].at = step
           /\ \A u \in Starters : u # t => job'[u] = job[u]
<1>1. job[t].vm # 0 /\ Len(vms') = Len(vms) /\ Machines' /\ TypeInv
  BY Basics DEF IInv, TypeInv, Machines
<1>2. Jobs' /\ job'[t].vm = job[t].vm /\ job'[t].at = step /\ \A u \in Starters : u # t => job'[u] = job[u]
  BY <1>1, JobMoves
<1>3. TypeInv'
  BY <1>1, <1>2, ServingType DEF TypeInv
<1>4. QED
  BY <1>2, <1>3 DEF SameConfigs

LEMMA CrashStep == IInv /\ Crash => IInv'
<1>1. SUFFICES ASSUME IInv, Crash PROVE IInv'
  OBVIOUS
<1>2. TypeInv'
  BY <1>1 DEF IInv, Crash, loading, TypeInv, Reading, Machines, Jobs, Loads
<1>3. SameConfigs /\ links \subseteq links' /\ broken \subseteq broken' /\ vms' = vms /\ job' = job /\ 0 \notin DOMAIN vms
  BY <1>1, Basics DEF Crash, SameConfigs, IInv
<1>4. LinkInv'
  BY <1>1, <1>3, AllQuiet DEF IInv
<1>5. QED
  BY <1>2, <1>4 DEF IInv

LEMMA LoadingStep == IInv /\ (bcs_walkdir \/ EndOfDir \/ bd_new) => IInv'
<1>1. SUFFICES ASSUME IInv, bcs_walkdir \/ EndOfDir \/ bd_new PROVE IInv'
  OBVIOUS
<1>2. TypeInv'
  BY <1>1, WalkType, EndOfDirType, NewType DEF IInv
<1>3. pc \in {"walk", "list"}
  BY <1>1 DEF bcs_walkdir, EndOfDir, bd_new
<1>4. \A i \in DOMAIN vms : ~ vms[i].alone
  BY <1>1, <1>3 DEF IInv, TypeInv, Loads
<1>5. CASE UNCHANGED vms
  BY <1>2, <1>4, <1>5 DEF IInv, LinkInv
<1>6. CASE pc' \in {"walk", "list"}
  BY <1>2, <1>6 DEF IInv, LinkInv, TypeInv, Loads
<1>7. QED
  BY <1>1, <1>5, <1>6 DEF bcs_walkdir, EndOfDir, bd_new, Crash

(* A machine that a step of another actor changes, jobs aside. *)
LEMMA OnlyMachine ==
    ASSUME IInv, pc = "serving", NEW i \in DOMAIN vms, NEW x \in VMStates, NEW p \in Processes, NEW b,
           Changes(i, x, p, b, vms[i].alone), ending' \in 0 .. Len(vms),
           UNCHANGED <<loading, pc, job>>
    PROVE  /\ TypeInv' /\ SameConfigs /\ 0 \notin DOMAIN vms
           /\ \A k \in DOMAIN vms : vms'[k].alone = vms[k].alone
           /\ \A k \in DOMAIN vms : k # i => vms'[k] = vms[k]
           /\ vms'[i].process = p
<1>1. /\ Machines' /\ Len(vms') = Len(vms) /\ DOMAIN vms' = DOMAIN vms
      /\ vms'[i].process = p /\ vms'[i].alone = vms[i].alone
      /\ \A k \in DOMAIN vms : k # i => vms'[k] = vms[k]
      /\ \A k \in DOMAIN vms : vms'[k].config = vms[k].config
  BY OneMachine, Basics DEF IInv, TypeInv
<1>2. TypeInv'
  BY <1>1, ServingType DEF IInv, TypeInv, Jobs
<1>3. SameConfigs
  BY <1>1 DEF SameConfigs
<1>4. \A k \in DOMAIN vms : vms'[k].alone = vms[k].alone
  BY <1>1
<1>5. QED
  BY <1>1, <1>2, <1>3, <1>4, Basics DEF IInv

LEMMA BootsStep == ASSUME IInv, NEW i \in DOMAIN vms, Boots(i) PROVE IInv'
<1>1. Changes(i, vms[i].vmstate, "up", files[vms[i].config.configfile], vms[i].alone)
  BY AMachineChanges DEF Boots, IInv, TypeInv
<1>2. vms[i].vmstate \in VMStates /\ "up" \in Processes /\ ending' \in 0 .. Len(vms)
  BY Basics DEF Boots, IInv, TypeInv, Processes
<1>3. /\ TypeInv' /\ SameConfigs /\ 0 \notin DOMAIN vms /\ vms'[i].process = "up"
      /\ \A k \in DOMAIN vms : vms'[k].alone = vms[k].alone
      /\ \A k \in DOMAIN vms : k # i => vms'[k] = vms[k]
  BY <1>1, <1>2, OnlyMachine DEF Boots
<1>4. vms[i].process # "none" /\ UNCHANGED <<job, links, broken>>
  BY DEF Boots
<1>5. LinkInv'
  BY <1>3, <1>4, AllQuiet DEF IInv
<1>6. QED
  BY <1>3, <1>5 DEF IInv

LEMMA ResetFailStep == ASSUME IInv, NEW i \in DOMAIN vms, ResetFail(i) PROVE IInv'
<1>1. Changes(i, "INIT", vms[i].process, vms[i].boot, vms[i].alone)
  BY AMachineChanges DEF ResetFail, IInv, TypeInv
<1>2. "INIT" \in VMStates /\ vms[i].process \in Processes /\ ending' \in 0 .. Len(vms)
  BY Basics DEF ResetFail, IInv, TypeInv, VMStates
<1>3. /\ TypeInv' /\ SameConfigs /\ 0 \notin DOMAIN vms /\ vms'[i].process = vms[i].process
      /\ \A k \in DOMAIN vms : vms'[k].alone = vms[k].alone
      /\ \A k \in DOMAIN vms : k # i => vms'[k] = vms[k]
  BY <1>1, <1>2, OnlyMachine DEF ResetFail
<1>4. UNCHANGED <<job, links, broken>>
  BY DEF ResetFail
<1>5. LinkInv'
  BY <1>3, <1>4, AllQuiet DEF IInv
<1>6. QED
  BY <1>3, <1>5 DEF IInv

LEMMA OnExitStep == IInv /\ OnExit => IInv'
<1>1. SUFFICES ASSUME IInv, OnExit PROVE IInv'
  OBVIOUS
<1> DEFINE i == ending
<1>2. i \in DOMAIN vms
  BY <1>1, Basics DEF OnExit, IInv, TypeInv
<1>3. PICK state \in {"STOPPED", "FAILED"} : vms' = [vms EXCEPT ![i].vmstate = state]
  BY <1>1 DEF OnExit
<1>4. state \in VMStates /\ vms[i].process \in Processes /\ ending' \in 0 .. Len(vms)
  BY <1>1, <1>2, Basics DEF OnExit, IInv, TypeInv, VMStates
<1>5. UNCHANGED <<job, links, broken, loading, pc>> /\ pc = "serving"
  BY <1>1 DEF OnExit
<1> HIDE DEF i
<1>6. Changes(i, state, vms[i].process, vms[i].boot, vms[i].alone)
  BY <1>1, <1>2, <1>3, AMachineChanges DEF IInv, TypeInv
<1>7. /\ TypeInv' /\ SameConfigs /\ 0 \notin DOMAIN vms /\ vms'[i].process = vms[i].process
      /\ \A k \in DOMAIN vms : vms'[k].alone = vms[k].alone
      /\ \A k \in DOMAIN vms : k # i => vms'[k] = vms[k]
  BY <1>1, <1>2, <1>4, <1>5, <1>6, OnlyMachine
<1>8. LinkInv'
  BY <1>1, <1>5, <1>7, AllQuiet DEF IInv
<1>9. QED
  BY <1>7, <1>8 DEF IInv

LEMMA EndsStep == ASSUME IInv, NEW i \in DOMAIN vms, Ends(i) PROVE IInv'
<1>1. Changes(i, vms[i].vmstate, "none", NULL, vms[i].alone)
  BY AMachineChanges DEF Ends, IInv, TypeInv
<1>2. vms[i].vmstate \in VMStates /\ "none" \in Processes /\ ending' \in 0 .. Len(vms)
  BY Basics DEF Ends, IInv, TypeInv, Processes
<1>3. /\ TypeInv' /\ SameConfigs /\ 0 \notin DOMAIN vms /\ vms'[i].process = "none"
      /\ \A k \in DOMAIN vms : vms'[k].alone = vms[k].alone
      /\ \A k \in DOMAIN vms : k # i => vms'[k] = vms[k]
  BY <1>1, <1>2, OnlyMachine DEF Ends
<1> DEFINE bc == vms[i].config
<1>4. job' = job /\ broken' = broken /\ vms[i].process # "none"
  BY DEF Ends
<1>8. PICK n \in (Unlinkable \cap 1..UnlinkEnds(bc)) \cup {UnlinkEnds(bc)} :
         links' = {l \in links : \A k \in 1..(n - 1) : l.path # Path(bc, Seen(bc)[k])}
  BY DEF Ends
<1>5. 1 .. n - 1 \subseteq DOMAIN Seen(bc)
  <2>1. UnlinkEnds(bc) \in 1 .. Len(Seen(bc)) + 1 /\ Len(Seen(bc)) \in Nat /\ DOMAIN Seen(bc) = 1 .. Len(Seen(bc))
    BY Basics, UnlinkEndsIs, SeenIs DEF IInv
  <2> HIDE DEF bc
  <2>2. QED
    BY <2>1
<1>6. ASSUME NEW k \in DOMAIN vms, vms'[k].alone
      PROVE  OneStart(k)' /\ NoProcess(k)' /\ LinkedIfUp(k)'
  <2>1. CASE k # i
    <3>1. OthersRemoved(k)
      BY <1>4, <1>5, <1>8, <2>1 DEF OthersRemoved, ConsolePath
    <3>2. QED
      BY <1>3, <1>4, <1>6, <2>1, <3>1, Quiet DEF IInv
  <2>2. CASE k = i
    <3>1. OneStart(i) /\ NoProcess(i)
      BY <1>3, <1>6, <2>2 DEF IInv, LinkInv
    <3>2. \A t \in Starters : job[t].vm # i
      BY <3>1, <1>4 DEF NoProcess
    <3>3. QED
      BY <1>3, <1>4, <2>2, <3>2 DEF OneStart, NoProcess, LinkedIfUp
  <2>3. QED
    BY <2>1, <2>2
<1>7. QED
  BY <1>3, <1>6 DEF IInv, LinkInv, SameConfigs

LEMMA BeginStep ==
    ASSUME IInv, NEW t \in Starters, NEW n \in DOMAIN vms, Begin(t, vms[n].config.name)
    PROVE  IInv'
<1> DEFINE i == bd_getvmbyname(vms[n].config.name)
<1>1. i \in DOMAIN vms
  BY GetVmIs, Basics DEF IInv
<1>2. /\ pc = "serving" /\ job[t] = Idle
      /\ job' = [job EXCEPT ![t] = [at |-> "open", vm |-> i]]
      /\ vms' = [vms EXCEPT ![i].alone = AtRest(i)]
      /\ UNCHANGED <<loading, pc, files, links, broken, ending>>
  BY DEF Begin
<1> HIDE DEF i
<1> DEFINE a == AtRest(i)
<1>3. a \in BOOLEAN
  BY DEF AtRest
<1>4. a => /\ vms[i].process = "none"
           /\ \A u \in Starters : job[u].vm # i
  BY DEF AtRest
<1> HIDE DEF a
<1>5. Changes(i, vms[i].vmstate, vms[i].process, vms[i].boot, a)
  BY <1>1, <1>2, AMachineChanges DEF IInv, TypeInv, a
<1>6. vms[i].vmstate \in VMStates /\ vms[i].process \in Processes
  BY <1>1, Basics DEF IInv
<1>7. /\ Machines' /\ Len(vms') = Len(vms) /\ DOMAIN vms' = DOMAIN vms
      /\ vms'[i].process = vms[i].process /\ vms'[i].alone = a
      /\ \A k \in DOMAIN vms : k # i => vms'[k] = vms[k]
      /\ \A k \in DOMAIN vms : vms'[k].config = vms[k].config
  BY <1>1, <1>3, <1>5, <1>6, OneMachine DEF IInv, TypeInv
<1>8. /\ Jobs' /\ job'[t].vm = i /\ job'[t].at = "open"
      /\ \A u \in Starters : u # t => job'[u] = job[u]
  BY <1>1, <1>2, <1>7, JobMoves DEF IInv
<1>9. TypeInv'
  BY <1>2, <1>7, <1>8, ServingType DEF IInv, TypeInv
<1>10. ASSUME NEW k \in DOMAIN vms, vms'[k].alone
       PROVE  OneStart(k)' /\ NoProcess(k)' /\ LinkedIfUp(k)'
  <2>1. CASE k # i
    <3>1. OthersRemoved(k) /\ SameConfigs
      BY <1>2, <1>7 DEF OthersRemoved, SameConfigs
    <3>2. QED
      BY <1>7, <1>8, <1>10, <2>1, <3>1, Quiet DEF IInv
  <2>2. CASE k = i
    <3>1. vms[i].process = "none" /\ \A u \in Starters : job[u].vm # i
      BY <1>4, <1>7, <1>10, <2>2
    <3>2. \A u \in Starters : job'[u].vm = i => u = t
      BY <1>8, <3>1
    <3>3. QED
      BY <1>7, <1>8, <2>2, <3>1, <3>2 DEF OneStart, NoProcess, LinkedIfUp
  <2>3. QED
    BY <2>1, <2>2
<1>11. QED
  BY <1>7, <1>9, <1>10 DEF IInv, LinkInv

(* A start that fails. *)
LEMMA FailsStep ==
    ASSUME IInv, pc = "serving", NEW t \in Starters, job[t].at # "rest", Gives(t),
           vms' = [vms EXCEPT ![job[t].vm].vmstate = "FAILED"],
           UNCHANGED <<loading, pc, links, broken, ending>>
    PROVE  IInv'
<1> DEFINE i == job[t].vm
<1>1. i \in DOMAIN vms
  BY Basics DEF IInv
<1>2. vms' = [vms EXCEPT ![i].vmstate = "FAILED"]
  OBVIOUS
<1> HIDE DEF i
<1>3. Changes(i, "FAILED", vms[i].process, vms[i].boot, vms[i].alone)
  BY <1>1, <1>2, AMachineChanges DEF IInv, TypeInv
<1>4. "FAILED" \in VMStates /\ vms[i].process \in Processes /\ vms[i].alone \in BOOLEAN
  BY <1>1, Basics DEF IInv, VMStates
<1>5. /\ Machines' /\ Len(vms') = Len(vms) /\ DOMAIN vms' = DOMAIN vms
      /\ vms'[i].process = vms[i].process /\ vms'[i].alone = vms[i].alone
      /\ \A k \in DOMAIN vms : k # i => vms'[k] = vms[k]
      /\ \A k \in DOMAIN vms : vms'[k].config = vms[k].config
  BY <1>1, <1>3, <1>4, OneMachine DEF IInv, TypeInv
<1>6. /\ Jobs' /\ job'[t].vm = 0
      /\ \A u \in Starters : u # t => job'[u] = job[u]
  BY <1>5, JobMoves DEF IInv
<1>7. TypeInv'
  BY <1>5, <1>6, ServingType DEF IInv, TypeInv
<1>8. SameConfigs /\ 0 \notin DOMAIN vms
  BY <1>5, Basics DEF SameConfigs, IInv
<1>9. \A u \in Starters : job'[u].vm # 0 => job'[u].vm = job[u].vm /\ job'[u].at = job[u].at
  BY <1>6
<1>10. \A k \in DOMAIN vms : vms'[k].alone = vms[k].alone /\ vms'[k].process = vms[k].process
  BY <1>5
<1>11. LinkInv'
  BY <1>8, <1>9, <1>10, AllQuiet DEF IInv
<1>12. QED
  BY <1>7, <1>11 DEF IInv

(* A start that goes one step further, before the launch. *)
LEMMA GoesOn ==
    ASSUME IInv, pc = "serving", NEW t \in Starters, job[t].at # "rest",
           NEW step \in {"open", "write", "link"}, Goto(t, step),
           UNCHANGED <<loading, pc, vms, links, broken, ending>>
    PROVE  IInv'
<1>1. step \in Steps \ {"rest"}
  BY DEF Steps
<1>2. /\ TypeInv' /\ SameConfigs
      /\ job'[t].vm = job[t].vm /\ job'[t].at = step
      /\ \A u \in Starters : u # t => job'[u] = job[u]
  BY <1>1, OnlyJob
<1>3. \A u \in Starters : /\ job'[u].vm = job[u].vm
                          /\ job'[u].at = "launch" => job[u].at = "launch"
  BY <1>2
<1>4. LinkInv'
  BY <1>2, <1>3, Basics, AllQuiet DEF IInv
<1>5. QED
  BY <1>2, <1>4 DEF IInv

LEMMA OpenStep == ASSUME IInv, NEW t \in Starters, Open(t) PROVE IInv'
<1>1. pc = "serving" /\ job[t].at # "rest"
  BY DEF Open
<1>2. CASE Crash
  BY <1>2, CrashStep
<1>3. CASE Fails(t)
  BY <1>1, <1>3, FailsStep DEF Fails
<1>4. CASE Goto(t, "write") /\ UNCHANGED <<loading, pc, vms, links, broken, ending>>
  BY <1>1, <1>4, GoesOn
<1>5. QED
  BY <1>2, <1>3, <1>4 DEF Open

LEMMA CombineStep == ASSUME IInv, NEW t \in Starters, obc_combine_with(t) PROVE IInv'
<1>1. pc = "serving" /\ job[t].at # "rest" /\ UNCHANGED <<loading, pc, links, broken, ending>>
  BY DEF obc_combine_with
<1>2. CASE Goto(t, "link") /\ UNCHANGED vms
  BY <1>1, <1>2, GoesOn
<1>3. CASE Gives(t) /\ vms' = [vms EXCEPT ![job[t].vm].vmstate = "FAILED"]
  BY <1>1, <1>3, FailsStep
<1>4. QED
  BY <1>2, <1>3 DEF obc_combine_with

LEMMA LaunchStep == ASSUME IInv, NEW t \in Starters, Launch(t) PROVE IInv'
<1> DEFINE i == job[t].vm
<1>1. /\ pc = "serving" /\ job[t].at = "launch" /\ Gives(t)
      /\ UNCHANGED <<loading, pc, files, links, broken, ending>>
  BY DEF Launch
<1>2. i \in DOMAIN vms
  BY <1>1, Basics DEF IInv
<1>3. \/ UNCHANGED vms
      \/ vms' = [vms EXCEPT ![i].vmstate = "RUNNING", ![i].process = "exec"]
      \/ vms' = [vms EXCEPT ![i].vmstate = "FAILED"]
  BY DEF Launch
<1>4. CASE vms' = [vms EXCEPT ![i].vmstate = "FAILED"]
  BY <1>1, <1>4, FailsStep
<1>5. CASE UNCHANGED vms
  <2>1. Len(vms') = Len(vms) /\ Machines' /\ SameConfigs
    BY <1>5 DEF IInv, TypeInv, Machines, SameConfigs
  <2>2. /\ Jobs' /\ job'[t].vm = 0
        /\ \A u \in Starters : u # t => job'[u] = job[u]
    BY <1>1, <2>1, JobMoves DEF IInv
  <2>3. TypeInv'
    BY <1>1, <2>1, <2>2, ServingType DEF IInv, TypeInv
  <2>4. \A u \in Starters : job'[u].vm # 0 => job'[u].vm = job[u].vm /\ job'[u].at = job[u].at
    BY <2>2
  <2>5. LinkInv'
    BY <1>1, <1>5, <2>1, <2>4, Basics, AllQuiet DEF IInv
  <2>6. QED
    BY <2>3, <2>5 DEF IInv
<1>6. CASE vms' = [vms EXCEPT ![i].vmstate = "RUNNING", ![i].process = "exec"]
  <2>0. i = job[t].vm
    OBVIOUS
  <2> HIDE DEF i
  <2>1. Changes(i, "RUNNING", "exec", vms[i].boot, vms[i].alone)
    BY <1>2, <1>6, AMachineChanges DEF IInv, TypeInv
  <2>2. "RUNNING" \in VMStates /\ "exec" \in Processes /\ vms[i].alone \in BOOLEAN
    BY <1>2, Basics DEF IInv, VMStates, Processes
  <2>3. /\ Machines' /\ Len(vms') = Len(vms) /\ DOMAIN vms' = DOMAIN vms
        /\ vms'[i].process = "exec" /\ vms'[i].alone = vms[i].alone
        /\ \A k \in DOMAIN vms : k # i => vms'[k] = vms[k]
        /\ \A k \in DOMAIN vms : vms'[k].config = vms[k].config
    BY <1>2, <2>1, <2>2, OneMachine DEF IInv, TypeInv
  <2>4. /\ Jobs' /\ job'[t].vm = 0
        /\ \A u \in Starters : u # t => job'[u] = job[u]
    BY <1>1, <2>3, JobMoves DEF IInv
  <2>5. TypeInv'
    BY <1>1, <2>3, <2>4, ServingType DEF IInv, TypeInv
  <2>6. SameConfigs /\ \A k : OthersRemoved(k)
    BY <1>1, <2>3 DEF SameConfigs, OthersRemoved
  <2>7. ASSUME NEW k \in DOMAIN vms, vms'[k].alone
        PROVE  OneStart(k)' /\ NoProcess(k)' /\ LinkedIfUp(k)'
    <3>1. CASE k # i
      <4>1. \A u \in Starters : job'[u].vm = k => /\ job[u].vm = k
                                                  /\ job'[u].at = "launch" => job[u].at = "launch"
        BY <2>4, Basics DEF IInv
      <4>2. QED
        BY <2>3, <2>6, <2>7, <3>1, <4>1, Quiet DEF IInv
    <3>2. CASE k = i
      <4>1. OneStart(k) /\ LinkedIfUp(k) /\ vms[k].alone
        BY <1>2, <2>3, <2>7, <3>2 DEF IInv, LinkInv
      <4>2. Linked(k)
        BY <1>1, <2>0, <3>2, <4>1 DEF LinkedIfUp
      <4>3. Linked(k)'
        BY <1>2, <2>6, <4>2, LinkedStays
      <4>4. \A u \in Starters : job'[u].vm # k
        BY <1>2, <2>0, <2>4, <3>2, <4>1, Basics DEF OneStart, IInv
      <4>5. QED
        BY <4>3, <4>4 DEF OneStart, NoProcess, LinkedIfUp
    <3>3. QED
      BY <3>1, <3>2
  <2>8. QED
    BY <2>3, <2>5, <2>7 DEF IInv, LinkInv
<1>7. QED
  BY <1>3, <1>4, <1>5, <1>6

(* What bwv_linkconsoles leaves: the links of the consoles it got past, and those of other paths. *)
LEMMA LinkStep == ASSUME IInv, NEW t \in Starters, bwv_linkconsoles(t) PROVE IInv'
<1>1. pc = "serving" /\ job[t].at = "link"
  BY DEF bwv_linkconsoles
<1>2. PICK i \in DOMAIN vms : i = job[t].vm
  BY <1>1, Basics DEF IInv
<1> DEFINE bc == vms[job[t].vm].config
           seen == Seen(bc)
           last == LinkEnds(bc)
           path(k) == Path(bc, seen[k])
           kept(to) == {l \in links : \A k \in 1 .. to : l.path # path(k)}
           new(n, to) == {[path |-> path(k), target |-> Peer(seen[k].backend)] :
                             k \in {k \in 1 .. (n - 1) : \A j \in (k + 1) .. to : path(j) # path(k)}}
           Done(n, to) == /\ n <= Len(seen) => seen[n].backend # NULL /\ seen[n].name # NULL
                          /\ links' = kept(to) \cup new(n, to)
                          /\ broken' = {c \in broken : c[1] # job[t].vm} \cup {<<job[t].vm, k>> : k \in {n} \ {last}}
                          /\ Goto(t, "launch")
                          /\ UNCHANGED <<loading, pc, vms, files, ending>>
<1>3. CASE Crash
  BY <1>3, CrashStep
<1>4. ASSUME NEW n \in (Unlinkable \cap 1 .. last) \cup {last}, NEW to \in {n - 1, n} \cap 0 .. Len(seen), Done(n, to)
      PROVE  IInv'
  <2> DEFINE gone == {l \in links : \E k \in 1 .. to : l.path = path(k)}
             made == new(n, to)
  <2>0. /\ n <= Len(seen) => seen[n].backend # NULL /\ seen[n].name # NULL
        /\ links' = (links \ gone) \cup made
        /\ \A c \in broken : c[1] # i => c \in broken'
        /\ n # last => <<i, n>> \in broken'
        /\ Goto(t, "launch")
        /\ UNCHANGED <<loading, pc, vms, files, ending>>
    BY <1>2, <1>4
  <2>1. IsSeq(bc.consoles) /\ bc = vms[i].config
    BY <1>2, Basics DEF IInv
  <2>8. Len(seen) \in Nat /\ DOMAIN seen = 1 .. Len(seen) /\ n \in Nat /\ n >= 1 /\ n <= Len(seen) + 1
    <3>1. Len(seen) \in Nat /\ DOMAIN seen = 1 .. Len(seen) /\ last \in 1 .. Len(seen) + 1
      BY <2>1, SeenIs, LinkEndsIs
    <3> HIDE DEF seen, last
    <3>2. QED
      BY <3>1
  <2>2. last <= Len(seen) => seen[last].backend \in {NULL, ""} \/ seen[last].name = NULL
    BY <2>1, LinkEndsIs
  <2>3. n <= Len(seen) => seen[n].backend # NULL /\ seen[n].name # NULL
    BY <2>0
  <2> DEFINE N == Len(seen)
  <2>9. N \in Nat /\ DOMAIN seen = 1 .. N /\ n \in Nat /\ n >= 1 /\ n <= N + 1
    BY <2>8
  <2>10. seen = Seen(vms[i].config) /\ \A k : path(k) = ConsolePath(i, k)
    BY <2>1 DEF ConsolePath
  <2>11. to \in 0 .. N /\ to \in {n - 1, n}
    OBVIOUS
  <2>12. n < last \/ n = last
    <3>1. last \in 1 .. Len(seen) + 1 /\ Len(seen) \in Nat
      BY <2>1, SeenIs, LinkEndsIs
    <3> HIDE DEF seen, last
    <3>2. QED
      BY <3>1
  <2> HIDE DEF seen, last, bc
  <2> HIDE DEF N
  <2>5. /\ TypeInv' /\ SameConfigs
        /\ job'[t].vm = i /\ job'[t].at = "launch"
        /\ \A u \in Starters : u # t => job'[u] = job[u]
    <3>1. "launch" \in Steps \ {"rest"} /\ UNCHANGED <<loading, pc, vms, ending>> /\ Goto(t, "launch")
      BY <2>0 DEF Steps
    <3>2. QED
      BY <1>1, <1>2, <3>1, OnlyJob
  <2>6. ASSUME NEW k \in DOMAIN vms, vms'[k].alone
        PROVE  OneStart(k)' /\ NoProcess(k)' /\ LinkedIfUp(k)'
    <3>1. vms' = vms
      BY <2>0
    <3>2. CASE k # i
      <4>1. \A l \in links \ links' : \E m \in 1 .. to : l.path = path(m)
        BY <2>0
      <4>2. OthersRemoved(k)
        <5>1. \A m \in 1 .. to : m \in DOMAIN seen
          BY <2>9, <2>11
        <5>2. \A m : <<k, m>> \in broken => <<k, m>> \in broken'
          BY <2>0, <3>2
        <5>3. QED
          BY <2>10, <3>2, <4>1, <5>1, <5>2 DEF OthersRemoved
      <4>3. QED
        BY <2>5, <2>6, <3>1, <3>2, <4>2, Quiet DEF IInv
    <3>3. CASE k = i
      <4>1. OneStart(k) /\ NoProcess(k)
        BY <2>6, <3>1 DEF IInv, LinkInv
      <4>2. \A u \in Starters : job'[u].vm = job[u].vm
        BY <1>2, <2>5
      <4>3. Linked(k)'
        <5>1. ASSUME NEW m \in DOMAIN seen
              PROVE  \/ \E o \in 1 .. m : seen[o].backend \in {NULL, ""} \/ <<i, o>> \in broken'
                     \/ \E j \in DOMAIN vms : \E o \in DOMAIN Seen(vms[j].config) :
                           <<j, o>> # <<i, m>> /\ ConsolePath(j, o) = ConsolePath(i, m)
                     \/ \E l \in links' : l.path = path(m) /\ OtherEnd(seen[m].backend, l.target)
          <6>0. m \in Nat /\ m >= 1 /\ m <= N
            BY <2>9, <5>1
          <6>1. CASE m >= n
            <7>1. n <= N /\ n \in 1 .. m
              BY <2>9, <6>0, <6>1
            <7>2. CASE n = last
              <8>1. seen[n].backend = ""
                BY <2>2, <2>3, <7>1, <7>2 DEF N
              <8>2. QED
                BY <7>1, <8>1
            <7>3. CASE n # last
              BY <2>0, <7>1, <7>3
            <7>4. QED
              BY <7>2, <7>3
          <6>2. CASE \E j \in (m + 1) .. to : path(j) = path(m)
            <7>1. PICK j \in (m + 1) .. to : path(j) = path(m)
              BY <6>2
            <7>2. j \in DOMAIN seen /\ j # m
              BY <2>9, <2>11, <6>0
            <7>3. ConsolePath(i, j) = path(j) /\ ConsolePath(i, m) = path(m)
              BY <2>10
            <7>4. j \in DOMAIN Seen(vms[i].config) /\ <<i, j>> # <<i, m>>
              BY <2>10, <7>2
            <7> HIDE DEF path
            <7>5. QED
              BY <7>1, <7>3, <7>4
          <6>3. CASE m < n /\ \A j \in (m + 1) .. to : path(j) # path(m)
            <7>1. m \in 1 .. n - 1
              BY <2>9, <6>0, <6>3
            <7> DEFINE l == [path |-> path(m), target |-> Peer(seen[m].backend)]
            <7>2. l \in made
              BY <6>3, <7>1
            <7>3. l \in links'
              BY <2>0, <7>2
            <7>4. OtherEnd(seen[m].backend, l.target) /\ l.path = path(m)
              BY PeerIs
            <7>6. \E k_ \in links' : k_.path = path(m) /\ OtherEnd(seen[m].backend, k_.target)
              <8> HIDE DEF l, path
              <8>1. QED
                BY <7>3, <7>4
            <7>5. QED
              BY <7>6
          <6>4. m >= n \/ m < n
            BY <2>9, <6>0
          <6> HIDE DEF path
          <6>5. QED
            BY <6>1, <6>2, <6>3, <6>4
        <5>2. \A m \in DOMAIN seen : ConsolePath(k, m) = path(m)
          BY <2>10, <3>3
        <5>3. \A j, o : ConsolePath(j, o)' = ConsolePath(j, o)
          BY <3>1 DEF ConsolePath
        <5>4. seen = Seen(vms'[k].config)
          BY <2>10, <3>1, <3>3
        <5>5. ASSUME NEW m \in DOMAIN seen
              PROVE  \/ \E o \in 1 .. m : seen[o].backend \in {NULL, ""} \/ <<k, o>> \in broken'
                     \/ \E j \in DOMAIN vms' : \E o \in DOMAIN Seen(vms'[j].config) :
                           <<j, o>> # <<k, m>> /\ ConsolePath(j, o)' = ConsolePath(k, m)'
                     \/ \E l \in links' : l.path = ConsolePath(k, m)' /\ OtherEnd(seen[m].backend, l.target)
          <6> HIDE DEF path
          <6>1. ConsolePath(k, m)' = ConsolePath(i, m) /\ ConsolePath(k, m)' = path(m)
            BY <3>3, <5>2, <5>3
          <6>2. QED
            BY <3>1, <3>3, <5>1, <5>3, <6>1
        <5>6. QED
          <6> HIDE DEF seen
          <6>1. QED
            BY <5>4, <5>5 DEF Linked
      <4>4. OneStart(k)' /\ NoProcess(k)'
        BY <3>1, <4>1, <4>2 DEF OneStart, NoProcess
      <4>5. QED
        BY <4>3, <4>4 DEF LinkedIfUp
    <3>4. QED
      BY <3>2, <3>3
  <2>7. QED
    BY <2>5, <2>6 DEF IInv, LinkInv, SameConfigs
<1>5. Crash \/ \E n \in (Unlinkable \cap 1 .. last) \cup {last} : \E to \in {n - 1, n} \cap 0 .. Len(seen) : Done(n, to)
  BY DEF bwv_linkconsoles
<1>6. QED
  BY <1>3, <1>4, <1>5

LEMMA Initially == Init => IInv
BY InitType DEF IInv, LinkInv, Init

LEMMA Stutters == IInv /\ UNCHANGED vars => IInv'
<1>1. SUFFICES ASSUME IInv, UNCHANGED vars PROVE IInv'
  OBVIOUS
<1>2. TypeInv'
  BY <1>1 DEF IInv, vars, loading, TypeInv, Reading, Machines, Jobs, Loads
<1>3. SameConfigs /\ links \subseteq links' /\ broken \subseteq broken' /\ vms' = vms /\ job' = job /\ 0 \notin DOMAIN vms
  BY <1>1, Basics DEF vars, SameConfigs, IInv
<1>4. LinkInv'
  BY <1>1, <1>3, AllQuiet DEF IInv
<1>5. QED
  BY <1>2, <1>4 DEF IInv

LEMMA IInvStep == IInv /\ [Next]_vars => IInv'
<1>1. SUFFICES ASSUME IInv, [Next]_vars PROVE IInv'
  OBVIOUS
<1>2. ASSUME NEW t \in Starters, StartStep(t) PROVE IInv'
  BY <1>1, <1>2, BeginStep, OpenStep, CombineStep, LinkStep, LaunchStep DEF StartStep
<1>3. ASSUME NEW i \in DOMAIN vms, Boots(i) \/ Ends(i) \/ ResetFail(i) PROVE IInv'
  BY <1>1, <1>3, BootsStep, EndsStep, ResetFailStep
<1>4. QED
  BY <1>1, <1>2, <1>3, LoadingStep, OnExitStep, Stutters DEF Next

(***************************************************************************)
(* Whatever is written in the directory, each number of a configuration    *)
(* fits the width of its field (bup_generic_parsefromucl, bc_parsefromucl), *)
(* and the jobs, machines and links of the daemon that serves have their   *)
(* types.                                                                  *)
(***************************************************************************)
THEOREM ConfigurationIsTyped == Spec => []TypeOK
<1>1. IInv => TypeOK
  <2>1. SUFFICES ASSUME TypeInv PROVE TypeOK
    BY DEF IInv
  <2>2. \A i \in DOMAIN configs :
          /\ {configs[i].numcpus, configs[i].sockets, configs[i].cores} \subseteq 0..(2^16 - 1)
          /\ {configs[i].autostart, configs[i].wire_memory} \subseteq BOOLEAN
    BY <2>1 DEF TypeInv, Reading, Proper, Word
  <2>3. \A i \in DOMAIN vms : /\ vms[i].vmstate \in {"INIT", "RUNNING", "STOPPED", "FAILED"}
                             /\ vms[i].process \in {"none", "exec", "up"}
    BY <2>1, Basics DEF VMStates, Processes
  <2>4. job \in [Starters -> [at : {"rest", "open", "write", "link", "launch"}, vm : 0..Len(vms)]]
    BY <2>1 DEF TypeInv, Jobs, Steps
  <2>5. QED
    BY <2>1, <2>2, <2>3, <2>4 DEF TypeOK, TypeInv, Jobs
<1>2. QED
  BY <1>1, Initially, IInvStep, PTL DEF Spec

(***************************************************************************)
(* However many threads start machines at the same time, and whatever      *)
(* links cannot be made or removed, bwv_linkconsoles leaves each console   *)
(* of a running machine before the first that failed reachable by its name.*)
(***************************************************************************)
THEOREM ConsolesReachTheirPeers == Spec => []ConsolesLinked
<1>1. IInv => ConsolesLinked
  BY DEF IInv, LinkInv, LinkedIfUp, ConsolesLinked
<1>2. QED
  BY <1>1, Initially, IInvStep, PTL DEF Spec

----------------------------------------------------------------------------
(***************************************************************************)
(* FlattenSeq, which is defined by recursion: that it is a sequence, how   *)
(* long it is and what is where follows from its recursive equation by the *)
(* well-foundedness of < on the numbers.                                   *)
(***************************************************************************)

(* Induction, for a set of numbers. *)
LEMMA AllOfNat ==
    ASSUME NEW S \in SUBSET Nat, 0 \in S, \A n \in S : n + 1 \in S
    PROVE  S = Nat
<1>1. SUFFICES ASSUME S # Nat PROVE FALSE
  OBVIOUS
<1> DEFINE Out == Nat \ S
<1>2. Out \in SUBSET Nat /\ Out # {}
  BY <1>1
<1> DEFINE m == Min(Out)
<1>3. m \in Out /\ \A i \in Out : m <= i
  BY <1>2, MinIs
<1> HIDE DEF m
<1>4. m \in Nat /\ m # 0 /\ m \notin S
  BY <1>3
<1>5. m - 1 \in Nat /\ m - 1 \in S
  BY <1>3, <1>4
<1>6. (m - 1) + 1 \in S
  BY <1>5
<1>7. QED
  BY <1>4, <1>6

Flattens(f, n, s) == f = [i \in 1 .. n |-> IF i = 1 THEN s[i] ELSE f[i - 1] \o s[i]]

LEMMA FlattenExists == \A s : \A n \in Nat : \E f : Flattens(f, n, s)
<1>1. TAKE s
<1> DEFINE S == {n \in Nat : \E f : Flattens(f, n, s)}
<1>2. 0 \in S
  <2>1. Flattens([i \in 1 .. 0 |-> i], 0, s)
    BY DEF Flattens
  <2>2. QED
    BY <2>1
<1>3. ASSUME NEW n \in S PROVE n + 1 \in S
  <2>1. PICK f : Flattens(f, n, s)
    OBVIOUS
  <2> DEFINE g == [i \in 1 .. n + 1 |-> IF i <= n THEN f[i] ELSE IF i = 1 THEN s[i] ELSE f[i - 1] \o s[i]]
  <2>2. \A i \in 1 .. n : f[i] = IF i = 1 THEN s[i] ELSE f[i - 1] \o s[i]
    BY <2>1 DEF Flattens
  <2>3. DOMAIN g = 1 .. n + 1 /\ g = [i \in 1 .. n + 1 |-> g[i]]
    OBVIOUS
  <2>4. ASSUME NEW i \in 1 .. n + 1 PROVE g[i] = IF i = 1 THEN s[i] ELSE g[i - 1] \o s[i]
    <3>1. n \in Nat /\ i \in Nat
      OBVIOUS
    <3>2. CASE i = 1
      BY <2>2, <3>1, <3>2
    <3>3. CASE i # 1
      <4>1. i - 1 \in 1 .. n /\ g[i - 1] = f[i - 1]
        BY <3>1, <3>3
      <4>2. g[i] = f[i - 1] \o s[i]
        <5>1. CASE i <= n
          <6>1. g[i] = f[i] /\ i \in 1 .. n
            BY <3>1, <5>1
          <6>2. QED
            BY <2>2, <3>3, <6>1
        <5>2. CASE ~ (i <= n)
          BY <3>1, <3>3, <5>2
        <5>3. QED
          BY <5>1, <5>2
      <4>3. QED
        BY <3>3, <4>1, <4>2
    <3>4. QED
      BY <3>2, <3>3
  <2> HIDE DEF g
  <2>5. Flattens(g, n + 1, s)
    BY <2>3, <2>4 DEF Flattens
  <2>6. QED
    BY <2>5
<1> HIDE DEF S
<1>4. S = Nat
  <2>1. S \in SUBSET Nat
    BY DEF S
  <2>2. QED
    BY <1>2, <1>3, <2>1, AllOfNat
<1>5. QED
  BY <1>4 DEF S

SameUpTo(n, s, t) == \A i \in 1 .. n : s[i] = t[i]

LEMMA FlattenUnique ==
    \A n, m \in Nat : n <= m =>
        \A s, t, f, g :
            SameUpTo(n, s, t) /\ Flattens(f, n, s) /\ Flattens(g, m, t) => SameUpTo(n, f, g)
<1> TAKE n, m \in Nat
<1> HAVE n <= m
<1> TAKE s, t, f, g
<1> HAVE SameUpTo(n, s, t) /\ Flattens(f, n, s) /\ Flattens(g, m, t)
<1> DEFINE S == {i \in Nat : i \in 1 .. n => f[i] = g[i]}
<1>1. 0 \in S
  OBVIOUS
<1>2. ASSUME NEW i \in S PROVE i + 1 \in S
  <2>1. SUFFICES ASSUME i + 1 \in 1 .. n PROVE f[i + 1] = g[i + 1]
    OBVIOUS
  <2>2. i + 1 \in 1 .. m /\ i \in Nat
    BY <2>1
  <2>3. /\ f[i + 1] = IF i + 1 = 1 THEN s[i + 1] ELSE f[(i + 1) - 1] \o s[i + 1]
        /\ g[i + 1] = IF i + 1 = 1 THEN t[i + 1] ELSE g[(i + 1) - 1] \o t[i + 1]
    BY <2>1, <2>2 DEF Flattens
  <2>4. (i + 1) - 1 = i /\ s[i + 1] = t[i + 1] /\ (i + 1 # 1 => f[i] = g[i])
    BY <2>1, <2>2 DEF SameUpTo
  <2>5. QED
    BY <2>3, <2>4
<1> HIDE DEF S
<1>3. S = Nat
  <2>1. S \in SUBSET Nat
    BY DEF S
  <2>2. QED
    BY <1>1, <1>2, <2>1, AllOfNat
<1>4. QED
  BY <1>3 DEF S, SameUpTo

LEMMA FlattenIs ==
    ASSUME NEW s, IsSeq(s), Len(s) # 0
    PROVE  \E f : Flattens(f, Len(s), s) /\ FlattenSeq(s) = f[Len(s)]
<1> DEFINE flatten == CHOOSE f : Flattens(f, Len(s), s)
<1>1. Len(s) \in Nat
  BY IsSeqFacts
<1>2. Flattens(flatten, Len(s), s)
  BY <1>1, FlattenExists
<1>3. FlattenSeq(s) = flatten[Len(s)]
  BY DEF FlattenSeq, Flattens
<1>4. QED
  BY <1>2, <1>3

(* One sequence more. *)
LEMMA FlattenMore ==
    ASSUME NEW n \in Nat, NEW s, NEW t, s = [i \in 1 .. n |-> s[i]], t = [i \in 1 .. n + 1 |-> t[i]],
           \A i \in 1 .. n : s[i] = t[i]
    PROVE  FlattenSeq(t) = IF n = 0 THEN t[n + 1] ELSE FlattenSeq(s) \o t[n + 1]
<1>1. IsSeq(s) /\ Len(s) = n /\ IsSeq(t) /\ Len(t) = n + 1
  BY SeqIs
<1>2. PICK g : Flattens(g, n + 1, t) /\ FlattenSeq(t) = g[n + 1]
  <2>1. IsSeq(t) /\ Len(t) # 0
    BY <1>1
  <2>2. \E g : Flattens(g, Len(t), t) /\ FlattenSeq(t) = g[Len(t)]
    BY <2>1, FlattenIs
  <2>3. QED
    BY <1>1, <2>2
<1>3. g[n + 1] = IF n + 1 = 1 THEN t[n + 1] ELSE g[(n + 1) - 1] \o t[n + 1]
  <2>1. n + 1 \in 1 .. n + 1
    OBVIOUS
  <2>2. QED
    BY <1>2, <2>1 DEF Flattens
<1>4. CASE n = 0
  BY <1>2, <1>3, <1>4
<1>5. CASE n # 0
  <2>1. PICK f : Flattens(f, n, s) /\ FlattenSeq(s) = f[n]
    BY <1>1, <1>5, FlattenIs
  <2>2. \A i \in 1 .. n : f[i] = g[i]
    <3>1. n + 1 \in Nat /\ n <= n + 1
      OBVIOUS
    <3>2. SameUpTo(n, s, t)
      BY DEF SameUpTo
    <3>3. SameUpTo(n, f, g)
      BY <1>2, <2>1, <3>1, <3>2, FlattenUnique
    <3>4. QED
      BY <3>3 DEF SameUpTo
  <2>3. f[n] = g[n] /\ (n + 1) - 1 = n /\ n + 1 # 1
    BY <1>5, <2>2
  <2>4. QED
    BY <1>2, <1>3, <1>5, <2>1, <2>3
<1>6. QED
  BY <1>4, <1>5

----------------------------------------------------------------------------
(***************************************************************************)
(* The names.  What a block says is the name of the configuration it       *)
(* becomes, and what was read before is kept when another file is read.    *)
(***************************************************************************)

(* What a block says, and the configuration it becomes. *)
Said(b, key, type) ==
    LET obj == b.block.value
    IN  IF key \in DOMAIN obj /\ type \in DOMAIN obj[key] THEN obj[key][type] ELSE NULL
NameOf(b) == IF Said(b, "name", "string") = NULL THEN b.block.key ELSE Said(b, "name", "string")
(* What a configuration keeps of its block: a number that does not fit is not kept, nor are cores. *)
KeepsNumber(bc, b, key) ==
    LET n == Said(b, key, "int")
    IN  \/ n # NULL /\ n \notin 0 .. Largest(key)
        \/ bc[key] = IF n = NULL THEN 0 ELSE n
KeepsFlag(bc, b, key) == bc[key] = (Said(b, key, "boolean") \notin {NULL, FALSE})
Keeps(bc, b) ==
    /\ KeepsNumber(bc, b, "memory") /\ KeepsNumber(bc, b, "numcpus") /\ KeepsNumber(bc, b, "sockets")
    /\ Said(b, "cores", "string") = NULL => bc.cores = 0
    /\ KeepsFlag(bc, b, "vmexit_on_halt") /\ KeepsFlag(bc, b, "generate_acpi_tables")
    /\ bc.bootrom = Said(b, "bootrom", "string")
    /\ bc.hostbridge = Said(b, "hostbridge", "string")
    /\ bc.consoles # <<>> => Said(b, "consoles", "list") # NULL

Fits(bc, b) == bc.name = NameOf(b) /\ bc.backing_filepath = b.d_name /\ Keeps(bc, b)

FileOf(d) == IF Readable(d) THEN [b \in DOMAIN d.config |-> [block |-> d.config[b], d_name |-> d.d_name]]
             ELSE <<>>

LEMMA NameSaidIs == \A i : NameSaid(i) = NameOf(Blocks[i])
BY DEF NameSaid, NameOf, Says, Said

LEMMA NumberIs ==
    ASSUME NEW key, NEW bits, (key = "memory" /\ bits = 32) \/ (key \in {"numcpus", "sockets"} /\ bits = 16),
           NEW n \in Int, 0 <= n, n <= Largest(key)
    PROVE  Unsigned(n, bits) = n
<1>1. n \in Int /\ 0 <= n /\ n <= Largest(key)
  OBVIOUS
<1>2. CASE key = "memory" /\ bits = 32
  <2>1. n <= 2147483647
    BY <1>1, <1>2, SMT DEF Largest
  <2>2. bits > 31
    BY <1>2
  <2>3. QED
    BY <1>1, <2>1, <2>2, SMT DEF Unsigned
<1>3. CASE key \in {"numcpus", "sockets"} /\ bits = 16
  <2>1. n <= 65535
    BY <1>1, <1>3, SMT DEF Largest
  <2>2. ~ (bits > 31)
    BY <1>3
  <2>3. Unsigned(n, bits) = n % 2 ^ 16
    BY <1>1, <1>3, <2>2, SMT DEF Unsigned
  <2>4. 2 ^ 16 = 65536
    BY SMT
  <2>5. QED
    BY <1>1, <2>1, <2>3, <2>4, SMT
<1>4. QED
  BY <1>2, <1>3

LEMMA ConvertedSays ==
    ASSUME NEW obj, IsObject(obj), NEW f \in DOMAIN obj
    PROVE  LET v == obj[f] IN
           /\ Converted("DYNAMICSTRING", v) = IF "string" \in DOMAIN v THEN v.string ELSE NULL
           /\ Converted("UINT16", v) = Unsigned(IF "int" \in DOMAIN v THEN v.int ELSE 0, 16)
           /\ Converted("UINT32", v) = Unsigned(IF "int" \in DOMAIN v THEN v.int ELSE 0, 32)
           /\ Converted("BOOLEAN", v) = ("boolean" \in DOMAIN v /\ v.boolean = TRUE)
<1> DEFINE v == obj[f]
<1>1. Converted("DYNAMICSTRING", v) = ucl_object_tostring(v)
  BY DEF Converted
<1>2. Converted("UINT16", v) = Unsigned(ucl_object_toint(v), 16)
  BY DEF Converted
<1>3. Converted("UINT32", v) = Unsigned(ucl_object_toint(v), 32)
  BY DEF Converted
<1>4. Converted("BOOLEAN", v) = ucl_object_toboolean(v)
  BY DEF Converted
<1>5. ucl_object_toboolean(v) = ("boolean" \in DOMAIN v /\ v.boolean = TRUE)
  <2>1. "boolean" \in DOMAIN v => v.boolean \in BOOLEAN
    BY DEF IsObject
  <2> HIDE DEF v
  <2>2. QED
    BY <2>1, Zenon DEF ucl_object_toboolean
<1> HIDE DEF v
<1>6. Converted("BOOLEAN", v) = ("boolean" \in DOMAIN v /\ v.boolean = TRUE)
  BY <1>4, <1>5, Zenon
<1>7. QED
  BY <1>1, <1>2, <1>3, <1>6 DEF v, ucl_object_tostring, ucl_object_toint

LEMMA MoreMapping ==
    LET map == bc_nvlist2config IN
    /\ "memory" \in DOMAIN map /\ map["memory"] = "UINT32"
    /\ "numcpus" \in DOMAIN map /\ map["numcpus"] = "UINT16"
    /\ "sockets" \in DOMAIN map /\ map["sockets"] = "UINT16"
    /\ "cores" \in DOMAIN map /\ map["cores"] = "DYNAMICSTRING"
    /\ "bootrom" \in DOMAIN map /\ map["bootrom"] = "DYNAMICSTRING"
    /\ "hostbridge" \in DOMAIN map /\ map["hostbridge"] = "DYNAMICSTRING"
    /\ "vmexit_on_halt" \in DOMAIN map /\ map["vmexit_on_halt"] = "BOOLEAN"
    /\ "generate_acpi_tables" \in DOMAIN map /\ map["generate_acpi_tables"] = "BOOLEAN"
    /\ "consoles" \notin DOMAIN map /\ "backing_filepath" \notin DOMAIN map
BY DEF bc_nvlist2config

LEMMA ParsedKeeps ==
    ASSUME NEW block, IsObject(block.value), NEW path, NEW address
    PROVE  Keeps(ParsedBlock(block, path, address), [block |-> block, d_name |-> path])
<1> DEFINE map == bc_nvlist2config
           new == NewConfig(block.key, path)
           obj == block.value
           p == bup_generic_parsefromucl(map, new, obj)
           cores == IF p.cores = NULL THEN 0 ELSE address % 2 ^ 16
           consoles == IF "consoles" \in DOMAIN obj THEN buf_parse_console_list(ucl_list(obj["consoles"]))
                       ELSE p.consoles
           bc == ParsedBlock(block, path, address)
           b == [block |-> block, d_name |-> path]
           said(key, type) == IF key \in DOMAIN obj /\ type \in DOMAIN obj[key] THEN obj[key][type] ELSE NULL
<1>1. bc = [p EXCEPT !.cores = cores, !.consoles = consoles]
  BY DEF ParsedBlock, bc_parsefromucl
<1>2. /\ DOMAIN new = DOMAIN map \cup {"consoles", "backing_filepath"}
      /\ new.consoles = <<>>
      /\ \A f \in DOMAIN map : f \notin {"name", "consoles", "backing_filepath"} => new[f] = Zero(map[f])
  <2> HIDE DEF map
  <2>1. new = [f \in DOMAIN map \cup {"consoles", "backing_filepath"} |->
            CASE f = "name" -> block.key [] f = "consoles" -> <<>> [] f = "backing_filepath" -> path
              [] OTHER -> Zero(map[f])]
    BY DEF NewConfig, map
  <2>2. QED
    BY <2>1
<1>3. \A key, type : Said(b, key, type) = said(key, type)
  BY DEF Said
<1>4. IsObject(obj)
  OBVIOUS
<1> HIDE DEF bc, new, b, said
<1>5. /\ DOMAIN p = DOMAIN new /\ p = [f \in DOMAIN new |-> p[f]]
      /\ \A f \in DOMAIN new :
                 /\ f \in DOMAIN map /\ f \in DOMAIN obj => p[f] = Converted(map[f], obj[f])
                 /\ f \notin DOMAIN map \/ f \notin DOMAIN obj => p[f] = new[f]
  BY GenericIs
<1> HIDE DEF p, obj
<1>6. /\ bc.cores = cores /\ bc.consoles = consoles
      /\ \A f \in DOMAIN map : f \notin {"cores", "consoles"} => bc[f] = p[f]
  <2> HIDE DEF cores, consoles
  <2>1. "cores" \in DOMAIN p /\ "consoles" \in DOMAIN p
    BY <1>2, <1>5, MoreMapping
  <2> HIDE DEF map
  <2>2. \A f \in DOMAIN map : f \in DOMAIN p
    BY <1>2, <1>5
  <2>3. QED
    BY <1>1, <2>1, <2>2
<1>7. ASSUME NEW f \in DOMAIN map, f \notin {"name", "consoles", "backing_filepath"}
      PROVE  p[f] = IF f \in DOMAIN obj THEN Converted(map[f], obj[f]) ELSE Zero(map[f])
  <2> HIDE DEF map
  <2>1. QED
    BY <1>2, <1>5, <1>7
<1> HIDE DEF map
<1>8. ASSUME NEW f \in DOMAIN map, map[f] = "DYNAMICSTRING", f \notin {"name", "consoles", "backing_filepath"}
      PROVE  p[f] = said(f, "string")
  <2>1. Zero("DYNAMICSTRING") = NULL
    BY DEF Zero
  <2>2. QED
    BY <1>4, <1>7, <1>8, <2>1, ConvertedSays DEF said
<1>9. ASSUME NEW f \in {"memory", "numcpus", "sockets"} PROVE KeepsNumber(bc, b, f)
  <2> DEFINE bits == IF f = "memory" THEN 32 ELSE 16
             n == said(f, "int")
  <2>1. f \in DOMAIN map /\ map[f] = IF f = "memory" THEN "UINT32" ELSE "UINT16"
    BY MoreMapping DEF map
  <2>2. Zero(map[f]) = 0
    BY <2>1 DEF Zero
  <2>3. bc[f] = p[f]
    BY <1>6, <2>1
  <2>4. (f = "memory" /\ bits = 32) \/ (f \in {"numcpus", "sockets"} /\ bits = 16)
    OBVIOUS
  <2>5. p[f] = IF f \in DOMAIN obj THEN Unsigned(IF "int" \in DOMAIN obj[f] THEN obj[f].int ELSE 0, bits) ELSE 0
    <3>1. f \notin {"name", "consoles", "backing_filepath"}
      OBVIOUS
    <3>2. p[f] = IF f \in DOMAIN obj THEN Converted(map[f], obj[f]) ELSE 0
      BY <1>7, <2>1, <2>2, <3>1
    <3>3. CASE f \in DOMAIN obj
      <4>1. Converted(map[f], obj[f]) = Unsigned(IF "int" \in DOMAIN obj[f] THEN obj[f].int ELSE 0, bits)
        BY <1>4, <2>1, <3>3, ConvertedSays
      <4>2. QED
        BY <3>2, <3>3, <4>1
    <3>4. CASE f \notin DOMAIN obj
      BY <3>2, <3>4
    <3>5. QED
      BY <3>3, <3>4
  <2> HIDE DEF bits
  <2>6. Largest(f) \in Int /\ 0 <= Largest(f)
    BY SMT DEF Largest
  <2> DEFINE largest == Largest(f)
  <2> HIDE DEF largest
  <2>13. \A k \in 0 .. largest : k \in Int /\ 0 <= k /\ k <= largest
    BY <2>6 DEF largest
  <2>7. \A k : k \in 0 .. largest => Unsigned(k, bits) = k
    BY <2>4, <2>13, NumberIs DEF largest
  <2>8. f \in DOMAIN obj /\ "int" \in DOMAIN obj[f] => n = obj[f].int /\ n # NULL
    BY <1>4 DEF IsObject, said
  <2>9. f \notin DOMAIN obj \/ "int" \notin DOMAIN obj[f] => n = NULL
    BY DEF said
  <2> HIDE DEF n
  <2>10. CASE f \in DOMAIN obj /\ "int" \in DOMAIN obj[f]
    <3>1. p[f] = Unsigned(n, bits) /\ n # NULL
      BY <2>5, <2>8, <2>10
    <3>2. n \notin 0 .. largest \/ p[f] = n
      BY <2>7, <3>1
    <3>3. QED
      BY <1>3, <2>3, <3>1, <3>2 DEF KeepsNumber, n, largest
  <2>11. CASE ~ (f \in DOMAIN obj /\ "int" \in DOMAIN obj[f])
    <3>3. 0 \in 0 .. largest
      BY <2>6 DEF largest
    <3>1. p[f] = 0 /\ n = NULL
      BY <2>5, <2>7, <2>9, <2>11, <3>3
    <3>2. QED
      BY <1>3, <2>3, <3>1 DEF KeepsNumber, n
  <2>12. QED
    BY <2>10, <2>11
<1>10. ASSUME NEW f \in {"vmexit_on_halt", "generate_acpi_tables"} PROVE KeepsFlag(bc, b, f)
  <2> DEFINE v == said(f, "boolean")
             there == f \in DOMAIN obj /\ "boolean" \in DOMAIN obj[f]
  <2>1. f \in DOMAIN map /\ map[f] = "BOOLEAN"
    BY MoreMapping DEF map
  <2>2. Zero(map[f]) = FALSE
    BY <2>1 DEF Zero
  <2>3. bc[f] = p[f]
    BY <1>6, <2>1
  <2>4. f \notin {"name", "consoles", "backing_filepath"}
    OBVIOUS
  <2>5. f \in DOMAIN obj => p[f] = ("boolean" \in DOMAIN obj[f] /\ obj[f].boolean = TRUE)
    <3>1. SUFFICES ASSUME f \in DOMAIN obj PROVE p[f] = ("boolean" \in DOMAIN obj[f] /\ obj[f].boolean = TRUE)
      OBVIOUS
    <3>2. p[f] = Converted("BOOLEAN", obj[f])
      BY <1>7, <2>1, <2>4, <3>1
    <3>3. Converted("BOOLEAN", obj[f]) = ("boolean" \in DOMAIN obj[f] /\ obj[f].boolean = TRUE)
      BY <1>4, <3>1, ConvertedSays, Zenon
    <3>4. QED
      BY <3>2, <3>3, Zenon
  <2>6. f \notin DOMAIN obj => p[f] = FALSE
    BY <1>7, <2>1, <2>2, <2>4
  <2>7. there => v = obj[f].boolean /\ v # NULL /\ v \in BOOLEAN
    BY <1>4, Zenon DEF IsObject, said
  <2>8. ~ there => v = NULL
    BY DEF said
  <2>9. p[f] = (v \notin {NULL, FALSE})
    <3>1. CASE there
      <4>1. p[f] = (obj[f].boolean = TRUE)
        BY <2>5, <3>1, Zenon
      <4>2. p[f] = (v = TRUE)
        BY <2>7, <3>1, <4>1, Zenon
      <4>3. (v = TRUE) = (v \notin {NULL, FALSE})
        BY <2>7, <3>1, Zenon
      <4>4. QED
        BY <4>2, <4>3, Zenon
    <3>2. CASE ~ there
      <4>1. p[f] = FALSE
        BY <2>5, <2>6, <3>2, Zenon
      <4>2. (v \notin {NULL, FALSE}) = FALSE
        BY <2>8, <3>2, Zenon
      <4>3. QED
        BY <4>1, <4>2, Zenon
    <3>3. QED
      BY <3>1, <3>2
  <2> HIDE DEF there
  <2>10. Said(b, f, "boolean") = v
    BY <1>3
  <2> HIDE DEF v
  <2>11. QED
    BY <2>3, <2>9, <2>10, Zenon DEF KeepsFlag
<1>11. /\ bc.bootrom = said("bootrom", "string")
       /\ bc.hostbridge = said("hostbridge", "string")
  <2>1. \A f \in {"bootrom", "hostbridge"} :
            f \in DOMAIN map /\ map[f] = "DYNAMICSTRING" /\ f \notin {"name", "consoles", "backing_filepath", "cores"}
    BY MoreMapping DEF map
  <2>2. \A f \in {"bootrom", "hostbridge"} : bc[f] = said(f, "string")
    BY <1>6, <1>8, <2>1
  <2>3. QED
    BY <2>2
<1>12. said("cores", "string") = NULL => bc.cores = 0
  <2>1. "cores" \in DOMAIN map /\ map["cores"] = "DYNAMICSTRING"
    BY MoreMapping DEF map
  <2>2. p["cores"] = said("cores", "string")
    BY <1>8, <2>1
  <2>3. QED
    BY <1>6, <2>2
<1>13. bc.consoles # <<>> => said("consoles", "list") # NULL
  <2>1. SUFFICES ASSUME consoles # <<>> PROVE said("consoles", "list") # NULL
    BY <1>6
  <2>2. p["consoles"] = <<>>
    <3>1. "consoles" \in DOMAIN new /\ "consoles" \notin DOMAIN map
      BY <1>2, MoreMapping DEF map
    <3>2. QED
      BY <1>2, <1>5, <3>1
  <2>3. "consoles" \in DOMAIN obj
    BY <2>1, <2>2
  <2>4. "list" \in DOMAIN obj["consoles"]
    <3>1. SUFFICES ASSUME "list" \notin DOMAIN obj["consoles"] PROVE consoles = <<>>
      BY <2>1
    <3>2. ucl_list(obj["consoles"]) = <<>>
      BY <3>1 DEF ucl_list
    <3>3. consoles = buf_parse_console_list(<<>>)
      BY <2>3, <3>2
    <3>4. buf_parse_console_list(<<>>) = Reverse([i \in DOMAIN <<>> |-> buf_parse_console(<<>>[i])])
                                         \/ buf_parse_console_list(<<>>) = <<>>
      BY DEF buf_parse_console_list
    <3>5. Reverse([i \in DOMAIN <<>> |-> buf_parse_console(<<>>[i])]) = <<>>
      <4> DEFINE e == [i \in DOMAIN <<>> |-> buf_parse_console(<<>>[i])]
      <4>1. e = <<>>
        BY EmptyIs
      <4>2. Reverse(<<>>) = <<>>
        BY EmptyIs DEF Reverse
      <4>3. QED
        BY <4>1, <4>2
    <3>6. QED
      BY <3>3, <3>4, <3>5
  <2>5. QED
    BY <1>4, <2>3, <2>4 DEF IsObject, said
<1>14. QED
  BY <1>3, <1>9, <1>10, <1>11, <1>12, <1>13 DEF Keeps, bc, b

LEMMA ParsedFits ==
    ASSUME NEW block, ~ Crashes(block), IsObject(block.value), NEW path, NEW address
    PROVE  Fits(ParsedBlock(block, path, address), [block |-> block, d_name |-> path])
<1> DEFINE new == NewConfig(block.key, path)
           obj == block.value
           p == bup_generic_parsefromucl(bc_nvlist2config, new, obj)
           bc == ParsedBlock(block, path, address)
<1>1. \E cores, consoles : bc = [p EXCEPT !.cores = cores, !.consoles = consoles]
  BY DEF ParsedBlock, bc_parsefromucl
<1>2. /\ DOMAIN new = DOMAIN bc_nvlist2config \cup {"consoles", "backing_filepath"}
      /\ new.name = block.key /\ new.backing_filepath = path
  BY NewConfigIs
<1> HIDE DEF bc, new
<1>3. /\ DOMAIN p = DOMAIN new /\ p = [f \in DOMAIN new |-> p[f]]
      /\ \A f \in DOMAIN new :
                 /\ f \in DOMAIN bc_nvlist2config /\ f \in DOMAIN obj
                      => p[f] = Converted(bc_nvlist2config[f], obj[f])
                 /\ f \notin DOMAIN bc_nvlist2config \/ f \notin DOMAIN obj => p[f] = new[f]
  BY GenericIs
<1> HIDE DEF p
<1>4. bc.name = p.name /\ bc.backing_filepath = p.backing_filepath
  BY <1>1, <1>2, <1>3, MappingIs
<1>5. p.backing_filepath = path
  BY <1>2, <1>3, MappingIs
<1> DEFINE b == [block |-> block, d_name |-> path]
<1>6. b.block = block /\ b.d_name = path
  OBVIOUS
<1> HIDE DEF b
<1>7. p.name = NameOf(b)
  <2>1. "name" \in DOMAIN new /\ "name" \in DOMAIN bc_nvlist2config /\ bc_nvlist2config["name"] = "FIXEDSTRING"
    BY <1>2, MappingIs
  <2>2. CASE "name" \in DOMAIN obj
    <3>1. p.name = ucl_object_tostring(obj["name"])
      BY <1>3, <2>1, <2>2 DEF Converted
    <3>2. ucl_object_tostring(obj["name"]) # NULL
      BY <2>1, <2>2 DEF Crashes
    <3>3. QED
      BY <1>6, <2>2, <3>1, <3>2 DEF NameOf, Said, ucl_object_tostring
  <2>3. CASE "name" \notin DOMAIN obj
    <3>1. p.name = block.key
      BY <1>2, <1>3, <2>1, <2>3
    <3>2. QED
      BY <1>6, <2>3, <3>1 DEF NameOf, Said
  <2>4. QED
    BY <2>2, <2>3
<1>8. QED
  <2>1. Keeps(bc, b)
    BY ParsedKeeps DEF bc, b
  <2>2. QED
    BY <1>4, <1>5, <1>6, <1>7, <2>1 DEF Fits, bc, b

(* One entry of the directory more. *)
LEMMA BlocksGrow ==
    ASSUME TypeInv, entry <= Len(dir), entry' = entry + 1, dir' = dir, IsSeq(Blocks)
    PROVE  LET F == FileOf(dir[entry]) IN
           /\ IsSeq(F) /\ IsSeq(Blocks') /\ Len(Blocks') = Len(Blocks) + Len(F)
           /\ \A i \in 1 .. Len(Blocks) : Blocks'[i] = Blocks[i]
           /\ \A i \in 1 .. Len(F) : Blocks'[Len(Blocks) + i] = F[i]
<1> DEFINE n == entry - 1
           s == [e \in 1 .. n |-> FileOf(dir[e])]
           t == [e \in 1 .. n + 1 |-> FileOf(dir[e])]
           F == FileOf(dir[entry])
<1>1. n \in Nat /\ n + 1 = entry /\ entry \in DOMAIN dir
  BY IsSeqFacts DEF TypeInv, Reading
<1>2. Blocks = FlattenSeq(s)
  BY DEF Blocks, FileOf
<1>3. Blocks' = FlattenSeq(t)
  <2>1. Blocks' = FlattenSeq([e \in 1 .. (entry' - 1) |-> FileOf(dir'[e])])
    BY DEF Blocks, FileOf
  <2>2. entry' - 1 = n + 1
    BY <1>1
  <2>3. [e \in 1 .. (entry' - 1) |-> FileOf(dir'[e])] = t
    BY <2>2
  <2>4. QED
    BY <2>1, <2>3
<1>4. IsSeq(F)
  <2>1. CASE Readable(dir[entry])
    <3>1. IsSeq(dir[entry].config)
      BY <1>1, <2>1, DirectoriesAssumption DEF TypeInv, Reading
    <3>2. F = [b \in DOMAIN dir[entry].config |-> [block |-> dir[entry].config[b], d_name |-> dir[entry].d_name]]
      BY <2>1 DEF FileOf
    <3>3. DOMAIN F = DOMAIN dir[entry].config /\ F = [b \in DOMAIN dir[entry].config |-> F[b]]
      BY <3>2
    <3> HIDE DEF F
    <3>4. QED
      BY <3>1, <3>3, MapIs
  <2>2. CASE ~ Readable(dir[entry])
    BY <2>2, EmptyIs DEF FileOf
  <2>3. QED
    BY <2>1, <2>2
<1>5. t[n + 1] = F
  BY <1>1
<1>6. s = [i \in 1 .. n |-> s[i]] /\ t = [i \in 1 .. n + 1 |-> t[i]] /\ \A i \in 1 .. n : s[i] = t[i]
  BY <1>1
<1> HIDE DEF s, t, F
<1>7. FlattenSeq(t) = IF n = 0 THEN t[n + 1] ELSE FlattenSeq(s) \o t[n + 1]
  BY <1>1, <1>6, FlattenMore
<1>8. CASE n = 0
  <2>1. IsSeq(s) /\ Len(s) = 0
    BY <1>1, <1>6, <1>8, SeqIs
  <2>2. Blocks = s
    BY <1>2, <2>1 DEF FlattenSeq
  <2>3. Blocks' = F
    BY <1>3, <1>5, <1>7, <1>8
  <2>4. Len(F) \in Nat
    BY <1>4, IsSeqFacts
  <2>5. Len(Blocks) = 0
    BY <2>1, <2>2
  <2>6. QED
    BY <1>4, <2>3, <2>4, <2>5 DEF F
<1>9. CASE n # 0
  <2> DEFINE B == Blocks
  <2>1. IsSeq(B)
    OBVIOUS
  <2> HIDE DEF B
  <2>2. /\ IsSeq(B \o F) /\ Len(B \o F) = Len(B) + Len(F)
        /\ \A i \in 1 .. Len(B) : (B \o F)[i] = B[i]
        /\ \A i \in 1 .. Len(F) : (B \o F)[Len(B) + i] = F[i]
    BY <1>4, <2>1, ConcatIs
  <2>3. Blocks' = B \o F
    BY <1>2, <1>3, <1>5, <1>7, <1>9 DEF B
  <2>4. QED
    BY <1>4, <2>2, <2>3 DEF B, F
<1>10. QED
  BY <1>8, <1>9

----------------------------------------------------------------------------
(***************************************************************************)
(* The store is the blocks read so far, the last first; the list of the    *)
(* director is the store from its end.                                     *)
(***************************************************************************)

(* The store has the blocks in the opposite order, the director's list in theirs. *)
StoreFits ==
    /\ Len(configs) = Len(Blocks)
    /\ \A i \in DOMAIN configs : Fits(configs[i], Blocks[(Len(Blocks) - i) + 1])
ListFits ==
    /\ Len(vms) = Len(Blocks)
    /\ \A k \in DOMAIN vms : Fits(vms[k].config, Blocks[k])

NameInv ==
    /\ IsSeq(Blocks)
    /\ pc \in {"walk", "list"} => StoreFits
    /\ pc = "walk" => Len(vms) = 0 /\ current = 0
    /\ pc = "list" => /\ Len(vms) = current
                      /\ \A k \in DOMAIN vms : vms[k].config = configs[(current - k) + 1]
    /\ pc = "serving" => ListFits

LEMMA InitNames == Init => NameInv
<1>1. SUFFICES ASSUME Init PROVE NameInv
  OBVIOUS
<1> DEFINE s == [e \in 1 .. (entry - 1) |-> FileOf(dir[e])]
<1>2. Blocks = FlattenSeq(s)
  BY DEF Blocks, FileOf
<1>3. s = [e \in 1 .. 0 |-> s[e]]
  BY <1>1 DEF Init
<1> HIDE DEF s
<1>4. IsSeq(s) /\ Len(s) = 0
  BY <1>3, SeqIs
<1>5. Blocks = s
  BY <1>2, <1>4 DEF FlattenSeq
<1>6. QED
  BY <1>1, <1>4, <1>5, EmptyIs DEF Init, NameInv, StoreFits

LEMMA NamesKept ==
    ASSUME NameInv, UNCHANGED <<dir, entry>>, pc = "serving", pc' \in {"serving", "crashed"}, SameConfigs
    PROVE  NameInv'
<1>1. Blocks' = Blocks
  BY DEF Blocks, Readable
<1>2. QED
  BY <1>1 DEF NameInv, ListFits, SameConfigs

LEMMA CrashNames == NameInv /\ Crash => NameInv'
<1>1. Crash => Blocks' = Blocks
  BY DEF Blocks, Crash, loading
<1>2. QED
  BY <1>1 DEF NameInv, Crash

LEMMA WalkNames == TypeInv /\ NameInv /\ bcs_walkdir => NameInv'
<1>1. SUFFICES ASSUME TypeInv, NameInv, bcs_walkdir, ~ Crash PROVE NameInv'
  BY CrashNames
<1> DEFINE e == dir[entry]
           F == FileOf(e)
           L == Len(Blocks)
           n == Len(F)
<1>2. /\ pc = "walk" /\ entry <= Len(dir) /\ entry' = entry + 1 /\ dir' = dir
      /\ UNCHANGED <<dir, current, pc, vms, files, links, broken, job, ending>>
  BY <1>1 DEF bcs_walkdir
<1>3. /\ IsSeq(F) /\ IsSeq(Blocks') /\ Len(Blocks') = L + n
      /\ \A i \in 1 .. L : Blocks'[i] = Blocks[i]
      /\ \A i \in 1 .. n : Blocks'[L + i] = F[i]
  BY <1>1, <1>2, BlocksGrow DEF NameInv
<1>4. L \in Nat /\ n \in Nat /\ IsSeq(configs) /\ Len(configs) = L /\ DOMAIN configs = 1 .. L
      /\ \A i \in DOMAIN configs : Fits(configs[i], Blocks[(L - i) + 1])
  BY <1>1, <1>2, <1>3, IsSeqFacts DEF TypeInv, Reading, NameInv, StoreFits
<1>5. StoreFits'
  <2>1. CASE ~ Readable(e)
    <3>1. configs' = configs /\ n = 0
      BY <1>1, <2>1, EmptyIs DEF bcs_walkdir, FileOf
    <3>2. \A i \in 1 .. L : (L - i) + 1 \in 1 .. L
      BY <1>4
    <3> HIDE DEF L, n
    <3>3. Len(Blocks') = L
      BY <1>3, <1>4, <3>1
    <3>4. QED
      BY <1>3, <1>4, <3>1, <3>2, <3>3 DEF StoreFits
  <2>2. CASE Readable(e)
    <3> DEFINE file == e.config
               path == e.d_name
    <3>1. \A i \in DOMAIN file : ~ Crashes(file[i])
      BY <1>1, <2>2 DEF bcs_walkdir
    <3>2. PICK address \in [DOMAIN file -> Addresses] : configs' = bcs_parseucl(configs, file, path, address)
      BY <1>1, <2>2 DEF bcs_walkdir
    <3>3. F = [b \in DOMAIN file |-> [block |-> file[b], d_name |-> path]]
      BY <2>2 DEF FileOf
    <3>4. IsSeq(file)
      BY <1>1, <1>2, <2>2, IsSeqFacts, DirectoriesAssumption DEF TypeInv, Reading
    <3>12. \A k \in DOMAIN file : IsObject(file[k].value)
      BY <1>1, <1>2, <2>2, IsSeqFacts, DirectoriesAssumption DEF TypeInv, Reading
    <3>5. DOMAIN F = DOMAIN file /\ \A b \in DOMAIN file : F[b] = [block |-> file[b], d_name |-> path]
      BY <3>3
    <3>6. Len(file) = n /\ DOMAIN file = 1 .. n
      <4>1. DOMAIN F = DOMAIN file /\ F = [b \in DOMAIN file |-> F[b]]
        BY <3>3
      <4> HIDE DEF F, file
      <4>2. Len(F) = Len(file)
        BY <3>4, <4>1, MapIs
      <4>3. DOMAIN file = 1 .. Len(file)
        BY <3>4, IsSeqFacts
      <4>4. QED
        BY <4>2, <4>3
    <3> DEFINE c == bcs_parseucl(configs, file, path, address)
    <3> HIDE DEF file, path, F, n, L
    <3>7. /\ Len(c) = n + L /\ DOMAIN c = 1 .. n + L
          /\ \A i \in 1 .. n : /\ (n - i) + 1 \in 1 .. n
                               /\ c[i] = ParsedBlock(file[(n - i) + 1], path, address[(n - i) + 1])
          /\ \A i \in 1 .. L : c[n + i] = configs[i]
      <4>1. /\ Len(c) = Len(file) + Len(configs) /\ DOMAIN c = 1 .. Len(file) + Len(configs)
            /\ \A i \in 1 .. Len(file) :
                  /\ (Len(file) - i) + 1 \in 1 .. Len(file)
                  /\ c[i] = ParsedBlock(file[(Len(file) - i) + 1], path, address[(Len(file) - i) + 1])
            /\ \A i \in DOMAIN configs : c[Len(file) + i] = configs[i]
        BY <1>4, <3>4, ParseuclIs
      <4> HIDE DEF c
      <4>2. QED
        BY <1>4, <3>6, <4>1
    <3>8. configs' = c
      BY <3>2 DEF file, path
    <3> HIDE DEF c
    <3>9. ASSUME NEW i \in 1 .. n + L PROVE Fits(c[i], Blocks'[((L + n) - i) + 1])
      <4>1. CASE i <= n
        <5> DEFINE k == (n - i) + 1
        <5>1. i \in 1 .. n
          BY <1>4, <4>1
        <5>2. k \in 1 .. n /\ c[i] = ParsedBlock(file[k], path, address[k])
          BY <3>7, <5>1
        <5>3. L + k = ((L + n) - i) + 1
          BY <1>4
        <5> HIDE DEF k
        <5>4. Blocks'[((L + n) - i) + 1] = [block |-> file[k], d_name |-> path]
          BY <1>3, <3>5, <3>6, <5>2, <5>3
        <5>5. ~ Crashes(file[k])
          BY <3>1, <3>6, <5>2
        <5>7. IsObject(file[k].value)
          BY <3>6, <3>12, <5>2
        <5>6. QED
          BY <5>2, <5>4, <5>5, <5>7, ParsedFits
      <4>2. CASE i > n
        <5> DEFINE k == i - n
        <5>1. k \in 1 .. L /\ n + k = i /\ (L - k) + 1 \in 1 .. L /\ (L - k) + 1 = ((L + n) - i) + 1
          BY <1>4, <4>2
        <5> HIDE DEF k
        <5>2. c[i] = configs[k]
          BY <3>7, <5>1
        <5>3. Blocks'[((L + n) - i) + 1] = Blocks[(L - k) + 1]
          BY <1>3, <5>1
        <5>4. QED
          BY <1>4, <5>1, <5>2, <5>3
      <4>3. QED
        BY <1>4, <4>1, <4>2
    <3>10. Len(configs') = n + L /\ Len(Blocks') = L + n /\ n + L = L + n /\ DOMAIN configs' = 1 .. n + L
      BY <1>3, <1>4, <3>7, <3>8
    <3>11. QED
      BY <3>8, <3>9, <3>10 DEF StoreFits
  <2>3. QED
    BY <2>1, <2>2
<1>6. QED
  BY <1>1, <1>2, <1>3, <1>5 DEF NameInv

LEMMA EndOfDirNames == TypeInv /\ NameInv /\ EndOfDir => NameInv'
<1>1. SUFFICES ASSUME TypeInv, NameInv, EndOfDir PROVE NameInv'
  OBVIOUS
<1>2. /\ Blocks' = Blocks /\ pc = "walk" /\ pc' \in {"list", "exited"}
      /\ configs' = configs /\ vms' = vms /\ current' = current
  BY <1>1 DEF EndOfDir, loading, Blocks
<1>3. DOMAIN vms = {}
  BY <1>1, <1>2, IsSeqFacts DEF NameInv, TypeInv, Machines
<1>4. QED
  BY <1>1, <1>2, <1>3 DEF NameInv, StoreFits

LEMMA NewNames == TypeInv /\ NameInv /\ bd_new => NameInv'
<1>1. SUFFICES ASSUME TypeInv, NameInv, bd_new PROVE NameInv'
  OBVIOUS
<1> DEFINE n == Len(configs)
<1>2. /\ Blocks' = Blocks /\ pc = "list" /\ configs' = configs /\ current' = bci_next
  BY <1>1 DEF bd_new, Blocks
<1>3. n \in Nat /\ DOMAIN configs = 1 .. n /\ current \in 0 .. n /\ n = Len(Blocks)
  BY <1>1, <1>2, IsSeqFacts DEF TypeInv, Reading, NameInv, StoreFits
<1>4. /\ \A i \in 1 .. n : Fits(configs[i], Blocks[(n - i) + 1])
      /\ Len(vms) = current
      /\ \A k \in DOMAIN vms : vms[k].config = configs[(current - k) + 1]
  BY <1>1, <1>2, <1>3 DEF NameInv, StoreFits
<1>5. IsSeq(vms) /\ DOMAIN vms = 1 .. current /\ current \in Nat /\ IsSeq(Blocks)
  BY <1>1, <1>3, <1>4, IsSeqFacts DEF TypeInv, Machines, NameInv
<1> HIDE DEF n
<1>6. CASE bci_next = 0
  <2>1. pc' = "serving" /\ UNCHANGED vms
    BY <1>1, <1>6 DEF bd_new
  <2>2. current = n
    <3>1. bci_next = IF current < n THEN current + 1 ELSE 0
      BY DEF bci_next, n
    <3>2. QED
      BY <1>3, <1>6, <3>1
  <2>3. ASSUME NEW k \in DOMAIN vms PROVE Fits(vms[k].config, Blocks[k])
    <3>1. (n - k) + 1 \in 1 .. n /\ (n - ((n - k) + 1)) + 1 = k
      BY <1>3, <1>5, <2>2
    <3>2. vms[k].config = configs[(n - k) + 1]
      BY <1>4, <2>2
    <3>3. QED
      BY <1>4, <3>1, <3>2
  <2>4. ListFits'
    BY <1>2, <1>3, <1>4, <2>1, <2>2, <2>3 DEF ListFits
  <2>5. QED
    BY <1>2, <1>5, <2>1, <2>4 DEF NameInv
<1>7. CASE bci_next # 0
  <2> DEFINE m == bwv_new(configs[bci_next])
             one == <<m>>
  <2>1. vms' = one \o vms /\ pc' = "list"
    BY <1>1, <1>2, <1>7 DEF bd_new
  <2>2. bci_next = current + 1
    BY <1>7 DEF bci_next
  <2>3. IsSeq(one) /\ Len(one) = 1 /\ one[1] = m
    BY OneIs
  <2>4. m.config = configs[current + 1]
    BY <2>2 DEF bwv_new
  <2> HIDE DEF m, one
  <2> DEFINE c == one \o vms
  <2>5. /\ Len(c) = Len(one) + Len(vms) /\ DOMAIN c = 1 .. Len(one) + Len(vms)
        /\ \A i \in 1 .. Len(one) : c[i] = one[i]
        /\ \A i \in 1 .. Len(vms) : c[Len(one) + i] = vms[i]
    <3>1. IsSeq(one) /\ IsSeq(vms)
      BY <1>5, <2>3
    <3>2. QED
      BY <3>1, ConcatIs
  <2> HIDE DEF c
  <2>6. /\ Len(c) = current + 1 /\ DOMAIN c = 1 .. current + 1
        /\ c[1] = m /\ \A i \in 1 .. current : c[1 + i] = vms[i]
    BY <1>4, <1>5, <2>3, <2>5
  <2>7. ASSUME NEW k \in 1 .. current + 1 PROVE c[k].config = configs[((current + 1) - k) + 1]
    <3>1. CASE k = 1
      BY <1>5, <2>4, <2>6, <3>1
    <3>2. CASE k # 1
      <4>1. k - 1 \in 1 .. current /\ 1 + (k - 1) = k /\ (current - (k - 1)) + 1 = ((current + 1) - k) + 1
        BY <1>5, <3>2
      <4>2. c[k] = vms[k - 1]
        BY <2>6, <4>1
      <4>3. vms[k - 1].config = configs[(current - (k - 1)) + 1]
        BY <1>4, <1>5, <4>1
      <4>4. QED
        BY <4>1, <4>2, <4>3
    <3>3. QED
      BY <3>1, <3>2
  <2>8. vms' = c
    BY <2>1 DEF c
  <2>9. StoreFits'
    BY <1>1, <1>2 DEF NameInv, StoreFits
  <2>10. QED
    BY <1>2, <1>5, <2>1, <2>2, <2>6, <2>7, <2>8, <2>9 DEF NameInv
<1>8. QED
  BY <1>6, <1>7

----------------------------------------------------------------------------
(***************************************************************************)
(* Nothing that is read changes while the daemon serves.                   *)
(***************************************************************************)

(* A change of one machine's state leaves all the configurations. *)
LEMMA ChangesKeeps ==
    ASSUME Machines, NEW i \in DOMAIN vms, NEW x, NEW p, NEW b, NEW a, Changes(i, x, p, b, a)
    PROVE  SameConfigs
<1> DEFINE m == MachineOf(vms[i].config, x, p, b, a)
<1>1. m.config = vms[i].config
  BY DEF MachineOf
<1>2. vms' = [vms EXCEPT ![i] = m]
  BY DEF Changes
<1> HIDE DEF m
<1>3. DOMAIN vms' = DOMAIN vms /\ vms' = [k \in DOMAIN vms |-> vms'[k]]
      /\ \A k \in DOMAIN vms : vms'[k].config = vms[k].config
  BY <1>1, <1>2
<1>4. Len(vms') = Len(vms)
  BY <1>3, MapIs DEF Machines
<1>5. QED
  BY <1>3, <1>4 DEF SameConfigs

(* While the daemon serves, nothing that it read changes. *)
LEMMA ServingKeeps ==
    ASSUME TypeInv, pc = "serving", Next, ~ Crash
    PROVE  SameConfigs /\ pc' = "serving" /\ UNCHANGED <<dir, entry>>
<1>1. Machines
  BY DEF TypeInv
<1>2. CASE UNCHANGED vms /\ pc' = "serving" /\ UNCHANGED <<dir, entry>>
  BY <1>2 DEF SameConfigs
<1>3. ASSUME NEW i \in DOMAIN vms, NEW x, vms' = [vms EXCEPT ![i].vmstate = x]
      PROVE  SameConfigs
  BY <1>1, <1>3, AMachineChanges, ChangesKeeps
<1>4. ASSUME NEW t \in Starters, StartStep(t)
      PROVE  SameConfigs /\ pc' = "serving" /\ UNCHANGED <<dir, entry>>
  <2>1. ASSUME NEW n \in DOMAIN vms, Begin(t, vms[n].config.name)
        PROVE  SameConfigs /\ pc' = "serving" /\ UNCHANGED <<dir, entry>>
    <3> DEFINE i == bd_getvmbyname(vms[n].config.name)
    <3>1. i \in DOMAIN vms
      BY GetVmIs, Basics
    <3>2. pc' = "serving" /\ UNCHANGED <<dir, entry>> /\ vms' = [vms EXCEPT ![i].alone = AtRest(i)]
      BY <2>1 DEF Begin, loading
    <3> HIDE DEF i
    <3>3. PICK x : vms' = [vms EXCEPT ![i].alone = x]
      BY <3>2
    <3>4. Changes(i, vms[i].vmstate, vms[i].process, vms[i].boot, x)
      BY <1>1, <3>1, <3>3, AMachineChanges
    <3>5. QED
      BY <1>1, <3>1, <3>2, <3>4, ChangesKeeps
  <2>2. ASSUME job[t].at # "rest", vms' = [vms EXCEPT ![job[t].vm].vmstate = "FAILED"]
        PROVE  SameConfigs
    <3>1. job[t].vm \in DOMAIN vms
      BY <2>2, Basics
    <3>2. QED
      BY <1>3, <2>2, <3>1
  <2>3. CASE Open(t)
    <3>1. pc' = "serving" /\ UNCHANGED <<dir, entry>> /\ job[t].at # "rest"
      BY <2>3 DEF Open, Fails, loading
    <3>2. UNCHANGED vms \/ vms' = [vms EXCEPT ![job[t].vm].vmstate = "FAILED"]
      BY <2>3 DEF Open, Fails
    <3>3. QED
      BY <1>2, <2>2, <3>1, <3>2
  <2>4. CASE obc_combine_with(t)
    <3>1. pc' = "serving" /\ UNCHANGED <<dir, entry>> /\ job[t].at # "rest"
      BY <2>4 DEF obc_combine_with, loading
    <3>2. UNCHANGED vms \/ vms' = [vms EXCEPT ![job[t].vm].vmstate = "FAILED"]
      BY <2>4 DEF obc_combine_with
    <3>3. QED
      BY <1>2, <2>2, <3>1, <3>2
  <2>5. CASE bwv_linkconsoles(t)
    <3>1. UNCHANGED <<loading, pc, vms>>
      BY <2>5 DEF bwv_linkconsoles
    <3>2. QED
      BY <1>2, <3>1 DEF loading
  <2>6. CASE Launch(t)
    <3>1. pc' = "serving" /\ UNCHANGED <<dir, entry>> /\ job[t].at # "rest"
      BY <2>6 DEF Launch, loading
    <3> DEFINE i == job[t].vm
    <3>2. \/ UNCHANGED vms
          \/ vms' = [vms EXCEPT ![i].vmstate = "RUNNING", ![i].process = "exec"]
          \/ vms' = [vms EXCEPT ![i].vmstate = "FAILED"]
      BY <2>6 DEF Launch
    <3>3. i \in DOMAIN vms
      BY <3>1, Basics
    <3>4. CASE vms' = [vms EXCEPT ![i].vmstate = "RUNNING", ![i].process = "exec"]
      <4> HIDE DEF i
      <4>1. Changes(i, "RUNNING", "exec", vms[i].boot, vms[i].alone)
        BY <1>1, <3>3, <3>4, AMachineChanges
      <4>2. QED
        BY <1>1, <3>1, <3>3, <4>1, ChangesKeeps
    <3>5. QED
      BY <1>2, <2>2, <3>1, <3>2, <3>4
  <2>7. QED
    BY <1>4, <2>1, <2>3, <2>4, <2>5, <2>6 DEF StartStep
<1>5. ASSUME NEW i \in DOMAIN vms, Boots(i) \/ Ends(i)
      PROVE  SameConfigs /\ pc' = "serving" /\ UNCHANGED <<dir, entry>>
  <2>1. PICK x, b : vms' = [vms EXCEPT ![i].process = x, ![i].boot = b]
    BY <1>5 DEF Boots, Ends
  <2>2. Changes(i, vms[i].vmstate, x, b, vms[i].alone)
    BY <1>1, <2>1, AMachineChanges
  <2>3. SameConfigs
    BY <1>1, <2>2, ChangesKeeps
  <2>4. QED
    BY <1>5, <2>3 DEF Boots, Ends, loading
<1>6. ASSUME NEW i \in DOMAIN vms, ResetFail(i)
      PROVE  SameConfigs /\ pc' = "serving" /\ UNCHANGED <<dir, entry>>
  BY <1>3, <1>6 DEF ResetFail, loading
<1>7. CASE OnExit
  <2>1. ending \in DOMAIN vms
    BY <1>7, Basics DEF OnExit, TypeInv
  <2>2. QED
    BY <1>3, <1>7, <2>1 DEF OnExit, loading
<1>8. QED
  BY <1>4, <1>5, <1>6, <1>7 DEF Next, bcs_walkdir, EndOfDir, bd_new

LEMMA NamesStep == TypeInv /\ NameInv /\ [Next]_vars => NameInv'
<1>1. SUFFICES ASSUME TypeInv, NameInv, [Next]_vars PROVE NameInv'
  OBVIOUS
<1>2. CASE UNCHANGED vars
  <2>1. Blocks' = Blocks
    BY <1>2 DEF vars, loading, Blocks
  <2>2. QED
    BY <1>1, <1>2, <2>1 DEF vars, loading, NameInv, StoreFits, ListFits
<1>3. CASE Crash
  BY <1>1, <1>3, CrashNames
<1>4. CASE bcs_walkdir \/ EndOfDir \/ bd_new
  BY <1>1, <1>4, WalkNames, EndOfDirNames, NewNames
<1>5. CASE Next /\ pc = "serving" /\ ~ Crash
  BY <1>1, <1>5, ServingKeeps, NamesKept
<1>6. Next => (bcs_walkdir \/ EndOfDir \/ bd_new) \/ pc = "serving"
  BY DEF Next, StartStep, Begin, Open, obc_combine_with, bwv_linkconsoles, Launch, Boots, Ends, ResetFail, OnExit
<1>7. QED
  BY <1>1, <1>2, <1>3, <1>4, <1>5, <1>6

(***************************************************************************)
(* bcs_walkdir, bcs_parseucl and bd_new make one machine of each block that *)
(* is read, under the name the block says, and lose none.                  *)
(***************************************************************************)
THEOREM BlocksBecomeMachines == Spec => []NamesResolve
<1>1. TypeInv /\ NameInv => NamesResolve
  <2>1. SUFFICES ASSUME TypeInv, NameInv, pc = "serving"
        PROVE  /\ Len(vms) = Len(Blocks)
               /\ \A i \in DOMAIN vms : /\ vms[i].config.name = NameSaid(i)
                                        /\ vms[i].config.backing_filepath = Blocks[i].d_name
                                        /\ bd_getvmbyname(NameSaid(i)) =
                                              Min({j \in DOMAIN vms : NameSaid(j) = NameSaid(i)})
    BY DEF NamesResolve
  <2>2. Len(vms) = Len(Blocks) /\ \A k \in DOMAIN vms : Fits(vms[k].config, Blocks[k])
    BY <2>1 DEF NameInv, ListFits
  <2>3. \A k \in DOMAIN vms : /\ vms[k].config.name = NameSaid(k)
                              /\ vms[k].config.backing_filepath = Blocks[k].d_name
    BY <2>2, NameSaidIs DEF Fits
  <2>4. ASSUME NEW i \in DOMAIN vms
        PROVE  bd_getvmbyname(NameSaid(i)) = Min({j \in DOMAIN vms : NameSaid(j) = NameSaid(i)})
    <3>1. bd_getvmbyname(NameSaid(i)) = Min({j \in DOMAIN vms : vms[j].config.name = NameSaid(i)})
      BY <2>1, <2>3, GetVmIs, Basics
    <3>2. {j \in DOMAIN vms : vms[j].config.name = NameSaid(i)} = {j \in DOMAIN vms : NameSaid(j) = NameSaid(i)}
      BY <2>3
    <3>3. QED
      BY <3>1, <3>2
  <2>5. QED
    BY <2>2, <2>3, <2>4
<1>2. IInv => TypeInv
  BY DEF IInv
<1>3. QED
  BY <1>1, <1>2, Initially, IInvStep, InitNames, NamesStep, PTL DEF Spec

----------------------------------------------------------------------------
(***************************************************************************)
(* check.c.  The first rule that is broken is the one that is reported, so *)
(* a set of parameters passes when none is; and the rules together say     *)
(* what bhyve needs.                                                       *)
(***************************************************************************)

LEMMA CountIs ==
    ASSUME NEW bpc, NEW type, IsSeq(bpc.pcislots)
    PROVE  LET S == Slots(bpc, type)
           IN  /\ S \in SUBSET Nat
               /\ Cardinality(S) = 0 <=> S = {}
               /\ Cardinality(S) > 1 <=> (\E i, j \in S : i # j)
<1> DEFINE S == Slots(bpc, type)
<1>1. S \subseteq 1 .. Len(bpc.pcislots) /\ Len(bpc.pcislots) \in Nat
  BY IsSeqFacts DEF Slots
<1>2. IsFiniteSet(1 .. Len(bpc.pcislots))
  BY <1>1, FS_Interval
<1> HIDE DEF S
<1>3. IsFiniteSet(S)
  BY <1>1, <1>2, FS_Subset
<1>4. Cardinality(S) \in Nat /\ (Cardinality(S) = 0 <=> S = {})
  BY <1>3, FS_EmptySet, FS_CardinalityType
<1>5. Cardinality(S) = 1 <=> \E x : S = {x}
  BY <1>3, FS_Singleton
<1>6. Cardinality(S) > 1 <=> (\E i, j \in S : i # j)
  <2>1. ASSUME Cardinality(S) > 1 PROVE \E i, j \in S : i # j
    BY <1>4, <1>5, <2>1
  <2>2. ASSUME NEW i \in S, NEW j \in S, i # j PROVE Cardinality(S) > 1
    BY <1>4, <1>5, <2>2
  <2>3. QED
    BY <2>1, <2>2
<1>7. QED
  BY <1>1, <1>4, <1>6 DEF S

LEMMA RulesAre ==
    \A bpc : LET c == bpchecks(bpc)
             IN  /\ Len(c) = 10
                 /\ \A r \in 1 .. 10 : c[r].rule_name # NULL
                 /\ c[1].broken <=> bpc.vmname = ""
                 /\ c[2].broken <=> check_bpc_counthostbridge(bpc) = 0
                 /\ c[3].broken <=> check_bpc_counthostbridge(bpc) > 1
                 /\ c[4].broken <=> check_bpc_hostbridgeslot(bpc)
                 /\ c[5].broken <=> check_bpc_countisabridge(bpc) > 1
                 /\ c[6].broken <=> check_bpc_comwithisa(bpc)
                 /\ c[7].broken <=> check_bpc_bootromwithisa(bpc)
                 /\ c[8].broken <=> check_bpc_bootrom(bpc)
                 /\ c[9].broken <=> check_bpc_isabridgebus(bpc)
                 /\ c[10].broken <=> check_bpc_pciidconflict(bpc)
<1> TAKE bpc
<1> DEFINE c == bpchecks(bpc)
<1>1. Len(c) = 10
  BY DEF bpchecks
<1>2. \A r \in 1 .. 10 : c[r].rule_name # NULL
  <2> DEFINE d == bpchecks(bpc_new(""))
  <2>1. c[1].rule_name = d[1].rule_name
    BY DEF bpchecks
  <2>2. c[2].rule_name = d[2].rule_name
    BY DEF bpchecks
  <2>3. c[3].rule_name = d[3].rule_name
    BY DEF bpchecks
  <2>4. c[4].rule_name = d[4].rule_name
    BY DEF bpchecks
  <2>5. c[5].rule_name = d[5].rule_name
    BY DEF bpchecks
  <2>6. c[6].rule_name = d[6].rule_name
    BY DEF bpchecks
  <2>7. c[7].rule_name = d[7].rule_name
    BY DEF bpchecks
  <2>8. c[8].rule_name = d[8].rule_name
    BY DEF bpchecks
  <2>9. c[9].rule_name = d[9].rule_name
    BY DEF bpchecks
  <2>10. c[10].rule_name = d[10].rule_name
    BY DEF bpchecks
  <2> HIDE DEF c
  <2>11. \A r \in 1 .. 10 : d[r].rule_name # NULL
    BY NullAssumption
  <2> HIDE DEF d
  <2>12. \A r \in 1 .. 10 : r \in {1, 2, 3, 4, 5, 6, 7, 8, 9, 10}
    OBVIOUS
  <2>13. QED
    BY <2>1, <2>2, <2>3, <2>4, <2>5, <2>6, <2>7, <2>8, <2>9, <2>10, <2>11, <2>12
<1>3. c[1].broken <=> bpc.vmname = ""
  BY DEF bpchecks
<1>4. c[2].broken <=> check_bpc_counthostbridge(bpc) = 0
  BY DEF bpchecks
<1>5. c[3].broken <=> check_bpc_counthostbridge(bpc) > 1
  BY DEF bpchecks
<1>6. c[4].broken <=> check_bpc_hostbridgeslot(bpc)
  BY DEF bpchecks
<1>7. c[5].broken <=> check_bpc_countisabridge(bpc) > 1
  BY DEF bpchecks
<1>8. c[6].broken <=> check_bpc_comwithisa(bpc)
  BY DEF bpchecks
<1>9. c[7].broken <=> check_bpc_bootromwithisa(bpc)
  BY DEF bpchecks
<1>10. c[8].broken <=> check_bpc_bootrom(bpc)
  BY DEF bpchecks
<1>11. c[9].broken <=> check_bpc_isabridgebus(bpc)
  BY DEF bpchecks
<1>12. c[10].broken <=> check_bpc_pciidconflict(bpc)
  BY DEF bpchecks
<1>13. QED
  BY <1>1, <1>2, <1>3, <1>4, <1>5, <1>6, <1>7, <1>8, <1>9, <1>10, <1>11, <1>12

(* Which rule is reported: none, or one that is broken and none before it is. *)
LEMMA FirstBroken ==
    \A bpc : LET c == bpchecks(bpc)
             IN  /\ check_parameters_ok(bpc) = NULL <=> \A r \in 1 .. 10 : ~ c[r].broken
                 /\ \A r \in 1 .. 10 : c[r].broken /\ (\A q \in 1 .. r - 1 : ~ c[q].broken)
                        => check_parameters_ok(bpc) = c[r].rule_name
<1> TAKE bpc
<1> DEFINE c == bpchecks(bpc)
           I == {i \in 1 .. Len(c) : c[i].broken}
<1>1. Len(c) = 10 /\ \A r \in 1 .. 10 : c[r].rule_name # NULL
  BY RulesAre
<1>2. check_parameters_ok(bpc) = IF (IF I # {} THEN Min(I) ELSE 0) = 0 THEN NULL
                                 ELSE c[IF I # {} THEN Min(I) ELSE 0].rule_name
  BY DEF check_parameters_ok, SelectInSeq
<1> HIDE DEF c
<1>3. I \in SUBSET Nat /\ I \subseteq 1 .. 10
  BY <1>1
<1>4. I # {} => Min(I) \in I /\ \A i \in I : Min(I) <= i
  BY <1>3, MinIs
<1>5. check_parameters_ok(bpc) = NULL <=> \A r \in 1 .. 10 : ~ c[r].broken
  <2>1. CASE I = {}
    BY <1>1, <1>2, <2>1
  <2>2. CASE I # {}
    <3>1. Min(I) \in 1 .. 10 /\ c[Min(I)].broken /\ Min(I) # 0
      BY <1>1, <1>4, <2>2
    <3>2. check_parameters_ok(bpc) = c[Min(I)].rule_name
      BY <1>2, <2>2, <3>1
    <3>3. QED
      BY <1>1, <3>1, <3>2
  <2>3. QED
    BY <2>1, <2>2
<1>6. ASSUME NEW r \in 1 .. 10, c[r].broken, \A q \in 1 .. r - 1 : ~ c[q].broken
      PROVE  check_parameters_ok(bpc) = c[r].rule_name
  <2>1. r \in I
    BY <1>1, <1>6
  <2>2. Min(I) \in 1 .. 10 /\ Min(I) <= r /\ c[Min(I)].broken
    BY <1>1, <1>4, <2>1
  <2>3. Min(I) = r
    BY <1>6, <2>2
  <2>4. QED
    BY <1>2, <2>1, <2>3
<1>7. QED
  BY <1>5, <1>6 DEF c

LEMMA RulesAreExact ==
    ASSUME NEW bpc, IsSeq(bpc.pcislots)
    PROVE  check_parameters_ok(bpc) = NULL <=> Usable(bpc)
<1> DEFINE slots == bpc.pcislots
           H == Slots(bpc, "HOSTBRIDGE")
           B == Slots(bpc, "ISABRIDGE")
           Apart == \A i, j \in DOMAIN slots : i # j => slots[i].at # slots[j].at
           One(S) == ~ (\E i, j \in S : i # j)
<1>1. DOMAIN slots = 1 .. Len(slots) /\ Len(slots) \in Nat
  BY IsSeqFacts
<1>2. \A i : /\ i \in H <=> i \in DOMAIN slots /\ slots[i].slot_type = "HOSTBRIDGE"
             /\ i \in B <=> i \in DOMAIN slots /\ slots[i].slot_type = "ISABRIDGE"
  BY DEF Slots
<1>3. /\ H \in SUBSET Nat
      /\ check_bpc_counthostbridge(bpc) = 0 <=> H = {}
      /\ check_bpc_counthostbridge(bpc) > 1 <=> ~ One(H)
      /\ check_bpc_countisabridge(bpc) = 0 <=> B = {}
      /\ check_bpc_countisabridge(bpc) > 1 <=> ~ One(B)
  BY CountIs DEF check_bpc_counthostbridge, check_bpc_countisabridge
<1>4. check_bpc_pciidconflict(bpc) <=> ~ Apart
  <2>1. \A i \in DOMAIN slots :
          slots[i].at \in {slots[j].at : j \in 1 .. i - 1} <=> \E j \in 1 .. i - 1 : slots[i].at = slots[j].at
    OBVIOUS
  <2>2. ASSUME check_bpc_pciidconflict(bpc) PROVE ~ Apart
    <3>1. PICK i \in DOMAIN slots : \E j \in 1 .. i - 1 : slots[i].at = slots[j].at
      BY <2>1, <2>2 DEF check_bpc_pciidconflict
    <3>2. PICK j \in 1 .. i - 1 : slots[i].at = slots[j].at
      BY <3>1
    <3>3. j \in DOMAIN slots /\ j # i
      BY <1>1
    <3>4. QED
      BY <3>2, <3>3
  <2>3. ASSUME ~ Apart PROVE check_bpc_pciidconflict(bpc)
    <3>1. PICK i \in DOMAIN slots, j \in DOMAIN slots : i # j /\ slots[i].at = slots[j].at
      BY <2>3
    <3>2. i \in 1 .. j - 1 \/ j \in 1 .. i - 1
      BY <1>1, <3>1
    <3>3. QED
      BY <2>1, <3>1, <3>2 DEF check_bpc_pciidconflict
  <2>4. QED
    BY <2>2, <2>3
<1> DEFINE Placed == \E s \in ToSet(slots) : s.slot_type = "HOSTBRIDGE" /\ s.at = <<0, 0, 0>>
           Zeroed == \E s \in ToSet(slots) : s.slot_type = "ISABRIDGE" /\ s.at[1] = 0
<1>5. Usable(bpc) <=> /\ bpc.vmname # "" /\ bpc.bootrom # "" /\ Placed /\ Zeroed /\ Apart
                      /\ One(H) /\ One(B)
  <2>1. \A i, j \in DOMAIN slots :
           (slots[i].slot_type = slots[j].slot_type => slots[i].slot_type \notin {"HOSTBRIDGE", "ISABRIDGE"})
           <=> ~ (i \in H /\ j \in H) /\ ~ (i \in B /\ j \in B)
    BY <1>2
  <2>2. One(H) /\ One(B) <=>
          \A i, j \in DOMAIN slots : i # j => ~ (i \in H /\ j \in H) /\ ~ (i \in B /\ j \in B)
    BY <1>2
  <2> HIDE DEF H, B
  <2>3. QED
    BY <2>1, <2>2 DEF Usable
<1>6. /\ Placed <=> \E i \in H : slots[i].at = <<0, 0, 0>>
      /\ Zeroed <=> \E i \in B : slots[i].at[1] = 0
  BY <1>2 DEF ToSet
<1>7. H # {} => Min(H) \in H
  BY <1>3, MinIs
<1>8. check_parameters_ok(bpc) = NULL <=>
        /\ bpc.vmname # "" /\ H # {} /\ One(H) /\ One(B) /\ Apart
        /\ ~ (H # {} /\ slots[Min(H)].at # <<0, 0, 0>>)
        /\ ~ (B = {} /\ \E port \in 0 .. 3 : bpc.comport[port].enabled)
        /\ ~ (bpc.bootrom # "" /\ B = {})
        /\ bpc.bootrom # ""
        /\ ~ \E i \in B : slots[i].at[1] # 0
  <2>1. check_bpc_hostbridgeslot(bpc) <=> H # {} /\ slots[Min(H)].at # <<0, 0, 0>>
    BY DEF check_bpc_hostbridgeslot
  <2>2. check_bpc_comwithisa(bpc) <=> B = {} /\ \E port \in 0 .. 3 : bpc.comport[port].enabled
    BY <1>3 DEF check_bpc_comwithisa
  <2>3. check_bpc_bootromwithisa(bpc) <=> bpc.bootrom # "" /\ B = {}
    BY <1>3 DEF check_bpc_bootromwithisa, check_bpc_bootrom
  <2>4. check_bpc_isabridgebus(bpc) <=> \E i \in B : slots[i].at[1] # 0
    BY <1>2 DEF check_bpc_isabridgebus
  <2> DEFINE c == bpchecks(bpc)
  <2>5. check_parameters_ok(bpc) = NULL <=> \A r \in 1 .. 10 : ~ c[r].broken
    BY FirstBroken
  <2> HIDE DEF c
  <2>6. (\A r \in 1 .. 10 : ~ c[r].broken) <=>
          /\ ~ c[1].broken /\ ~ c[2].broken /\ ~ c[3].broken /\ ~ c[4].broken /\ ~ c[5].broken
          /\ ~ c[6].broken /\ ~ c[7].broken /\ ~ c[8].broken /\ ~ c[9].broken /\ ~ c[10].broken
    OBVIOUS
  <2> HIDE DEF H, B, One, Apart, slots
  <2>7. QED
    BY <1>3, <1>4, <2>1, <2>2, <2>3, <2>4, <2>5, <2>6, RulesAre DEF c, check_bpc_bootrom
<1> HIDE DEF H, B
<1>9. QED
  BY <1>5, <1>6, <1>7, <1>8

----------------------------------------------------------------------------
(***************************************************************************)
(* ptc_translate: a configuration brings at most two slots, the ISA bridge *)
(* for its consoles and the host bridge, in different places.              *)
(***************************************************************************)

(* The slots of a translated configuration. *)
IsaSlot == [slot_type |-> "ISABRIDGE", at |-> <<0, 1, 0>>, device |-> "lpc"]
HostSlot(bc) == [slot_type |-> "HOSTBRIDGE", at |-> <<0, 0, 0>>,
                 device |-> bpp_new_hostbridge(bc.hostbridge).device]
SlotsOf(bc) ==    (IF bc.consoles = <<>> THEN <<>> ELSE <<IsaSlot>>)
               \o (IF bc.hostbridge = NULL THEN <<>> ELSE <<HostSlot(bc)>>)

LEMMA SlotsOfIs ==
    \A bc : /\ IsSeq(SlotsOf(bc))
            /\ \A i \in DOMAIN SlotsOf(bc) :
                  \/ SlotsOf(bc)[i] = IsaSlot /\ bc.consoles # <<>>
                  \/ SlotsOf(bc)[i] = HostSlot(bc) /\ bc.hostbridge # NULL
            /\ \A i, j \in DOMAIN SlotsOf(bc) : i # j => SlotsOf(bc)[i] # SlotsOf(bc)[j]
            /\ bc.consoles # <<>> => \E i \in DOMAIN SlotsOf(bc) : SlotsOf(bc)[i] = IsaSlot
            /\ bc.hostbridge # NULL => \E i \in DOMAIN SlotsOf(bc) : SlotsOf(bc)[i] = HostSlot(bc)
<1> TAKE bc
<1> DEFINE a == IF bc.consoles = <<>> THEN <<>> ELSE <<IsaSlot>>
           b == IF bc.hostbridge = NULL THEN <<>> ELSE <<HostSlot(bc)>>
           s == SlotsOf(bc)
<1>1. /\ IsSeq(a)
      /\ bc.consoles = <<>> => Len(a) = 0
      /\ bc.consoles # <<>> => Len(a) = 1 /\ a[1] = IsaSlot
  BY EmptyIs, OneIs
<1>2. /\ IsSeq(b)
      /\ bc.hostbridge = NULL => Len(b) = 0
      /\ bc.hostbridge # NULL => Len(b) = 1 /\ b[1] = HostSlot(bc)
  BY EmptyIs, OneIs
<1>3. s = a \o b
  BY DEF SlotsOf
<1>4. IsaSlot # HostSlot(bc)
  <2>1. IsaSlot.slot_type = "ISABRIDGE" /\ HostSlot(bc).slot_type = "HOSTBRIDGE"
    BY DEF IsaSlot, HostSlot
  <2>2. QED
    BY <2>1
<1> HIDE DEF a, b, s
<1>5. /\ IsSeq(s) /\ DOMAIN s = 1 .. Len(a) + Len(b)
      /\ \A i \in 1 .. Len(a) : s[i] = a[i]
      /\ \A i \in 1 .. Len(b) : s[Len(a) + i] = b[i]
  BY <1>1, <1>2, <1>3, ConcatIs
<1>6. CASE bc.consoles = <<>> /\ bc.hostbridge = NULL
  <2>1. DOMAIN s = {}
    BY <1>1, <1>2, <1>5, <1>6
  <2>2. QED
    BY <1>5, <1>6, <2>1 DEF s
<1>7. CASE bc.consoles # <<>> /\ bc.hostbridge = NULL
  <2>1. DOMAIN s = {1} /\ s[1] = IsaSlot
    BY <1>1, <1>2, <1>5, <1>7
  <2>2. QED
    BY <1>5, <1>7, <2>1 DEF s
<1>8. CASE bc.consoles = <<>> /\ bc.hostbridge # NULL
  <2>1. DOMAIN s = {1} /\ s[1] = HostSlot(bc)
    BY <1>1, <1>2, <1>5, <1>8
  <2>2. QED
    BY <1>5, <1>8, <2>1 DEF s
<1>9. CASE bc.consoles # <<>> /\ bc.hostbridge # NULL
  <2>1. DOMAIN s = {1, 2} /\ s[1] = IsaSlot /\ s[2] = HostSlot(bc)
    BY <1>1, <1>2, <1>5, <1>9
  <2>2. QED
    BY <1>4, <1>5, <1>9, <2>1 DEF s
<1>10. QED
  BY <1>6, <1>7, <1>8, <1>9

(* What the translation makes of a configuration. *)
LEMMA TranslatedIs ==
    \A bc : LET p == ptc_translate(bc)
            IN  /\ p.vmname = bc.name
                /\ p.bootrom = IF bc.bootrom = NULL THEN "" ELSE bc.bootrom
                /\ p.memory = bc.memory /\ p.numcpus = bc.numcpus
                /\ p.sockets = bc.sockets /\ p.cores = bc.cores
                /\ p.yield_on_hlt = bc.vmexit_on_halt
                /\ p.generate_acpi_tables = bc.generate_acpi_tables
                /\ p.comport = [port \in 0 .. 3 |-> IF bc.consoles = <<>>
                                                    THEN [portname |-> "", enabled |-> FALSE, backend |-> ""]
                                                    ELSE Comport(bc, port)]
                /\ p.pcislots = SlotsOf(bc)
                /\ \A slot : bpc_addpcislot_at(p, slot.at, [slot_type |-> slot.slot_type, device |-> NULL])
                       = [p EXCEPT !.pcislots = <<[slot_type |-> slot.slot_type, at |-> slot.at,
                                                   device |-> NULL]>> \o SlotsOf(bc)]
                /\ \A v : [p EXCEPT !.pcislots = v].pcislots = v
<1> TAKE bc
<1> DEFINE q == TransferCore(bc)
           h == AddHostbridge(q, bc)
           p == ptc_translate(bc)
           B == IF bc.hostbridge = NULL THEN <<>> ELSE <<HostSlot(bc)>>
           fields == {"vmname", "memory", "numcpus", "sockets", "cores", "yield_on_hlt",
                      "generate_acpi_tables", "wire_memory", "bootrom", "comport", "pcislots"}
<1>1. /\ DOMAIN q = fields /\ q = [f \in fields |-> q[f]]
      /\ q.vmname = bc.name
      /\ q.bootrom = IF bc.bootrom = NULL THEN "" ELSE bc.bootrom
      /\ q.memory = bc.memory /\ q.numcpus = bc.numcpus
      /\ q.sockets = bc.sockets /\ q.cores = bc.cores
      /\ q.yield_on_hlt = bc.vmexit_on_halt
      /\ q.generate_acpi_tables = bc.generate_acpi_tables
      /\ q.comport = [port \in 0 .. 3 |-> [portname |-> "", enabled |-> FALSE, backend |-> ""]]
      /\ q.pcislots = <<>>
  <2> DEFINE n == bpc_new(bc.name)
  <2>1. DOMAIN n = fields /\ n.vmname = bc.name /\ n.bootrom = "" /\ n.pcislots = <<>>
        /\ n.comport = [port \in 0 .. 3 |-> [portname |-> "", enabled |-> FALSE, backend |-> ""]]
    BY DEF bpc_new
  <2>2. q = [n EXCEPT !.bootrom              = IF bc.bootrom = NULL THEN n.bootrom ELSE bc.bootrom,
                      !.yield_on_hlt         = bc.vmexit_on_halt,
                      !.generate_acpi_tables = bc.generate_acpi_tables,
                      !.wire_memory          = bc.wire_memory,
                      !.memory               = bc.memory,
                      !.numcpus              = bc.numcpus,
                      !.sockets              = bc.sockets,
                      !.cores                = bc.cores]
    BY DEF TransferCore
  <2> HIDE DEF n, q
  <2>3. DOMAIN q = fields /\ q = [f \in fields |-> q[f]]
    BY <2>1, <2>2
  <2>4. q.vmname = bc.name /\ q.bootrom = IF bc.bootrom = NULL THEN "" ELSE bc.bootrom
    BY <2>1, <2>2
  <2>5. /\ q.memory = bc.memory /\ q.numcpus = bc.numcpus
        /\ q.sockets = bc.sockets /\ q.cores = bc.cores
    BY <2>1, <2>2
  <2>6. q.yield_on_hlt = bc.vmexit_on_halt /\ q.generate_acpi_tables = bc.generate_acpi_tables
    BY <2>1, <2>2
  <2>7. /\ q.comport = [port \in 0 .. 3 |-> [portname |-> "", enabled |-> FALSE, backend |-> ""]]
        /\ q.pcislots = <<>>
    BY <2>1, <2>2
  <2>8. QED
    BY <2>3, <2>4, <2>5, <2>6, <2>7
<1> HIDE DEF q, fields
<1>2. \A v : [q EXCEPT !.pcislots = v] = [f \in fields |-> IF f = "pcislots" THEN v ELSE q[f]]
  BY <1>1
<1>3. h = [f \in fields |-> IF f = "pcislots" THEN B ELSE q[f]]
  <2>1. CASE bc.hostbridge = NULL
    BY <1>1, <2>1 DEF AddHostbridge
  <2>2. CASE bc.hostbridge # NULL
    <3>1. /\ bpp_new_hostbridge(bc.hostbridge).slot_type = "HOSTBRIDGE"
          /\ h = [q EXCEPT !.pcislots = <<[slot_type |-> bpp_new_hostbridge(bc.hostbridge).slot_type,
                                           at |-> <<0, 0, 0>>,
                                           device |-> bpp_new_hostbridge(bc.hostbridge).device]>> \o q.pcislots]
      BY <1>1, <2>2 DEF AddHostbridge, bpc_addpcislot_at, bpp_new_hostbridge
    <3>2. <<HostSlot(bc)>> \o <<>> = <<HostSlot(bc)>>
      OBVIOUS
    <3>3. h = [q EXCEPT !.pcislots = B]
      BY <1>1, <2>2, <3>1, <3>2 DEF HostSlot
    <3>4. QED
      BY <1>2, <3>3
  <2>3. QED
    BY <2>1, <2>2
<1> DEFINE C == [port \in 0 .. 3 |-> Comport(bc, port)]
           g == [h EXCEPT !.comport = C]
<1>4. /\ "pcislots" \in fields /\ "comport" \in fields /\ "vmname" \in fields /\ "memory" \in fields
      /\ "numcpus" \in fields /\ "sockets" \in fields /\ "cores" \in fields /\ "yield_on_hlt" \in fields
      /\ "generate_acpi_tables" \in fields /\ "bootrom" \in fields
  BY DEF fields
<1> HIDE DEF h, C
<1>5. g = [f \in fields |-> IF f = "pcislots" THEN B ELSE IF f = "comport" THEN C ELSE q[f]]
  BY <1>3, <1>4
<1>6. p = [f \in fields |->
             IF f = "pcislots" THEN SlotsOf(bc)
             ELSE IF f = "comport" THEN IF bc.consoles = <<>> THEN q.comport ELSE C
             ELSE q[f]]
  <2>1. p = AddConsoles(h, bc)
    BY DEF p, ptc_translate, h, q
  <2>2. <<>> \o B = B
    BY EmptyIs
  <2>3. CASE bc.consoles = <<>>
    <3>1. p = h /\ SlotsOf(bc) = B
      BY <2>1, <2>2, <2>3 DEF AddConsoles, SlotsOf
    <3>2. QED
      BY <1>3, <2>3, <3>1
  <2>4. CASE bc.consoles # <<>>
    <3>1. SlotsOf(bc) = <<IsaSlot>> \o B
      BY <2>4 DEF SlotsOf
    <3>2. p = bpc_addpcislot_at(g, <<0, 1, 0>>, bpp_new_isabridge)
      BY <2>1, <2>4 DEF AddConsoles, C
    <3> HIDE DEF g
    <3>3. g.pcislots = B
      BY <1>4, <1>5
    <3> HIDE DEF B
    <3>4. p = [g EXCEPT !.pcislots = <<IsaSlot>> \o B]
      BY <3>2, <3>3 DEF bpc_addpcislot_at, bpp_new_isabridge, IsaSlot
    <3>5. QED
      BY <1>5, <2>4, <3>1, <3>4
  <2>5. QED
    BY <2>3, <2>4
<1> HIDE DEF p, B
<1>7. p.pcislots = SlotsOf(bc) /\ p.comport = IF bc.consoles = <<>> THEN q.comport ELSE C
  BY <1>4, <1>6
<1>8. /\ p.vmname = q.vmname /\ p.bootrom = q.bootrom /\ p.memory = q.memory /\ p.numcpus = q.numcpus
      /\ p.sockets = q.sockets /\ p.cores = q.cores /\ p.yield_on_hlt = q.yield_on_hlt
      /\ p.generate_acpi_tables = q.generate_acpi_tables
  BY <1>4, <1>6
<1>9. \A v : [p EXCEPT !.pcislots = v].pcislots = v
  BY <1>4, <1>6
<1>10. \A slot : bpc_addpcislot_at(p, slot.at, [slot_type |-> slot.slot_type, device |-> NULL])
          = [p EXCEPT !.pcislots = <<[slot_type |-> slot.slot_type, at |-> slot.at,
                                      device |-> NULL]>> \o SlotsOf(bc)]
  BY <1>7 DEF bpc_addpcislot_at
<1>11. p.comport = [port \in 0 .. 3 |-> IF bc.consoles = <<>>
                                        THEN [portname |-> "", enabled |-> FALSE, backend |-> ""]
                                        ELSE Comport(bc, port)]
  BY <1>1, <1>7 DEF C
<1>12. QED
  BY <1>1, <1>7, <1>8, <1>9, <1>10, <1>11 DEF p

(***************************************************************************)
(* Whatever the configurations and whatever slot is added to one, the      *)
(* rules of check.c accept a set of parameters exactly when it has what    *)
(* bhyve needs and no two slots are in one place.                          *)
(***************************************************************************)
THEOREM RulesMeanUsable == Spec => []ChecksAreExact
<1>1. ASSUME NEW i \in DOMAIN configs, NEW slot \in ExtraSlots
      PROVE  LET bpc  == ptc_translate(configs[i])
                 more == bpc_addpcislot_at(bpc, slot.at, [slot_type |-> slot.slot_type, device |-> NULL])
             IN  /\ check_parameters_ok(bpc) = NULL <=> Usable(bpc)
                 /\ check_parameters_ok(more) = NULL <=> Usable(more)
  <2> DEFINE bc == configs[i]
             bpc == ptc_translate(bc)
             new == [slot_type |-> slot.slot_type, at |-> slot.at, device |-> NULL]
             more == bpc_addpcislot_at(bpc, slot.at, [slot_type |-> slot.slot_type, device |-> NULL])
  <2>1. IsSeq(SlotsOf(bc)) /\ bpc.pcislots = SlotsOf(bc)
    BY SlotsOfIs, TranslatedIs
  <2>2. more = [bpc EXCEPT !.pcislots = <<new>> \o SlotsOf(bc)]
    BY TranslatedIs
  <2>3. more.pcislots = <<new>> \o SlotsOf(bc)
    <3>1. \A v : [bpc EXCEPT !.pcislots = v].pcislots = v
      BY TranslatedIs
    <3> HIDE DEF bpc, more, new
    <3>2. QED
      BY <2>2, <3>1
  <2> HIDE DEF bc, bpc, new, more
  <2>4. IsSeq(<<new>>)
    BY OneIs
  <2>5. IsSeq(<<new>> \o SlotsOf(bc))
    BY <2>1, <2>4, ConcatIs
  <2>6. IsSeq(bpc.pcislots) /\ IsSeq(more.pcislots)
    BY <2>1, <2>3, <2>5
  <2>7. check_parameters_ok(bpc) = NULL <=> Usable(bpc)
    BY <2>6, RulesAreExact
  <2>8. check_parameters_ok(more) = NULL <=> Usable(more)
    BY <2>6, RulesAreExact
  <2>9. QED
    BY <2>7, <2>8 DEF bc, bpc, more
<1>2. ChecksAreExact
  BY <1>1 DEF ChecksAreExact
<1>3. QED
  BY <1>2, PTL

LEMMA TranslationIs ==
    \A bc : check_parameters_ok(ptc_translate(bc)) =
              IF bc.name = ""                   THEN "non-empty vm name"
              ELSE IF bc.hostbridge = NULL      THEN "hostbridge existence"
              ELSE IF bc.bootrom \in {NULL, ""} THEN "bootrom specified"
              ELSE IF bc.consoles = <<>>        THEN "bootrom requires isa bridge"
              ELSE NULL
<1> TAKE bc
<1> DEFINE p == ptc_translate(bc)
           c == bpchecks(p)
           slots == p.pcislots
           H == Slots(p, "HOSTBRIDGE")
           B == Slots(p, "ISABRIDGE")
<1>1. /\ p.vmname = bc.name
      /\ p.bootrom = IF bc.bootrom = NULL THEN "" ELSE bc.bootrom
      /\ p.comport = [port \in 0 .. 3 |-> IF bc.consoles = <<>>
                                          THEN [portname |-> "", enabled |-> FALSE, backend |-> ""]
                                          ELSE Comport(bc, port)]
      /\ slots = SlotsOf(bc)
  BY TranslatedIs
<1> HIDE DEF p, slots
<1>2. /\ IsSeq(slots)
      /\ \A i \in DOMAIN slots :
            \/ slots[i] = IsaSlot /\ bc.consoles # <<>>
            \/ slots[i] = HostSlot(bc) /\ bc.hostbridge # NULL
      /\ \A i, j \in DOMAIN slots : i # j => slots[i] # slots[j]
      /\ bc.consoles # <<>> => \E i \in DOMAIN slots : slots[i] = IsaSlot
      /\ bc.hostbridge # NULL => \E i \in DOMAIN slots : slots[i] = HostSlot(bc)
  BY <1>1, SlotsOfIs
<1>3. /\ IsaSlot.slot_type = "ISABRIDGE" /\ HostSlot(bc).slot_type = "HOSTBRIDGE"
      /\ IsaSlot.at = <<0, 1, 0>> /\ HostSlot(bc).at = <<0, 0, 0>>
      /\ IsaSlot.at # HostSlot(bc).at /\ IsaSlot.at[1] = 0
  BY DEF IsaSlot, HostSlot
<1>4. \A i : /\ i \in H <=> i \in DOMAIN slots /\ slots[i].slot_type = "HOSTBRIDGE"
             /\ i \in B <=> i \in DOMAIN slots /\ slots[i].slot_type = "ISABRIDGE"
  BY DEF Slots, slots
<1> HIDE DEF H, B
<1>5. \A i \in DOMAIN slots : /\ i \in H <=> slots[i] = HostSlot(bc)
                              /\ i \in B <=> slots[i] = IsaSlot
  BY <1>2, <1>3, <1>4
<1>6. /\ H \subseteq DOMAIN slots /\ B \subseteq DOMAIN slots
      /\ H = {} <=> bc.hostbridge = NULL
      /\ B = {} <=> bc.consoles = <<>>
      /\ ~ (\E i, j \in H : i # j) /\ ~ (\E i, j \in B : i # j)
  <2>1. H \subseteq DOMAIN slots /\ B \subseteq DOMAIN slots
    BY <1>4
  <2>2. H = {} <=> bc.hostbridge = NULL
    BY <1>2, <1>3, <1>5, <2>1
  <2>3. B = {} <=> bc.consoles = <<>>
    BY <1>2, <1>3, <1>5, <2>1
  <2>4. ~ (\E i, j \in H : i # j)
    BY <1>2, <1>5, <2>1
  <2>5. ~ (\E i, j \in B : i # j)
    BY <1>2, <1>5, <2>1
  <2>6. QED
    BY <2>1, <2>2, <2>3, <2>4, <2>5
<1>7. /\ H \in SUBSET Nat
      /\ check_bpc_counthostbridge(p) = 0 <=> bc.hostbridge = NULL
      /\ check_bpc_counthostbridge(p) > 1 <=> FALSE
      /\ check_bpc_countisabridge(p) = 0 <=> bc.consoles = <<>>
      /\ check_bpc_countisabridge(p) > 1 <=> FALSE
  <2>1. /\ H \in SUBSET Nat
        /\ check_bpc_counthostbridge(p) = 0 <=> H = {}
        /\ check_bpc_counthostbridge(p) > 1 <=> (\E i, j \in H : i # j)
        /\ check_bpc_countisabridge(p) = 0 <=> B = {}
        /\ check_bpc_countisabridge(p) > 1 <=> (\E i, j \in B : i # j)
    BY <1>2, CountIs DEF check_bpc_counthostbridge, check_bpc_countisabridge, slots, H, B
  <2>2. QED
    BY <2>1, <1>6
<1>8. ~ check_bpc_hostbridgeslot(p)
  <2>1. H # {} => Min(H) \in H
    BY <1>7, MinIs
  <2>2. H # {} => slots[Min(H)].at = <<0, 0, 0>>
    BY <1>3, <1>5, <1>6, <2>1
  <2>3. QED
    BY <2>2 DEF check_bpc_hostbridgeslot, slots, H
<1>9. ~ check_bpc_comwithisa(p)
  <2>1. ASSUME bc.consoles = <<>>, NEW port \in 0 .. 3 PROVE ~ p.comport[port].enabled
    <3>1. p.comport[port] = [portname |-> "", enabled |-> FALSE, backend |-> ""]
      BY <1>1, <2>1
    <3>2. [portname |-> "", enabled |-> FALSE, backend |-> ""].enabled = FALSE
      OBVIOUS
    <3>4. p.comport[port].enabled = FALSE
      BY <3>1, <3>2
    <3>3. QED
      BY <3>4
  <2>2. QED
    BY <1>7, <2>1 DEF check_bpc_comwithisa
<1>10. ~ check_bpc_isabridgebus(p)
  <2>1. \A i \in B : slots[i].at[1] = 0
    BY <1>3, <1>5, <1>6
  <2>2. QED
    BY <1>4, <2>1 DEF check_bpc_isabridgebus, slots
<1>11. ~ check_bpc_pciidconflict(p)
  <2>1. DOMAIN slots = 1 .. Len(slots) /\ Len(slots) \in Nat
    BY <1>2, IsSeqFacts
  <2>2. ASSUME NEW i \in DOMAIN slots, slots[i].at \in {slots[j].at : j \in 1 .. i - 1} PROVE FALSE
    <3>1. PICK j \in 1 .. i - 1 : slots[i].at = slots[j].at
      BY <2>2
    <3>2. j \in DOMAIN slots /\ j # i
      BY <2>1
    <3>3. QED
      BY <1>2, <1>3, <3>1, <3>2
  <2>3. QED
    BY <2>2 DEF check_bpc_pciidconflict, slots
<1> DEFINE I == {r \in 1 .. 10 : c[r].broken}
<1>12. /\ (1 \in I <=> bc.name = "")
       /\ (2 \in I <=> bc.hostbridge = NULL)
       /\ (7 \in I <=> bc.bootrom \notin {NULL, ""} /\ bc.consoles = <<>>)
       /\ (8 \in I <=> bc.bootrom \in {NULL, ""})
       /\ I \subseteq {1, 2, 7, 8}
  <2>1. check_bpc_bootrom(p) <=> bc.bootrom \in {NULL, ""}
    BY <1>1 DEF check_bpc_bootrom
  <2>2. check_bpc_bootromwithisa(p) <=> bc.bootrom \notin {NULL, ""} /\ bc.consoles = <<>>
    BY <1>7, <2>1 DEF check_bpc_bootromwithisa
  <2>3. /\ (c[1].broken <=> p.vmname = "")
        /\ (c[2].broken <=> check_bpc_counthostbridge(p) = 0)
        /\ (c[3].broken <=> check_bpc_counthostbridge(p) > 1)
        /\ (c[4].broken <=> check_bpc_hostbridgeslot(p))
        /\ (c[5].broken <=> check_bpc_countisabridge(p) > 1)
        /\ (c[6].broken <=> check_bpc_comwithisa(p))
        /\ (c[7].broken <=> check_bpc_bootromwithisa(p))
        /\ (c[8].broken <=> check_bpc_bootrom(p))
        /\ (c[9].broken <=> check_bpc_isabridgebus(p))
        /\ (c[10].broken <=> check_bpc_pciidconflict(p))
    BY RulesAre
  <2> HIDE DEF c
  <2>4. (1 \in I <=> c[1].broken) /\ (2 \in I <=> c[2].broken)
    OBVIOUS
  <2>5. (7 \in I <=> c[7].broken) /\ (8 \in I <=> c[8].broken)
    OBVIOUS
  <2>6. (1 \in I <=> bc.name = "") /\ (2 \in I <=> bc.hostbridge = NULL)
    <3> HIDE DEF I
    <3>1. QED
      BY <1>1, <1>7, <2>3, <2>4
  <2>7. (7 \in I <=> bc.bootrom \notin {NULL, ""} /\ bc.consoles = <<>>)
        /\ (8 \in I <=> bc.bootrom \in {NULL, ""})
    <3> HIDE DEF I
    <3>1. QED
      BY <2>1, <2>2, <2>3, <2>5
  <2>8. 3 \notin I /\ 4 \notin I /\ 5 \notin I /\ 6 \notin I /\ 9 \notin I /\ 10 \notin I
    BY <1>7, <1>8, <1>9, <1>10, <1>11, <2>3
  <2>9. \A r \in I : r \in {1, 2, 3, 4, 5, 6, 7, 8, 9, 10}
    OBVIOUS
  <2>10. I \subseteq {1, 2, 7, 8}
    <3> HIDE DEF I
    <3>1. QED
      BY <2>8, <2>9
  <2>11. QED
    BY <2>6, <2>7, <2>10
<1>13. /\ c[1].rule_name = "non-empty vm name" /\ c[2].rule_name = "hostbridge existence"
       /\ c[7].rule_name = "bootrom requires isa bridge" /\ c[8].rule_name = "bootrom specified"
  BY DEF bpchecks
<1>14. /\ check_parameters_ok(p) = NULL <=> I = {}
       /\ \A r \in I : (\A q \in 1 .. r - 1 : q \notin I) => check_parameters_ok(p) = c[r].rule_name
  <2>1. /\ check_parameters_ok(p) = NULL <=> \A r \in 1 .. 10 : ~ c[r].broken
        /\ \A r \in 1 .. 10 : c[r].broken /\ (\A q \in 1 .. r - 1 : ~ c[q].broken)
                                 => check_parameters_ok(p) = c[r].rule_name
    BY FirstBroken
  <2> HIDE DEF c
  <2>2. check_parameters_ok(p) = NULL <=> I = {}
    BY <2>1
  <2>3. ASSUME NEW r \in I, \A q \in 1 .. r - 1 : q \notin I
        PROVE  check_parameters_ok(p) = c[r].rule_name
    <3>1. r \in 1 .. 10 /\ c[r].broken
      OBVIOUS
    <3>2. \A q \in 1 .. r - 1 : q \in 1 .. 10
      BY <3>1
    <3>3. \A q \in 1 .. r - 1 : ~ c[q].broken
      BY <2>3, <3>2
    <3>4. QED
      BY <2>1, <3>1, <3>3
  <2>4. QED
    BY <2>2, <2>3
<1> HIDE DEF c, I
<1>15. CASE bc.name = ""
  <2>1. 1 \in I
    BY <1>12, <1>15
  <2>2. \A q \in 1 .. 1 - 1 : q \notin I
    <3>1. I \subseteq {1, 2, 7, 8}
      BY <1>12, <1>15
    <3>2. \A q \in 1 .. 1 - 1 : q \notin {1, 2, 7, 8}
      OBVIOUS
    <3>3. QED
      BY <3>1, <3>2
  <2>3. check_parameters_ok(p) = c[1].rule_name
    BY <1>14, <2>1, <2>2
  <2>4. QED
    BY <1>13, <1>15, <2>3 DEF p
<1>16. CASE bc.name # "" /\ bc.hostbridge = NULL
  <2>1. 2 \in I
    BY <1>12, <1>16
  <2>2. \A q \in 1 .. 2 - 1 : q \notin I
    <3>1. I \subseteq {2, 7, 8}
      BY <1>12, <1>16
    <3>2. \A q \in 1 .. 2 - 1 : q \notin {2, 7, 8}
      OBVIOUS
    <3>3. QED
      BY <3>1, <3>2
  <2>3. check_parameters_ok(p) = c[2].rule_name
    BY <1>14, <2>1, <2>2
  <2>4. QED
    BY <1>13, <1>16, <2>3 DEF p
<1>17. CASE bc.name # "" /\ bc.hostbridge # NULL /\ bc.bootrom \in {NULL, ""}
  <2>1. 8 \in I
    BY <1>12, <1>17
  <2>2. \A q \in 1 .. 8 - 1 : q \notin I
    <3>1. I \subseteq {8}
      BY <1>12, <1>17
    <3>2. \A q \in 1 .. 8 - 1 : q \notin {8}
      OBVIOUS
    <3>3. QED
      BY <3>1, <3>2
  <2>3. check_parameters_ok(p) = c[8].rule_name
    BY <1>14, <2>1, <2>2
  <2>4. QED
    BY <1>13, <1>17, <2>3 DEF p
<1>18. CASE bc.name # "" /\ bc.hostbridge # NULL /\ bc.bootrom \notin {NULL, ""} /\ bc.consoles = <<>>
  <2>1. 7 \in I
    BY <1>12, <1>18
  <2>2. \A q \in 1 .. 7 - 1 : q \notin I
    <3>1. I \subseteq {7, 8}
      BY <1>12, <1>18
    <3>2. \A q \in 1 .. 7 - 1 : q \notin {7, 8}
      OBVIOUS
    <3>3. QED
      BY <3>1, <3>2
  <2>3. check_parameters_ok(p) = c[7].rule_name
    BY <1>14, <2>1, <2>2
  <2>4. QED
    BY <1>13, <1>18, <2>3 DEF p
<1>19. CASE bc.name # "" /\ bc.hostbridge # NULL /\ bc.bootrom \notin {NULL, ""} /\ bc.consoles # <<>>
  <2>1. I = {}
    BY <1>12, <1>19
  <2>2. QED
    BY <1>14, <1>19, <2>1 DEF p
<1>20. QED
  BY <1>15, <1>16, <1>17, <1>18, <1>19

(***************************************************************************)
(* For every configuration the rule of check.c that ptc_translate breaks   *)
(* is the one whose setting the administrator left out, and with none left *)
(* out it breaks none.                                                     *)
(***************************************************************************)
THEOREM TranslationsObeyTheRules == Spec => []TranslationObeysRules
<1>1. TranslationObeysRules
  BY TranslationIs DEF TranslationObeysRules
<1>2. QED
  BY <1>1, PTL

----------------------------------------------------------------------------
(***************************************************************************)
(* The reply to the status command: the pieces that stc_collect puts one   *)
(* behind the other are found again by their lengths.                      *)
(***************************************************************************)

Sums(f, n, l) == f = [k \in 1 .. n |-> IF k = 1 THEN 0 ELSE f[k - 1] + l[k - 1]]

LEMMA SumsExist == \A l : \A n \in Nat : \E f : Sums(f, n, l)
<1>1. TAKE l
<1> DEFINE S == {n \in Nat : \E f : Sums(f, n, l)}
<1>2. 0 \in S
  <2>1. Sums([i \in 1 .. 0 |-> i], 0, l)
    BY DEF Sums
  <2>2. QED
    BY <2>1
<1>3. ASSUME NEW n \in S PROVE n + 1 \in S
  <2>1. PICK f : Sums(f, n, l)
    OBVIOUS
  <2> DEFINE g == [i \in 1 .. n + 1 |-> IF i <= n THEN f[i] ELSE IF i = 1 THEN 0 ELSE f[i - 1] + l[i - 1]]
  <2>2. \A i \in 1 .. n : f[i] = IF i = 1 THEN 0 ELSE f[i - 1] + l[i - 1]
    BY <2>1 DEF Sums
  <2>3. DOMAIN g = 1 .. n + 1 /\ g = [i \in 1 .. n + 1 |-> g[i]]
    OBVIOUS
  <2>4. ASSUME NEW i \in 1 .. n + 1 PROVE g[i] = IF i = 1 THEN 0 ELSE g[i - 1] + l[i - 1]
    <3>1. n \in Nat /\ i \in Nat
      OBVIOUS
    <3>2. CASE i = 1
      BY <2>2, <3>1, <3>2
    <3>3. CASE i # 1
      <4>1. i - 1 \in 1 .. n /\ g[i - 1] = f[i - 1]
        BY <3>1, <3>3
      <4>2. g[i] = f[i - 1] + l[i - 1]
        <5>1. CASE i <= n
          <6>1. g[i] = f[i] /\ i \in 1 .. n
            BY <3>1, <5>1
          <6>2. QED
            BY <2>2, <3>3, <6>1
        <5>2. CASE ~ (i <= n)
          BY <3>1, <3>3, <5>2
        <5>3. QED
          BY <5>1, <5>2
      <4>3. QED
        BY <3>3, <4>1, <4>2
    <3>4. QED
      BY <3>2, <3>3
  <2> HIDE DEF g
  <2>5. Sums(g, n + 1, l)
    BY <2>3, <2>4 DEF Sums
  <2>6. QED
    BY <2>5
<1> HIDE DEF S
<1>4. S = Nat
  <2>1. S \in SUBSET Nat
    BY DEF S
  <2>2. QED
    BY <1>2, <1>3, <2>1, AllOfNat
<1>5. QED
  BY <1>4 DEF S

LEMMA OffsetIs ==
    ASSUME NEW l, Len(l) \in Nat, \A k \in 1 .. Len(l) : l[k] \in Nat
    PROVE  /\ Offset(l, 1) = 0
           /\ \A k \in 1 .. Len(l) : Offset(l, k + 1) = Offset(l, k) + l[k]
           /\ \A k \in 1 .. Len(l) + 1 : Offset(l, k) \in Nat
<1> DEFINE n == Len(l) + 1
           before == CHOOSE f : Sums(f, n, l)
<1>1. n \in Nat /\ 1 \in 1 .. n
  OBVIOUS
<1>2. Sums(before, n, l)
  BY <1>1, SumsExist
<1>3. \A k : Offset(l, k) = before[k]
  BY DEF Offset, Sums
<1> HIDE DEF before
<1>4. \A k \in 1 .. n : before[k] = IF k = 1 THEN 0 ELSE before[k - 1] + l[k - 1]
  BY <1>2 DEF Sums
<1>5. ASSUME NEW k \in 1 .. Len(l) PROVE before[k + 1] = before[k] + l[k]
  <2>1. k + 1 \in 1 .. n /\ k + 1 # 1 /\ (k + 1) - 1 = k
    OBVIOUS
  <2>2. QED
    BY <1>4, <2>1
<1> DEFINE S == {k \in Nat : k \in 0 .. Len(l) => before[k + 1] \in Nat}
<1>6. S \in SUBSET Nat /\ 0 \in S
  BY <1>1, <1>4
<1>7. ASSUME NEW k \in S PROVE k + 1 \in S
  <2>1. SUFFICES ASSUME k + 1 \in 0 .. Len(l) PROVE before[(k + 1) + 1] \in Nat
    OBVIOUS
  <2>2. k + 1 \in 1 .. Len(l) /\ k \in 0 .. Len(l)
    BY <2>1
  <2>3. before[k + 1] \in Nat /\ l[k + 1] \in Nat
    BY <2>2
  <2>4. QED
    BY <1>5, <2>2, <2>3
<1> HIDE DEF S
<1>8. S = Nat
  BY <1>6, <1>7, AllOfNat
<1>9. ASSUME NEW k \in 1 .. Len(l) + 1 PROVE before[k] \in Nat
  <2>1. k - 1 \in S /\ k - 1 \in 0 .. Len(l) /\ (k - 1) + 1 = k
    BY <1>8
  <2>2. QED
    BY <2>1 DEF S
<1>10. before[1] = 0
  BY <1>1, <1>4
<1>11. QED
  BY <1>3, <1>5, <1>9, <1>10

(* The pieces are where their lengths say. *)
LEMMA PiecesAre ==
    ASSUME NEW s, IsSeq(s), Len(s) # 0, \A i \in 1 .. Len(s) : IsSeq(s[i]),
           NEW l, Len(l) = Len(s), \A i \in 1 .. Len(s) : l[i] = Len(s[i])
    PROVE  \A i \in 1 .. Len(s) : SubSeq(FlattenSeq(s), Offset(l, i) + 1, Offset(l, i + 1)) = s[i]
<1> DEFINE n == Len(s)
           At(i) == Offset(l, i)
<1>1. n \in Nat /\ n \in 1 .. n
  BY IsSeqFacts
<1>2. \A i \in 1 .. n : Len(s[i]) \in Nat
  BY IsSeqFacts
<1>3. /\ At(1) = 0
      /\ \A k \in 1 .. n : At(k + 1) = At(k) + Len(s[k])
      /\ \A k \in 1 .. n + 1 : At(k) \in Nat
  <2>1. Len(l) \in Nat /\ \A k \in 1 .. Len(l) : l[k] \in Nat
    BY <1>1, <1>2
  <2>2. QED
    BY <2>1, OffsetIs
<1>4. PICK f : Flattens(f, n, s) /\ FlattenSeq(s) = f[n]
  BY FlattenIs
<1>5. \A i \in 1 .. n : f[i] = IF i = 1 THEN s[i] ELSE f[i - 1] \o s[i]
  BY <1>4 DEF Flattens
<1> HIDE DEF n, At
<1> DEFINE Has(c, k) == /\ IsSeq(c) /\ Len(c) = At(k + 1)
                        /\ \A i \in 1 .. k : /\ At(i) + Len(s[i]) <= At(k + 1)
                                             /\ \A j \in 1 .. Len(s[i]) : c[At(i) + j] = s[i][j]
           S == {k \in Nat : k + 1 \in 1 .. n => Has(f[k + 1], k + 1)}
<1>6. 0 \in S
  <2>1. SUFFICES ASSUME 1 \in 1 .. n PROVE Has(f[1], 1)
    BY <1>1
  <2>2. f[1] = s[1] /\ IsSeq(s[1]) /\ Len(s[1]) \in Nat
    BY <1>2, <1>5, <2>1 DEF n
  <2>3. At(1) = 0 /\ At(1 + 1) = Len(s[1])
    BY <1>3, <2>1, <2>2
  <2>4. \A j \in 1 .. Len(s[1]) : 0 + j = j
    BY <2>2
  <2>5. QED
    BY <2>2, <2>3, <2>4
<1>7. ASSUME NEW k \in S PROVE k + 1 \in S
  <2>1. SUFFICES ASSUME (k + 1) + 1 \in 1 .. n PROVE Has(f[(k + 1) + 1], (k + 1) + 1)
    OBVIOUS
  <2> DEFINE m == k + 1
             c == f[m]
             d == f[m + 1]
             e == s[m + 1]
  <2>2. m \in 1 .. n /\ m + 1 \in 1 .. n /\ (m + 1) - 1 = m /\ m + 1 # 1 /\ (m + 1) + 1 \in 1 .. n + 1
    BY <1>1, <2>1
  <2>3. Has(c, m)
    BY <2>2
  <2>4. d = c \o e /\ IsSeq(e) /\ Len(e) \in Nat
    BY <1>2, <1>5, <2>2 DEF n
  <2>5. /\ At((m + 1) + 1) = At(m + 1) + Len(e) /\ At(m + 1) \in Nat /\ At((m + 1) + 1) \in Nat
        /\ \A i \in 1 .. m : At(i) \in Nat /\ Len(s[i]) \in Nat
    BY <1>1, <1>2, <1>3, <2>2 DEF n
  <2> HIDE DEF m, c, d, e, Has
  <2>6. IsSeq(c) /\ Len(c) = At(m + 1)
    BY <2>3 DEF Has
  <2>7. /\ IsSeq(d) /\ Len(d) = At(m + 1) + Len(e)
        /\ \A i \in 1 .. Len(c) : d[i] = c[i]
        /\ \A i \in 1 .. Len(e) : d[At(m + 1) + i] = e[i]
    <3>1. /\ IsSeq(c \o e) /\ Len(c \o e) = Len(c) + Len(e)
          /\ \A i \in 1 .. Len(c) : (c \o e)[i] = c[i]
          /\ \A i \in 1 .. Len(e) : (c \o e)[Len(c) + i] = e[i]
      <4>1. IsSeq(c) /\ IsSeq(e)
        BY <2>4, <2>6
      <4>2. QED
        BY <4>1, ConcatIs
    <3>2. QED
      BY <2>4, <2>6, <3>1
  <2>8. ASSUME NEW i \in 1 .. m + 1
        PROVE  /\ At(i) + Len(s[i]) <= At((m + 1) + 1)
               /\ \A j \in 1 .. Len(s[i]) : d[At(i) + j] = s[i][j]
    <3>1. CASE i = m + 1
      <4>1. At(i) = At(m + 1) /\ s[i] = e
        BY <3>1 DEF e
      <4>2. QED
        BY <2>4, <2>5, <2>7, <4>1
    <3>2. CASE i \in 1 .. m
      <4>1. /\ At(i) + Len(s[i]) <= At(m + 1)
            /\ \A j \in 1 .. Len(s[i]) : c[At(i) + j] = s[i][j]
        BY <2>3, <3>2 DEF Has
      <4>2. At(i) \in Nat /\ Len(s[i]) \in Nat
        BY <2>5, <3>2
      <4>3. ASSUME NEW j \in 1 .. Len(s[i]) PROVE d[At(i) + j] = s[i][j]
        <5>1. At(i) + j \in 1 .. Len(c)
          BY <2>5, <2>6, <4>1, <4>2
        <5>2. QED
          BY <2>7, <4>1, <5>1
      <4>4. At(i) + Len(s[i]) <= At((m + 1) + 1)
        BY <2>4, <2>5, <4>1, <4>2
      <4>5. QED
        BY <4>3, <4>4
    <3>3. m \in Nat
      BY <2>2
    <3>4. QED
      BY <3>1, <3>2, <3>3
  <2>9. Has(d, m + 1)
    BY <2>5, <2>7, <2>8 DEF Has
  <2>10. QED
    BY <2>9 DEF d, m
<1> HIDE DEF Has
<1>8. S = Nat
  <2>1. S \in SUBSET Nat
    OBVIOUS
  <2> HIDE DEF S
  <2>2. QED
    BY <1>6, <1>7, <2>1, AllOfNat
<1>9. Has(f[n], n)
  <2>1. n - 1 \in Nat /\ (n - 1) + 1 = n /\ n # 0
    BY <1>1 DEF n
  <2>2. n - 1 \in S
    BY <1>8, <2>1
  <2>3. QED
    BY <1>1, <2>1, <2>2
<1> HIDE DEF S
<1>10. ASSUME NEW i \in 1 .. n PROVE SubSeq(f[n], At(i) + 1, At(i + 1)) = s[i]
  <2> DEFINE a == At(i)
             b == At(i + 1)
             c == f[n]
             m == Len(s[i])
  <2>1. a \in Nat /\ b = a + m /\ m \in Nat /\ i + 1 \in 1 .. n + 1
    BY <1>1, <1>2, <1>3 DEF n
  <2>2. /\ IsSeq(c) /\ Len(c) = At(n + 1) /\ a + m <= At(n + 1) /\ At(n + 1) \in Nat
        /\ \A j \in 1 .. m : c[a + j] = s[i][j]
    <3>1. n + 1 \in 1 .. n + 1
      BY <1>1
    <3>2. QED
      BY <1>3, <1>9, <3>1 DEF Has
  <2>3. s[i] = [j \in 1 .. m |-> s[i][j]]
    BY IsSeqFacts DEF n
  <2> HIDE DEF a, b, c, m
  <2>4. c \in Seq(ToSet(c))
    BY <2>2 DEF IsSeq
  <2>5. SubSeq(c, a + 1, b) = [j \in 1 .. (1 + b) - (a + 1) |-> c[(j + (a + 1)) - 1]]
    BY <2>1, <2>2, <2>4
  <2>6. (1 + b) - (a + 1) = m
    BY <2>1
  <2>7. \A j \in 1 .. m : (j + (a + 1)) - 1 = a + j
    BY <2>1
  <2>8. SubSeq(c, a + 1, b) = [j \in 1 .. m |-> s[i][j]]
    BY <2>2, <2>5, <2>6, <2>7
  <2>9. QED
    BY <2>3, <2>8 DEF a, b, c
<1>11. QED
  BY <1>4, <1>10 DEF n, At

----------------------------------------------------------------------------
(***************************************************************************)
(* vminfoitem2nvlist, item by item: what each one encodes, and which cells *)
(* of the struct each one decodes.                                         *)
(***************************************************************************)

Cells == {"vmname", "os", "osversion", "vmstate", "pid", "lastboot", "lastboot_high", "owner", "group", "description"}

(* The cells of a struct bhyve_vm_info, all of them. *)
IsInfo(x) == x = [c \in Cells |-> x[c]]

(* Every item has a name of its own, and the mapping reaches every cell. *)
LEMMA ItemsAre ==
    LET map == vminfoitem2nvlist
    IN  /\ Len(map) = 9 /\ IsSeq(map)
        /\ map[1].varname = "vmname" /\ map[1].cell = "vmname" /\ map[1].value_type = "DYNAMICSTRING"
        /\ map[2].varname = "os" /\ map[2].cell = "os" /\ map[2].value_type = "DYNAMICSTRING"
        /\ map[3].varname = "osversion" /\ map[3].cell = "osversion" /\ map[3].value_type = "DYNAMICSTRING"
        /\ map[4].varname = "vmstate" /\ map[4].cell = "vmstate" /\ map[4].value_type = "UINT32"
        /\ map[5].varname = "pid" /\ map[5].cell = "vmstate" /\ map[5].value_type = "UINT64"
        /\ map[6].varname = "lastboot" /\ map[6].cell = "lastboot" /\ map[6].value_type = "UINT64"
        /\ map[7].varname = "owner" /\ map[7].cell = "owner" /\ map[7].value_type = "DYNAMICSTRING"
        /\ map[8].varname = "group" /\ map[8].cell = "group" /\ map[8].value_type = "DYNAMICSTRING"
        /\ map[9].varname = "description" /\ map[9].cell = "description" /\ map[9].value_type = "DYNAMICSTRING"
<1> DEFINE map == vminfoitem2nvlist
<1>1. Len(map) = 9
  BY DEF vminfoitem2nvlist
<1>2. IsSeq(map)
  <2>1. map = [i \in 1 .. 9 |-> map[i]]
    BY DEF vminfoitem2nvlist
  <2> HIDE DEF map
  <2>2. QED
    BY <2>1, SeqIs
<1>3. map[1].varname = "vmname" /\ map[1].cell = "vmname" /\ map[1].value_type = "DYNAMICSTRING"
  BY DEF vminfoitem2nvlist, Item
<1>4. map[2].varname = "os" /\ map[2].cell = "os" /\ map[2].value_type = "DYNAMICSTRING"
  BY DEF vminfoitem2nvlist, Item
<1>5. map[3].varname = "osversion" /\ map[3].cell = "osversion" /\ map[3].value_type = "DYNAMICSTRING"
  BY DEF vminfoitem2nvlist, Item
<1>6. map[4].varname = "vmstate" /\ map[4].cell = "vmstate" /\ map[4].value_type = "UINT32"
  BY DEF vminfoitem2nvlist, Item
<1>7. map[5].varname = "pid" /\ map[5].cell = "vmstate" /\ map[5].value_type = "UINT64"
  BY DEF vminfoitem2nvlist, Item
<1>8. map[6].varname = "lastboot" /\ map[6].cell = "lastboot" /\ map[6].value_type = "UINT64"
  BY DEF vminfoitem2nvlist, Item
<1>9. map[7].varname = "owner" /\ map[7].cell = "owner" /\ map[7].value_type = "DYNAMICSTRING"
  BY DEF vminfoitem2nvlist, Item
<1>10. map[8].varname = "group" /\ map[8].cell = "group" /\ map[8].value_type = "DYNAMICSTRING"
  BY DEF vminfoitem2nvlist, Item
<1>11. map[9].varname = "description" /\ map[9].cell = "description" /\ map[9].value_type = "DYNAMICSTRING"
  BY DEF vminfoitem2nvlist, Item
<1>12. QED
  BY <1>1, <1>2, <1>3, <1>4, <1>5, <1>6, <1>7, <1>8, <1>9, <1>10, <1>11

LEMMA EncodedIs ==
    \A x : LET nvl == bcmd_encodenvlist(vminfoitem2nvlist, x)
           IN  /\ DOMAIN nvl = {"vmname", "os", "osversion", "vmstate", "pid", "lastboot", "owner", "group", "description"}
               /\ nvl["vmname"] = x["vmname"]
               /\ nvl["os"] = x["os"]
               /\ nvl["osversion"] = x["osversion"]
               /\ nvl["vmstate"] = <<x["vmstate"], 0>>
               /\ nvl["pid"] = <<x["vmstate"], x["pid"]>>
               /\ nvl["lastboot"] = <<x["lastboot"], x["lastboot_high"]>>
               /\ nvl["owner"] = x["owner"]
               /\ nvl["group"] = x["group"]
               /\ nvl["description"] = x["description"]
<1> TAKE x
<1> DEFINE map == vminfoitem2nvlist
           N == {map[i].varname : i \in DOMAIN map}
           At(name) == SelectInSeq(map, LAMBDA item : item.varname = name)
           nvl == bcmd_encodenvlist(map, x)
<1>1. DOMAIN map = {1, 2, 3, 4, 5, 6, 7, 8, 9}
  <2>1. DOMAIN map = 1 .. 9
    BY ItemsAre, IsSeqFacts
  <2>2. QED
    BY <2>1
<1>2. /\ N = {"vmname", "os", "osversion", "vmstate", "pid", "lastboot", "owner", "group", "description"}
      /\ \A i, j \in DOMAIN map : map[i].varname = map[j].varname => i = j
  BY <1>1, ItemsAre
<1>3. \A i \in DOMAIN map : At(map[i].varname) = i
  <2>1. SUFFICES ASSUME NEW i \in DOMAIN map PROVE At(map[i].varname) = i
    OBVIOUS
  <2> DEFINE I == {j \in 1 .. Len(map) : map[j].varname = map[i].varname}
  <2>2. At(map[i].varname) = IF I # {} THEN Min(I) ELSE 0
    BY DEF SelectInSeq
  <2>3. 1 .. Len(map) = DOMAIN map
    BY ItemsAre, IsSeqFacts
  <2>4. I = {i}
    BY <1>2, <2>3
  <2>5. I \in SUBSET Nat
    OBVIOUS
  <2> HIDE DEF I, At
  <2>6. Min(I) \in I
    BY <2>4, <2>5, MinIs
  <2>7. QED
    BY <2>2, <2>4, <2>6
<1>4. nvl = [name \in N |-> Encoded(map[At(name)], x)]
  BY DEF bcmd_encodenvlist
<1> HIDE DEF At, N, nvl, map
<1>5. \A i \in DOMAIN map : map[i].varname \in N
  BY DEF N
<1>6. \A i \in DOMAIN map : nvl[map[i].varname] = Encoded(map[i], x)
  BY <1>3, <1>4, <1>5
<1>7. DOMAIN nvl = N
  BY <1>4
<1>8. nvl["vmname"] = x["vmname"]
  BY <1>1, <1>6, ItemsAre DEF map, Encoded, NextCell
<1>9. nvl["os"] = x["os"]
  BY <1>1, <1>6, ItemsAre DEF map, Encoded, NextCell
<1>10. nvl["osversion"] = x["osversion"]
  BY <1>1, <1>6, ItemsAre DEF map, Encoded, NextCell
<1>11. nvl["vmstate"] = <<x["vmstate"], 0>>
  BY <1>1, <1>6, ItemsAre DEF map, Encoded, NextCell
<1>12. nvl["pid"] = <<x["vmstate"], x["pid"]>>
  BY <1>1, <1>6, ItemsAre DEF map, Encoded, NextCell
<1>13. nvl["lastboot"] = <<x["lastboot"], x["lastboot_high"]>>
  BY <1>1, <1>6, ItemsAre DEF map, Encoded, NextCell
<1>14. nvl["owner"] = x["owner"]
  BY <1>1, <1>6, ItemsAre DEF map, Encoded, NextCell
<1>15. nvl["group"] = x["group"]
  BY <1>1, <1>6, ItemsAre DEF map, Encoded, NextCell
<1>16. nvl["description"] = x["description"]
  BY <1>1, <1>6, ItemsAre DEF map, Encoded, NextCell
<1>17. QED
  BY <1>2, <1>7, <1>8, <1>9, <1>10, <1>11, <1>12, <1>13, <1>14, <1>15, <1>16 DEF map, nvl

(* One item is decoded into its cells. *)
LEMMA DecodedIs ==
    ASSUME NEW y, IsInfo(y), NEW item, NEW nvl, item.cell \in Cells
    PROVE  /\ item.value_type = "DYNAMICSTRING" =>
                 Decoded(y, item, nvl) = [c \in Cells |-> IF c = item.cell THEN nvl[item.varname] ELSE y[c]]
           /\ item.value_type = "UINT32" =>
                 Decoded(y, item, nvl) = [c \in Cells |-> IF c = item.cell THEN nvl[item.varname][1] ELSE y[c]]
           /\ item.value_type = "UINT64" /\ item.cell \in {"vmstate", "lastboot"} =>
                 Decoded(y, item, nvl) = [c \in Cells |-> IF c = NextCell[item.cell] THEN nvl[item.varname][2]
                                                          ELSE IF c = item.cell THEN nvl[item.varname][1]
                                                          ELSE y[c]]
<1> DEFINE v == nvl[item.varname]
           t == item.cell
<1>1. y = [c \in Cells |-> y[c]]
  BY DEF IsInfo
<1>2. \A w : [y EXCEPT ![t] = w] = [c \in Cells |-> IF c = t THEN w ELSE y[c]]
  BY <1>1
<1>3. ASSUME item.value_type = "DYNAMICSTRING"
      PROVE  Decoded(y, item, nvl) = [c \in Cells |-> IF c = t THEN v ELSE y[c]]
  <2>1. Decoded(y, item, nvl) = [y EXCEPT ![t] = v]
    BY <1>3 DEF Decoded
  <2>2. QED
    BY <1>2, <2>1
<1>4. ASSUME item.value_type = "UINT32"
      PROVE  Decoded(y, item, nvl) = [c \in Cells |-> IF c = t THEN v[1] ELSE y[c]]
  <2>1. Decoded(y, item, nvl) = [y EXCEPT ![t] = v[1]]
    BY <1>4 DEF Decoded
  <2>2. QED
    BY <1>2, <2>1
<1>5. ASSUME item.value_type = "UINT64", t \in {"vmstate", "lastboot"}
      PROVE  Decoded(y, item, nvl) = [c \in Cells |-> IF c = NextCell[t] THEN v[2]
                                                      ELSE IF c = t THEN v[1] ELSE y[c]]
  <2> DEFINE z == [y EXCEPT ![t] = v[1]]
             u == NextCell[t]
  <2>1. z = [c \in Cells |-> IF c = t THEN v[1] ELSE y[c]]
    BY <1>2
  <2>2. Decoded(y, item, nvl) = [y EXCEPT ![t] = v[1], ![u] = v[2]]
    BY <1>5 DEF Decoded
  <2>3. u \in Cells
    BY <1>5 DEF NextCell, Cells
  <2> HIDE DEF u, v, t
  <2>4. [y EXCEPT ![t] = v[1], ![u] = v[2]] = [z EXCEPT ![u] = v[2]]
    OBVIOUS
  <2> HIDE DEF z
  <2>5. [z EXCEPT ![u] = v[2]] = [c \in Cells |-> IF c = u THEN v[2] ELSE z[c]]
    BY <2>1, <2>3
  <2>6. [c \in Cells |-> IF c = u THEN v[2] ELSE z[c]]
          = [c \in Cells |-> IF c = u THEN v[2] ELSE IF c = t THEN v[1] ELSE y[c]]
    BY <2>1
  <2>7. QED
    BY <2>2, <2>4, <2>5, <2>6 DEF u, v, t
<1> HIDE DEF v, t
<1>6. QED
  BY <1>3, <1>4, <1>5 DEF v, t

LEMMA ZeroIs == IsInfo(ZeroInfo)
BY DEF ZeroInfo, bvmi_new, IsInfo, Cells

After(f, map, nvl) ==
    f = [i \in 0 .. Len(map) |-> IF i = 0 THEN ZeroInfo ELSE Decoded(f[i - 1], map[i], nvl)]

LEMMA AfterExists ==
    \A map, nvl : Len(map) = 9 => \E f : After(f, map, nvl)
<1> TAKE map, nvl
<1> HAVE Len(map) = 9
<1> DEFINE d1 == Decoded(ZeroInfo, map[1], nvl)
<1> DEFINE d2 == Decoded(d1, map[2], nvl)
<1> DEFINE d3 == Decoded(d2, map[3], nvl)
<1> DEFINE d4 == Decoded(d3, map[4], nvl)
<1> DEFINE d5 == Decoded(d4, map[5], nvl)
<1> DEFINE d6 == Decoded(d5, map[6], nvl)
<1> DEFINE d7 == Decoded(d6, map[7], nvl)
<1> DEFINE d8 == Decoded(d7, map[8], nvl)
<1> DEFINE d9 == Decoded(d8, map[9], nvl)
<1> DEFINE d == <<d1, d2, d3, d4, d5, d6, d7, d8, d9>>
           f == [i \in 0 .. 9 |-> IF i = 0 THEN ZeroInfo ELSE d[i]]
<1>1. d[1] = Decoded(ZeroInfo, map[1], nvl)
  <2> HIDE DEF d2, d3, d4, d5, d6, d7, d8, d9
  <2>1. QED
    OBVIOUS
<1>2. d[2] = Decoded(d[1], map[2], nvl)
  <2> HIDE DEF d1, d3, d4, d5, d6, d7, d8, d9
  <2>1. QED
    OBVIOUS
<1>3. d[3] = Decoded(d[2], map[3], nvl)
  <2> HIDE DEF d1, d2, d4, d5, d6, d7, d8, d9
  <2>1. QED
    OBVIOUS
<1>4. d[4] = Decoded(d[3], map[4], nvl)
  <2> HIDE DEF d1, d2, d3, d5, d6, d7, d8, d9
  <2>1. QED
    OBVIOUS
<1>5. d[5] = Decoded(d[4], map[5], nvl)
  <2> HIDE DEF d1, d2, d3, d4, d6, d7, d8, d9
  <2>1. QED
    OBVIOUS
<1>6. d[6] = Decoded(d[5], map[6], nvl)
  <2> HIDE DEF d1, d2, d3, d4, d5, d7, d8, d9
  <2>1. QED
    OBVIOUS
<1>7. d[7] = Decoded(d[6], map[7], nvl)
  <2> HIDE DEF d1, d2, d3, d4, d5, d6, d8, d9
  <2>1. QED
    OBVIOUS
<1>8. d[8] = Decoded(d[7], map[8], nvl)
  <2> HIDE DEF d1, d2, d3, d4, d5, d6, d7, d9
  <2>1. QED
    OBVIOUS
<1>9. d[9] = Decoded(d[8], map[9], nvl)
  <2> HIDE DEF d1, d2, d3, d4, d5, d6, d7, d8
  <2>1. QED
    OBVIOUS
<1> HIDE DEF d
<1>10. ASSUME NEW i \in 0 .. 9 PROVE f[i] = IF i = 0 THEN ZeroInfo ELSE Decoded(f[i - 1], map[i], nvl)
  <2>1. CASE i = 0
    BY <2>1
  <2>2. CASE i = 1
    BY <1>1, <2>2
  <2>3. CASE i = 2
    <3>1. i - 1 \in 0 .. 9 /\ i - 1 # 0 /\ i - 1 = 1 /\ i # 0
      BY <2>3
    <3>2. f[i] = d[2] /\ f[i - 1] = d[1]
      BY <2>3, <3>1
    <3>3. QED
      BY <1>2, <2>3, <3>1, <3>2
  <2>4. CASE i = 3
    <3>1. i - 1 \in 0 .. 9 /\ i - 1 # 0 /\ i - 1 = 2 /\ i # 0
      BY <2>4
    <3>2. f[i] = d[3] /\ f[i - 1] = d[2]
      BY <2>4, <3>1
    <3>3. QED
      BY <1>3, <2>4, <3>1, <3>2
  <2>5. CASE i = 4
    <3>1. i - 1 \in 0 .. 9 /\ i - 1 # 0 /\ i - 1 = 3 /\ i # 0
      BY <2>5
    <3>2. f[i] = d[4] /\ f[i - 1] = d[3]
      BY <2>5, <3>1
    <3>3. QED
      BY <1>4, <2>5, <3>1, <3>2
  <2>6. CASE i = 5
    <3>1. i - 1 \in 0 .. 9 /\ i - 1 # 0 /\ i - 1 = 4 /\ i # 0
      BY <2>6
    <3>2. f[i] = d[5] /\ f[i - 1] = d[4]
      BY <2>6, <3>1
    <3>3. QED
      BY <1>5, <2>6, <3>1, <3>2
  <2>7. CASE i = 6
    <3>1. i - 1 \in 0 .. 9 /\ i - 1 # 0 /\ i - 1 = 5 /\ i # 0
      BY <2>7
    <3>2. f[i] = d[6] /\ f[i - 1] = d[5]
      BY <2>7, <3>1
    <3>3. QED
      BY <1>6, <2>7, <3>1, <3>2
  <2>8. CASE i = 7
    <3>1. i - 1 \in 0 .. 9 /\ i - 1 # 0 /\ i - 1 = 6 /\ i # 0
      BY <2>8
    <3>2. f[i] = d[7] /\ f[i - 1] = d[6]
      BY <2>8, <3>1
    <3>3. QED
      BY <1>7, <2>8, <3>1, <3>2
  <2>9. CASE i = 8
    <3>1. i - 1 \in 0 .. 9 /\ i - 1 # 0 /\ i - 1 = 7 /\ i # 0
      BY <2>9
    <3>2. f[i] = d[8] /\ f[i - 1] = d[7]
      BY <2>9, <3>1
    <3>3. QED
      BY <1>8, <2>9, <3>1, <3>2
  <2>10. CASE i = 9
    <3>1. i - 1 \in 0 .. 9 /\ i - 1 # 0 /\ i - 1 = 8 /\ i # 0
      BY <2>10
    <3>2. f[i] = d[9] /\ f[i - 1] = d[8]
      BY <2>10, <3>1
    <3>3. QED
      BY <1>9, <2>10, <3>1, <3>2
  <2>11. i \in {0, 1, 2, 3, 4, 5, 6, 7, 8, 9}
    OBVIOUS
  <2>12. QED
    BY <2>1, <2>2, <2>3, <2>4, <2>5, <2>6, <2>7, <2>8, <2>9, <2>10, <2>11
<1>11. f = [i \in 0 .. 9 |-> f[i]]
  OBVIOUS
<1> HIDE DEF f
<1>12. f = [i \in 0 .. 9 |-> IF i = 0 THEN ZeroInfo ELSE Decoded(f[i - 1], map[i], nvl)]
  BY <1>10, <1>11
<1>13. After(f, map, nvl)
  BY <1>12 DEF After
<1>14. QED
  BY <1>13

(* A struct that is encoded and decoded is as it was. *)
LEMMA InfoComesBack ==
    ASSUME NEW x, IsInfo(x)
    PROVE  bcmd_decodenvlist(vminfoitem2nvlist, bcmd_encodenvlist(vminfoitem2nvlist, x)) = x
<1> DEFINE map == vminfoitem2nvlist
           nvl == bcmd_encodenvlist(map, x)
           after == CHOOSE f : After(f, map, nvl)
           Agrees(y, done) == IsInfo(y) /\ \A c \in done : y[c] = x[c]
<1>1. Len(map) = 9
  BY ItemsAre
<1>2. After(after, map, nvl)
  BY <1>1, AfterExists
<1>3. bcmd_decodenvlist(map, nvl) = after[9]
  BY <1>1 DEF bcmd_decodenvlist, After
<1>4. after[0] = ZeroInfo /\ \A i \in 1 .. 9 : after[i] = Decoded(after[i - 1], map[i], nvl)
  <2> HIDE DEF after, map, nvl
  <2>1. \A i \in 0 .. 9 : after[i] = IF i = 0 THEN ZeroInfo ELSE Decoded(after[i - 1], map[i], nvl)
    BY <1>1, <1>2 DEF After
  <2>2. \A i \in 1 .. 9 : i \in 0 .. 9 /\ i # 0
    OBVIOUS
  <2>3. QED
    BY <2>1, <2>2
<1> HIDE DEF after
<1>5. Agrees(after[0], {})
  BY <1>4, ZeroIs
<1>6. Agrees(after[1], {"vmname"})
  <2> DEFINE y == after[0]
             item == map[1]
  <2>1. after[1] = Decoded(y, item, nvl)
    BY <1>4
  <2>2. Agrees(y, {})
    BY <1>5
  <2>3. item.varname = "vmname" /\ item.cell = "vmname" /\ item.value_type = "DYNAMICSTRING"
    BY ItemsAre
  <2>4. nvl[item.varname] = x["vmname"]
    BY <2>3, EncodedIs
  <2> HIDE DEF y, item, nvl
  <2>5. Decoded(y, item, nvl) = [c \in Cells |-> IF c = "vmname" THEN x["vmname"] ELSE y[c]]
    <3>1. IsInfo(y) /\ item.cell \in Cells
      BY <2>2, <2>3 DEF Cells
    <3>2. QED
      BY <2>3, <2>4, <3>1, DecodedIs DEF NextCell
  <2>6. IsInfo(after[1])
    BY <2>1, <2>5 DEF IsInfo
  <2>7. QED
    BY <2>1, <2>2, <2>5, <2>6 DEF Cells
<1>7. Agrees(after[2], {"vmname", "os"})
  <2> DEFINE y == after[1]
             item == map[2]
  <2>1. after[2] = Decoded(y, item, nvl)
    BY <1>4
  <2>2. Agrees(y, {"vmname"})
    BY <1>6
  <2>3. item.varname = "os" /\ item.cell = "os" /\ item.value_type = "DYNAMICSTRING"
    BY ItemsAre
  <2>4. nvl[item.varname] = x["os"]
    BY <2>3, EncodedIs
  <2> HIDE DEF y, item, nvl
  <2>5. Decoded(y, item, nvl) = [c \in Cells |-> IF c = "os" THEN x["os"] ELSE y[c]]
    <3>1. IsInfo(y) /\ item.cell \in Cells
      BY <2>2, <2>3 DEF Cells
    <3>2. QED
      BY <2>3, <2>4, <3>1, DecodedIs DEF NextCell
  <2>6. IsInfo(after[2])
    BY <2>1, <2>5 DEF IsInfo
  <2>7. QED
    BY <2>1, <2>2, <2>5, <2>6 DEF Cells
<1>8. Agrees(after[3], {"vmname", "os", "osversion"})
  <2> DEFINE y == after[2]
             item == map[3]
  <2>1. after[3] = Decoded(y, item, nvl)
    BY <1>4
  <2>2. Agrees(y, {"vmname", "os"})
    BY <1>7
  <2>3. item.varname = "osversion" /\ item.cell = "osversion" /\ item.value_type = "DYNAMICSTRING"
    BY ItemsAre
  <2>4. nvl[item.varname] = x["osversion"]
    BY <2>3, EncodedIs
  <2> HIDE DEF y, item, nvl
  <2>5. Decoded(y, item, nvl) = [c \in Cells |-> IF c = "osversion" THEN x["osversion"] ELSE y[c]]
    <3>1. IsInfo(y) /\ item.cell \in Cells
      BY <2>2, <2>3 DEF Cells
    <3>2. QED
      BY <2>3, <2>4, <3>1, DecodedIs DEF NextCell
  <2>6. IsInfo(after[3])
    BY <2>1, <2>5 DEF IsInfo
  <2>7. QED
    BY <2>1, <2>2, <2>5, <2>6 DEF Cells
<1>9. Agrees(after[4], {"vmname", "os", "osversion", "vmstate"})
  <2> DEFINE y == after[3]
             item == map[4]
  <2>1. after[4] = Decoded(y, item, nvl)
    BY <1>4
  <2>2. Agrees(y, {"vmname", "os", "osversion"})
    BY <1>8
  <2>3. item.varname = "vmstate" /\ item.cell = "vmstate" /\ item.value_type = "UINT32"
    BY ItemsAre
  <2>4. nvl[item.varname] = <<x["vmstate"], 0>>
    BY <2>3, EncodedIs
  <2> HIDE DEF y, item, nvl
  <2>5. Decoded(y, item, nvl) = [c \in Cells |-> IF c = "vmstate" THEN x["vmstate"] ELSE y[c]]
    <3>1. IsInfo(y) /\ item.cell \in Cells
      BY <2>2, <2>3 DEF Cells
    <3>2. QED
      BY <2>3, <2>4, <3>1, DecodedIs DEF NextCell
  <2>6. IsInfo(after[4])
    BY <2>1, <2>5 DEF IsInfo
  <2>7. QED
    BY <2>1, <2>2, <2>5, <2>6 DEF Cells
<1>10. Agrees(after[5], {"vmname", "os", "osversion", "vmstate", "pid"})
  <2> DEFINE y == after[4]
             item == map[5]
  <2>1. after[5] = Decoded(y, item, nvl)
    BY <1>4
  <2>2. Agrees(y, {"vmname", "os", "osversion", "vmstate"})
    BY <1>9
  <2>3. item.varname = "pid" /\ item.cell = "vmstate" /\ item.value_type = "UINT64"
    BY ItemsAre
  <2>4. nvl[item.varname] = <<x["vmstate"], x["pid"]>>
    BY <2>3, EncodedIs
  <2> HIDE DEF y, item, nvl
  <2>5. Decoded(y, item, nvl) = [c \in Cells |-> IF c = "pid" THEN x["pid"] ELSE IF c = "vmstate" THEN x["vmstate"] ELSE y[c]]
    <3>1. IsInfo(y) /\ item.cell \in Cells
      BY <2>2, <2>3 DEF Cells
    <3>2. QED
      BY <2>3, <2>4, <3>1, DecodedIs DEF NextCell
  <2>6. IsInfo(after[5])
    BY <2>1, <2>5 DEF IsInfo
  <2>7. QED
    BY <2>1, <2>2, <2>5, <2>6 DEF Cells
<1>11. Agrees(after[6], {"vmname", "os", "osversion", "vmstate", "pid", "lastboot", "lastboot_high"})
  <2> DEFINE y == after[5]
             item == map[6]
  <2>1. after[6] = Decoded(y, item, nvl)
    BY <1>4
  <2>2. Agrees(y, {"vmname", "os", "osversion", "vmstate", "pid"})
    BY <1>10
  <2>3. item.varname = "lastboot" /\ item.cell = "lastboot" /\ item.value_type = "UINT64"
    BY ItemsAre
  <2>4. nvl[item.varname] = <<x["lastboot"], x["lastboot_high"]>>
    BY <2>3, EncodedIs
  <2> HIDE DEF y, item, nvl
  <2>5. Decoded(y, item, nvl) = [c \in Cells |-> IF c = "lastboot_high" THEN x["lastboot_high"] ELSE IF c = "lastboot" THEN x["lastboot"] ELSE y[c]]
    <3>1. IsInfo(y) /\ item.cell \in Cells
      BY <2>2, <2>3 DEF Cells
    <3>2. QED
      BY <2>3, <2>4, <3>1, DecodedIs DEF NextCell
  <2>6. IsInfo(after[6])
    BY <2>1, <2>5 DEF IsInfo
  <2>7. QED
    BY <2>1, <2>2, <2>5, <2>6 DEF Cells
<1>12. Agrees(after[7], {"vmname", "os", "osversion", "vmstate", "pid", "lastboot", "lastboot_high", "owner"})
  <2> DEFINE y == after[6]
             item == map[7]
  <2>1. after[7] = Decoded(y, item, nvl)
    BY <1>4
  <2>2. Agrees(y, {"vmname", "os", "osversion", "vmstate", "pid", "lastboot", "lastboot_high"})
    BY <1>11
  <2>3. item.varname = "owner" /\ item.cell = "owner" /\ item.value_type = "DYNAMICSTRING"
    BY ItemsAre
  <2>4. nvl[item.varname] = x["owner"]
    BY <2>3, EncodedIs
  <2> HIDE DEF y, item, nvl
  <2>5. Decoded(y, item, nvl) = [c \in Cells |-> IF c = "owner" THEN x["owner"] ELSE y[c]]
    <3>1. IsInfo(y) /\ item.cell \in Cells
      BY <2>2, <2>3 DEF Cells
    <3>2. QED
      BY <2>3, <2>4, <3>1, DecodedIs DEF NextCell
  <2>6. IsInfo(after[7])
    BY <2>1, <2>5 DEF IsInfo
  <2>7. QED
    BY <2>1, <2>2, <2>5, <2>6 DEF Cells
<1>13. Agrees(after[8], {"vmname", "os", "osversion", "vmstate", "pid", "lastboot", "lastboot_high", "owner", "group"})
  <2> DEFINE y == after[7]
             item == map[8]
  <2>1. after[8] = Decoded(y, item, nvl)
    BY <1>4
  <2>2. Agrees(y, {"vmname", "os", "osversion", "vmstate", "pid", "lastboot", "lastboot_high", "owner"})
    BY <1>12
  <2>3. item.varname = "group" /\ item.cell = "group" /\ item.value_type = "DYNAMICSTRING"
    BY ItemsAre
  <2>4. nvl[item.varname] = x["group"]
    BY <2>3, EncodedIs
  <2> HIDE DEF y, item, nvl
  <2>5. Decoded(y, item, nvl) = [c \in Cells |-> IF c = "group" THEN x["group"] ELSE y[c]]
    <3>1. IsInfo(y) /\ item.cell \in Cells
      BY <2>2, <2>3 DEF Cells
    <3>2. QED
      BY <2>3, <2>4, <3>1, DecodedIs DEF NextCell
  <2>6. IsInfo(after[8])
    BY <2>1, <2>5 DEF IsInfo
  <2>7. QED
    BY <2>1, <2>2, <2>5, <2>6 DEF Cells
<1>14. Agrees(after[9], {"vmname", "os", "osversion", "vmstate", "pid", "lastboot", "lastboot_high", "owner", "group", "description"})
  <2> DEFINE y == after[8]
             item == map[9]
  <2>1. after[9] = Decoded(y, item, nvl)
    BY <1>4
  <2>2. Agrees(y, {"vmname", "os", "osversion", "vmstate", "pid", "lastboot", "lastboot_high", "owner", "group"})
    BY <1>13
  <2>3. item.varname = "description" /\ item.cell = "description" /\ item.value_type = "DYNAMICSTRING"
    BY ItemsAre
  <2>4. nvl[item.varname] = x["description"]
    BY <2>3, EncodedIs
  <2> HIDE DEF y, item, nvl
  <2>5. Decoded(y, item, nvl) = [c \in Cells |-> IF c = "description" THEN x["description"] ELSE y[c]]
    <3>1. IsInfo(y) /\ item.cell \in Cells
      BY <2>2, <2>3 DEF Cells
    <3>2. QED
      BY <2>3, <2>4, <3>1, DecodedIs DEF NextCell
  <2>6. IsInfo(after[9])
    BY <2>1, <2>5 DEF IsInfo
  <2>7. QED
    BY <2>1, <2>2, <2>5, <2>6 DEF Cells
<1>15. after[9] = x
  BY <1>14 DEF IsInfo, Cells
<1>16. QED
  BY <1>3, <1>15

----------------------------------------------------------------------------
(***************************************************************************)
(* The reply as a whole, and the short names of the states.                *)
(***************************************************************************)

LEMMA NamesFinite ==
    ASSUME NEW nvl, DOMAIN nvl = {"vmname", "os", "osversion", "vmstate", "pid", "lastboot", "owner", "group", "description"},
           NEW S \in SUBSET DOMAIN nvl
    PROVE  Cardinality(S) \in Nat
<1> DEFINE A == {"vmname"} \cup {"os"}
           B == (A \cup {"osversion"}) \cup {"vmstate"}
           C == (B \cup {"pid"}) \cup {"lastboot"}
           D == ((C \cup {"owner"}) \cup {"group"}) \cup {"description"}
<1>1. IsFiniteSet(A)
  BY FS_Singleton, FS_AddElement
<1> HIDE DEF A
<1>2. IsFiniteSet(A \cup {"osversion"})
  BY <1>1, FS_AddElement
<1>3. IsFiniteSet(B)
  BY <1>2, FS_AddElement
<1> HIDE DEF B
<1>4. IsFiniteSet(B \cup {"pid"})
  BY <1>3, FS_AddElement
<1>5. IsFiniteSet(C)
  BY <1>4, FS_AddElement
<1> HIDE DEF C
<1>6. IsFiniteSet(C \cup {"owner"})
  BY <1>5, FS_AddElement
<1>7. IsFiniteSet((C \cup {"owner"}) \cup {"group"})
  BY <1>6, FS_AddElement
<1>8. IsFiniteSet(D)
  BY <1>7, FS_AddElement
<1>9. D = DOMAIN nvl
  BY DEF A, B, C
<1> HIDE DEF D
<1>10. QED
  BY <1>8, <1>9, FS_Subset, FS_CardinalityType

(* A packed list is never empty, and its bytes give it back. *)
LEMMA PackIs ==
    ASSUME NEW nvl, DOMAIN nvl = {"vmname", "os", "osversion", "vmstate", "pid", "lastboot", "owner", "group", "description"}
    PROVE  /\ IsSeq(nvlist_pack(nvl))
           /\ nvlist_unpack(nvlist_pack(nvl)) = nvl
<1> DEFINE k == Cardinality({name \in DOMAIN nvl : nvl[name] # NULL})
           bytes == nvlist_pack(nvl)
<1>1. k \in Nat
  BY NamesFinite
<1>2. bytes = [i \in 1 .. 1 + k |-> [list |-> nvl, byte |-> i]]
  BY DEF nvlist_pack
<1> HIDE DEF k
<1>3. 1 + k \in Nat /\ 1 \in 1 .. 1 + k
  BY <1>1
<1>4. bytes = [i \in 1 .. 1 + k |-> bytes[i]] /\ bytes[1] = [list |-> nvl, byte |-> 1]
  BY <1>2, <1>3
<1> HIDE DEF bytes
<1>5. IsSeq(bytes) /\ Len(bytes) = 1 + k /\ DOMAIN bytes = 1 .. 1 + k
  BY <1>3, <1>4, SeqIs
<1>6. bytes # <<>>
  BY <1>3, <1>5
<1>7. Head(bytes) = bytes[1]
  BY <1>3, <1>5, <1>6 DEF IsSeq
<1>8. Head(bytes).list = nvl
  BY <1>4, <1>7
<1>9. nvlist_unpack(bytes) = nvl
  BY <1>6, <1>8 DEF nvlist_unpack, bytes
<1>10. QED
  BY <1>5, <1>9 DEF bytes

(* What is packed for all machines is unpacked for each. *)
LEMMA InfosComeBack ==
    ASSUME NEW infos, IsSeq(infos), infos # <<>>, \A i \in DOMAIN infos : IsInfo(infos[i])
    PROVE  bvmmi_decodenvlist(bvmmi_encodenvlist(infos)) = infos
<1> DEFINE map == vminfoitem2nvlist
           n == Len(infos)
           lists == [i \in DOMAIN infos |-> bcmd_encodenvlist(map, infos[i])]
           packs == [i \in DOMAIN infos |-> nvlist_pack(bcmd_encodenvlist(map, infos[i]))]
           lens == [i \in DOMAIN packs |-> Len(packs[i])]
           reply == bvmmi_encodenvlist(infos)
<1>1. n \in Nat /\ DOMAIN infos = 1 .. n /\ infos = [i \in 1 .. n |-> infos[i]]
  BY IsSeqFacts
<1>2. n # 0
  BY <1>1
<1>3. DOMAIN packs = DOMAIN infos /\ packs = [i \in DOMAIN infos |-> packs[i]]
  OBVIOUS
<1>4. \A i \in 1 .. n : packs[i] = nvlist_pack(bcmd_encodenvlist(map, infos[i]))
  BY <1>1
<1>5. bvmmi_encodenvlist(infos) = LET collected == stc_collect(packs)
                                  IN  IF collected.result # 0 THEN NULL
                                      ELSE [vm_count |-> Len(infos), lengths |-> collected.buffer_lens,
                                            vm_infos |-> collected.buffer]
  BY DEF bvmmi_encodenvlist
<1> HIDE DEF map, packs, reply, n
<1>6. IsSeq(packs) /\ Len(packs) = n
  BY <1>1, <1>3, MapIs DEF n
<1>7. \A i \in 1 .. n : /\ IsSeq(packs[i])
                         /\ nvlist_unpack(packs[i]) = bcmd_encodenvlist(map, infos[i])
  <2>1. SUFFICES ASSUME NEW i \in 1 .. n
                 PROVE  IsSeq(packs[i]) /\ nvlist_unpack(packs[i]) = bcmd_encodenvlist(map, infos[i])
    OBVIOUS
  <2> DEFINE nvl == bcmd_encodenvlist(map, infos[i])
  <2>2. DOMAIN nvl = {"vmname", "os", "osversion", "vmstate", "pid", "lastboot", "owner", "group", "description"}
    BY EncodedIs DEF map
  <2> HIDE DEF nvl
  <2>3. IsSeq(nvlist_pack(nvl)) /\ nvlist_unpack(nvlist_pack(nvl)) = nvl
    BY <2>2, PackIs
  <2>4. QED
    BY <1>4, <2>3 DEF nvl
<1>8. packs # <<>>
  BY <1>1, <1>2, <1>3
<1>9. stc_collect(packs) = [result |-> 0, buffer |-> FlattenSeq(packs), buffer_lens |-> lens]
  BY <1>8 DEF stc_collect
<1>10. lens = [i \in 1 .. n |-> lens[i]] /\ \A i \in 1 .. n : lens[i] = Len(packs[i])
  BY <1>1, <1>3
<1> HIDE DEF lens
<1>11. IsSeq(lens) /\ Len(lens) = n
  BY <1>1, <1>10, SeqIs
<1>12. reply = [vm_count |-> n, lengths |-> lens, vm_infos |-> FlattenSeq(packs)]
  BY <1>5, <1>9 DEF reply, n
<1>13. reply.vm_count = n /\ reply.lengths = lens /\ reply.vm_infos = FlattenSeq(packs)
  BY <1>12
<1>14. \A i \in 1 .. n : SubSeq(FlattenSeq(packs), Offset(lens, i) + 1, Offset(lens, i + 1)) = packs[i]
  <2>1. Len(packs) # 0
    BY <1>2, <1>6
  <2>2. \A i \in 1 .. Len(packs) : IsSeq(packs[i])
    BY <1>6, <1>7
  <2>3. Len(lens) = Len(packs) /\ \A i \in 1 .. Len(packs) : lens[i] = Len(packs[i])
    BY <1>6, <1>10, <1>11
  <2>4. QED
    BY <1>6, <2>1, <2>2, <2>3, PiecesAre
<1>15. \A i \in 1 .. n : bcmd_decodenvlist(map, bcmd_encodenvlist(map, infos[i])) = infos[i]
  BY <1>1, InfoComesBack DEF map
<1>16. bvmmi_decodenvlist(reply) = [i \in 1 .. n |-> bcmd_decodenvlist(map, nvlist_unpack(
                 SubSeq(FlattenSeq(packs), Offset(lens, i) + 1, Offset(lens, i + 1))))]
  BY <1>13 DEF bvmmi_decodenvlist, map
<1>17. \A i \in 1 .. n : bcmd_decodenvlist(map, nvlist_unpack(
                 SubSeq(FlattenSeq(packs), Offset(lens, i) + 1, Offset(lens, i + 1)))) = infos[i]
  BY <1>7, <1>14, <1>15
<1>18. QED
  BY <1>1, <1>16, <1>17 DEF reply

LEMMA InfoIs ==
    ASSUME Machines
    PROVE  /\ IsSeq(bd_getinfo) /\ Len(bd_getinfo) = Len(vms) /\ DOMAIN bd_getinfo = DOMAIN vms
           /\ \A i \in DOMAIN bd_getinfo : IsInfo(bd_getinfo[i])
<1> DEFINE g == bd_getinfo
<1>1. DOMAIN g = DOMAIN vms /\ g = [i \in DOMAIN vms |-> g[i]]
  BY DEF bd_getinfo
<1>2. \A bc, s, p, b : IsInfo(bvmi_new(bc, s, p, b))
  BY DEF bvmi_new, IsInfo, Cells
<1>3. ASSUME NEW i \in DOMAIN vms PROVE IsInfo(g[i])
  <2>1. \E bc, s, p, b : g[i] = bvmi_new(bc, s, p, b)
    BY DEF bd_getinfo
  <2>2. QED
    BY <1>2, <2>1
<1> HIDE DEF g
<1>4. IsSeq(g) /\ Len(g) = Len(vms)
  BY <1>1, MapIs DEF Machines
<1>5. QED
  BY <1>1, <1>3, <1>4 DEF g

(* The short name of each state, one by one. *)
Short ==
    [INIT |-> "INIT",
     START_NETWORK |-> "STNW",
     PRESTART_AFTER_RESTART |-> "RPRE",
     START_STORAGE |-> "SAST",
     START_AFTER_RESTART |-> "RAST",
     RUNNING |-> "RUNN",
     RESTARTED |-> "RRUN",
     STOPPING |-> "STOP",
     STOP_STORAGE |-> "SOST",
     PRESTOP_BEFORE_RESTART |-> "PRER",
     STOP_NETWORK |-> "SONW",
     RESTARTING |-> "REST",
     STOPPED |-> "STPD",
     RESTART_STOPPED |-> "RSTP",
     FAILED |-> "FAIL"]

LEMMA ShortIs == \A s \in DOMAIN vmstate : s \in DOMAIN Short /\ bvmi_get_statestring(vmstate[s]) = Short[s]
<1>1. DOMAIN vmstate = {"INIT", "START_NETWORK", "PRESTART_AFTER_RESTART", "START_STORAGE", "START_AFTER_RESTART", "RUNNING", "RESTARTED", "STOPPING", "STOP_STORAGE", "PRESTOP_BEFORE_RESTART", "STOP_NETWORK", "RESTARTING", "STOPPED", "RESTART_STOPPED", "FAILED"}
  BY DEF vmstate
<1>2. DOMAIN Short = DOMAIN vmstate
  BY DEF Short, vmstate
<1>3. bvmi_get_statestring(vmstate["INIT"]) = Short["INIT"]
  <2>1. vmstate["INIT"] = 0 /\ Short["INIT"] = "INIT"
    BY DEF vmstate, Short
  <2>2. bvmi_get_statestring(0) = "INIT"
    BY DEF bvmi_get_statestring
  <2>3. QED
    BY <2>1, <2>2
<1>4. bvmi_get_statestring(vmstate["START_NETWORK"]) = Short["START_NETWORK"]
  <2>1. vmstate["START_NETWORK"] = 10 /\ Short["START_NETWORK"] = "STNW"
    BY DEF vmstate, Short
  <2>2. bvmi_get_statestring(10) = "STNW"
    BY DEF bvmi_get_statestring
  <2>3. QED
    BY <2>1, <2>2
<1>5. bvmi_get_statestring(vmstate["PRESTART_AFTER_RESTART"]) = Short["PRESTART_AFTER_RESTART"]
  <2>1. vmstate["PRESTART_AFTER_RESTART"] = 11 /\ Short["PRESTART_AFTER_RESTART"] = "RPRE"
    BY DEF vmstate, Short
  <2>2. bvmi_get_statestring(11) = "RPRE"
    BY DEF bvmi_get_statestring
  <2>3. QED
    BY <2>1, <2>2
<1>6. bvmi_get_statestring(vmstate["START_STORAGE"]) = Short["START_STORAGE"]
  <2>1. vmstate["START_STORAGE"] = 20 /\ Short["START_STORAGE"] = "SAST"
    BY DEF vmstate, Short
  <2>2. bvmi_get_statestring(20) = "SAST"
    BY DEF bvmi_get_statestring
  <2>3. QED
    BY <2>1, <2>2
<1>7. bvmi_get_statestring(vmstate["START_AFTER_RESTART"]) = Short["START_AFTER_RESTART"]
  <2>1. vmstate["START_AFTER_RESTART"] = 21 /\ Short["START_AFTER_RESTART"] = "RAST"
    BY DEF vmstate, Short
  <2>2. bvmi_get_statestring(21) = "RAST"
    BY DEF bvmi_get_statestring
  <2>3. QED
    BY <2>1, <2>2
<1>8. bvmi_get_statestring(vmstate["RUNNING"]) = Short["RUNNING"]
  <2>1. vmstate["RUNNING"] = 100 /\ Short["RUNNING"] = "RUNN"
    BY DEF vmstate, Short
  <2>2. bvmi_get_statestring(100) = "RUNN"
    BY DEF bvmi_get_statestring
  <2>3. QED
    BY <2>1, <2>2
<1>9. bvmi_get_statestring(vmstate["RESTARTED"]) = Short["RESTARTED"]
  <2>1. vmstate["RESTARTED"] = 101 /\ Short["RESTARTED"] = "RRUN"
    BY DEF vmstate, Short
  <2>2. bvmi_get_statestring(101) = "RRUN"
    BY DEF bvmi_get_statestring
  <2>3. QED
    BY <2>1, <2>2
<1>10. bvmi_get_statestring(vmstate["STOPPING"]) = Short["STOPPING"]
  <2>1. vmstate["STOPPING"] = 102 /\ Short["STOPPING"] = "STOP"
    BY DEF vmstate, Short
  <2>2. bvmi_get_statestring(102) = "STOP"
    BY DEF bvmi_get_statestring
  <2>3. QED
    BY <2>1, <2>2
<1>11. bvmi_get_statestring(vmstate["STOP_STORAGE"]) = Short["STOP_STORAGE"]
  <2>1. vmstate["STOP_STORAGE"] = 150 /\ Short["STOP_STORAGE"] = "SOST"
    BY DEF vmstate, Short
  <2>2. bvmi_get_statestring(150) = "SOST"
    BY DEF bvmi_get_statestring
  <2>3. QED
    BY <2>1, <2>2
<1>12. bvmi_get_statestring(vmstate["PRESTOP_BEFORE_RESTART"]) = Short["PRESTOP_BEFORE_RESTART"]
  <2>1. vmstate["PRESTOP_BEFORE_RESTART"] = 160 /\ Short["PRESTOP_BEFORE_RESTART"] = "PRER"
    BY DEF vmstate, Short
  <2>2. bvmi_get_statestring(160) = "PRER"
    BY DEF bvmi_get_statestring
  <2>3. QED
    BY <2>1, <2>2
<1>13. bvmi_get_statestring(vmstate["STOP_NETWORK"]) = Short["STOP_NETWORK"]
  <2>1. vmstate["STOP_NETWORK"] = 200 /\ Short["STOP_NETWORK"] = "SONW"
    BY DEF vmstate, Short
  <2>2. bvmi_get_statestring(200) = "SONW"
    BY DEF bvmi_get_statestring
  <2>3. QED
    BY <2>1, <2>2
<1>14. bvmi_get_statestring(vmstate["RESTARTING"]) = Short["RESTARTING"]
  <2>1. vmstate["RESTARTING"] = 210 /\ Short["RESTARTING"] = "REST"
    BY DEF vmstate, Short
  <2>2. bvmi_get_statestring(210) = "REST"
    BY DEF bvmi_get_statestring
  <2>3. QED
    BY <2>1, <2>2
<1>15. bvmi_get_statestring(vmstate["STOPPED"]) = Short["STOPPED"]
  <2>1. vmstate["STOPPED"] = 300 /\ Short["STOPPED"] = "STPD"
    BY DEF vmstate, Short
  <2>2. bvmi_get_statestring(300) = "STPD"
    BY DEF bvmi_get_statestring
  <2>3. QED
    BY <2>1, <2>2
<1>16. bvmi_get_statestring(vmstate["RESTART_STOPPED"]) = Short["RESTART_STOPPED"]
  <2>1. vmstate["RESTART_STOPPED"] = 310 /\ Short["RESTART_STOPPED"] = "RSTP"
    BY DEF vmstate, Short
  <2>2. bvmi_get_statestring(310) = "RSTP"
    BY DEF bvmi_get_statestring
  <2>3. QED
    BY <2>1, <2>2
<1>17. bvmi_get_statestring(vmstate["FAILED"]) = Short["FAILED"]
  <2>1. vmstate["FAILED"] = 400 /\ Short["FAILED"] = "FAIL"
    BY DEF vmstate, Short
  <2>2. bvmi_get_statestring(400) = "FAIL"
    BY DEF bvmi_get_statestring
  <2>3. QED
    BY <2>1, <2>2
<1>18. QED
  BY <1>1, <1>2, <1>3, <1>4, <1>5, <1>6, <1>7, <1>8, <1>9, <1>10, <1>11, <1>12, <1>13, <1>14, <1>15, <1>16, <1>17

LEMMA ShortNamesDiffer ==
    \A s \in DOMAIN Short : /\ Short[s] # "UNKW"
                            /\ \A u \in DOMAIN Short : s # u => Short[s] # Short[u]
BY DEF Short

(***************************************************************************)
(* However many machines there are, and whatever is known of each, what    *)
(* vmstatedctl decodes (bvmmi_decodenvlist, bcmd_decodenvlist) is what the *)
(* director encoded (bvmmi_encodenvlist, bcmd_encodenvlist), and no two    *)
(* states have the same short name (bvmi_get_statestring).                 *)
(***************************************************************************)
THEOREM StatusComesBack == Spec => []StatusExact
<1>1. IInv => StatusExact
  <2>1. SUFFICES ASSUME TypeInv PROVE StatusExact
    BY DEF IInv
  <2>2. ASSUME vms # <<>> PROVE bvmmi_decodenvlist(bd_reply_info) = bd_getinfo
    <3>1. IsSeq(bd_getinfo) /\ \A i \in DOMAIN bd_getinfo : IsInfo(bd_getinfo[i])
      BY <2>1, InfoIs DEF TypeInv
    <3>2. bd_getinfo # <<>>
      <4>1. DOMAIN bd_getinfo = DOMAIN vms /\ IsSeq(vms)
        BY <2>1, InfoIs DEF TypeInv, Machines
      <4>2. DOMAIN vms # {}
        BY <2>2, <4>1, IsSeqFacts
      <4>3. QED
        BY <4>1, <4>2
    <3>3. QED
      BY <3>1, <3>2, InfosComeBack DEF bd_reply_info
  <2>3. ASSUME NEW s \in DOMAIN vmstate, NEW u \in DOMAIN vmstate \cup {"UNKW"}, s # u
        PROVE  bvmi_get_statestring(vmstate[s]) #
                   IF u = "UNKW" THEN u ELSE bvmi_get_statestring(vmstate[u])
    <3>1. s \in DOMAIN Short /\ bvmi_get_statestring(vmstate[s]) = Short[s]
      BY ShortIs
    <3>2. CASE u = "UNKW"
      BY <3>1, <3>2, ShortNamesDiffer
    <3>3. CASE u # "UNKW"
      <4>1. u \in DOMAIN Short /\ bvmi_get_statestring(vmstate[u]) = Short[u]
        BY <3>3, ShortIs
      <4>2. QED
        BY <2>3, <3>1, <3>3, <4>1, ShortNamesDiffer
    <3>4. QED
      BY <3>2, <3>3
  <2>4. QED
    BY <2>2, <2>3 DEF StatusExact
<1>2. QED
  BY <1>1, Initially, IInvStep, PTL DEF Spec

----------------------------------------------------------------------------
(***************************************************************************)
(* The generated file.  When obc_combine_with reports success each text    *)
(* was written whole or not at all, and nothing else was.                  *)
(***************************************************************************)

LEMMA SameSeq ==
    ASSUME NEW s, NEW u, IsSeq(s), IsSeq(u), Len(s) = Len(u), \A i \in 1 .. Len(s) : s[i] = u[i]
    PROVE  s = u
<1>1. s = [i \in 1 .. Len(s) |-> s[i]] /\ u = [i \in 1 .. Len(u) |-> u[i]]
  BY IsSeqFacts
<1>2. QED
  BY <1>1

LEMMA WrittenMore ==
    ASSUME NEW texts, NEW lost, NEW n \in Nat
    PROVE  LET more == IF n + 1 \in lost THEN <<>> ELSE texts[n + 1]
           IN  Written(texts, n + 1, lost) = IF n = 0 THEN more ELSE Written(texts, n, lost) \o more
<1> DEFINE more == IF n + 1 \in lost THEN <<>> ELSE texts[n + 1]
           s == [i \in 1 .. n |-> IF i \in lost THEN <<>> ELSE texts[i]]
           t == [i \in 1 .. n + 1 |-> IF i \in lost THEN <<>> ELSE texts[i]]
<1>1. s = [i \in 1 .. n |-> s[i]] /\ t = [i \in 1 .. n + 1 |-> t[i]] /\ \A i \in 1 .. n : s[i] = t[i]
  OBVIOUS
<1>2. t[n + 1] = more
  OBVIOUS
<1>3. Written(texts, n + 1, lost) = FlattenSeq(t) /\ Written(texts, n, lost) = FlattenSeq(s)
  BY DEF Written
<1> HIDE DEF s, t
<1>4. FlattenSeq(t) = IF n = 0 THEN t[n + 1] ELSE FlattenSeq(s) \o t[n + 1]
  BY <1>1, FlattenMore
<1>5. QED
  BY <1>2, <1>3, <1>4

(* The texts: the existing file, then line by line. *)
LEMMA TextsAre ==
    ASSUME NEW base, NEW lines, IsSeq(lines)
    PROVE  LET ts == Texts(base, lines)
               m  == Len(lines)
           IN  /\ m \in Nat /\ Len(ts) = m + 1
               /\ ts[1] = base
               /\ \A j \in 1 .. m : ts[j + 1] = <<lines[j]>>
<1> DEFINE m == Len(lines)
           one == <<base>>
           rest == [j \in DOMAIN lines |-> <<lines[j]>>]
<1>1. m \in Nat /\ DOMAIN lines = 1 .. m
  BY IsSeqFacts
<1>2. IsSeq(one) /\ Len(one) = 1 /\ one[1] = base
  BY OneIs
<1> HIDE DEF one, m
<1>3. rest = [j \in 1 .. m |-> rest[j]] /\ \A j \in 1 .. m : rest[j] = <<lines[j]>>
  BY <1>1
<1> HIDE DEF rest
<1>4. IsSeq(rest) /\ Len(rest) = m
  BY <1>1, <1>3, SeqIs
<1>5. IsSeq(one) /\ IsSeq(rest)
  BY <1>2, <1>4
<1>6. /\ Len(one \o rest) = Len(one) + Len(rest)
      /\ \A j \in 1 .. Len(one) : (one \o rest)[j] = one[j]
      /\ \A j \in 1 .. Len(rest) : (one \o rest)[Len(one) + j] = rest[j]
  BY <1>5, ConcatIs
<1>7. /\ Len(one \o rest) = m + 1 /\ (one \o rest)[1] = base
      /\ \A j \in 1 .. m : (one \o rest)[j + 1] = rest[j]
  <2>1. \A j \in 1 .. m : 1 + j = j + 1
    BY <1>1
  <2>2. QED
    BY <1>1, <1>2, <1>4, <1>6, <2>1
<1>8. Texts(base, lines) = one \o rest
  BY DEF Texts, one, rest
<1>9. QED
  BY <1>1, <1>3, <1>7, <1>8 DEF m

(* The existing file, or nothing of it, and then some of the lines. *)
Parts(w, base, lines) ==
    \E b \in {<<>>, base} :
        /\ IsSeq(w) /\ IsSeq(b) /\ Len(b) <= Len(w)
        /\ \A i \in 1 .. Len(b) : w[i] = b[i]
        /\ \A i \in 1 .. Len(w) : i > Len(b) => \E j \in 1 .. Len(lines) : w[i] = lines[j]

LEMMA WrittenIs ==
    ASSUME NEW base, IsSeq(base), NEW lines, IsSeq(lines), NEW lost
    PROVE  LET m == Len(lines)
               w == Written(Texts(base, lines), m + 1, lost)
           IN  /\ Parts(w, base, lines)
               /\ lost \cap 1 .. m + 1 = {} => w = base \o lines
<1> DEFINE ts == Texts(base, lines)
           m == Len(lines)
           none == lost \cap 1 .. m + 1 = {}
           first == IF 1 \in lost THEN <<>> ELSE base
           b == Len(first)
<1>1. m \in Nat /\ ts[1] = base /\ \A j \in 1 .. m : ts[j + 1] = <<lines[j]>>
  BY TextsAre
<1>2. IsSeq(first) /\ first \in {<<>>, base} /\ (1 \notin lost => first = base)
  BY EmptyIs
<1> HIDE DEF ts, first
<1>3. b \in Nat
  BY <1>2, IsSeqFacts
<1> HIDE DEF m, b, none
<1>4. none => \A j \in 0 .. m : j + 1 \notin lost
  BY <1>1 DEF none
<1> DEFINE Right(k) == LET W == Written(ts, k + 1, lost) IN
                       k <= m =>
                       /\ IsSeq(W) /\ b <= Len(W)
                       /\ \A i \in 1 .. b : W[i] = first[i]
                       /\ \A i \in 1 .. Len(W) : i > b => \E j \in 1 .. m : W[i] = lines[j]
                       /\ none => Len(W) = b + k /\ \A j \in 1 .. k : W[b + j] = lines[j]
           S == {k \in Nat : Right(k)}
<1>5. 0 \in S
  <2> DEFINE W == Written(ts, 0 + 1, lost)
  <2>1. W = IF 0 + 1 \in lost THEN <<>> ELSE ts[0 + 1]
    BY WrittenMore
  <2>2. W = first
    BY <1>1, <2>1 DEF first
  <2> HIDE DEF W
  <2>3. /\ IsSeq(W) /\ b <= Len(W) /\ Len(W) = b
        /\ \A i \in 1 .. b : W[i] = first[i]
    BY <1>2, <1>3, <2>2 DEF b
  <2>4. (\A i \in 1 .. Len(W) : ~ (i > b)) /\ Len(W) = b + 0 /\ \A j \in 1 .. 0 : W[b + j] = lines[j]
    BY <1>3, <2>3
  <2>5. QED
    BY <2>3, <2>4 DEF W
<1>6. ASSUME NEW k \in S PROVE k + 1 \in S
  <2> DEFINE W == Written(ts, k + 1, lost)
             V == Written(ts, (k + 1) + 1, lost)
             more == IF (k + 1) + 1 \in lost THEN <<>> ELSE ts[(k + 1) + 1]
  <2> HIDE DEF Right
  <2>1. k \in Nat /\ Right(k)
    OBVIOUS
  <2>2. SUFFICES ASSUME k + 1 <= m PROVE Right(k + 1)
    <3>1. CASE k + 1 <= m
      BY <2>1, <2>2, <3>1
    <3>2. CASE ~ (k + 1 <= m)
      BY <2>1, <3>2 DEF Right
    <3>3. QED
      BY <3>1, <3>2
  <2>3. V = W \o more
    <3> DEFINE n == k + 1
    <3>1. n \in Nat /\ n # 0
      BY <2>1
    <3> HIDE DEF n
    <3>2. Written(ts, n + 1, lost) = Written(ts, n, lost) \o (IF n + 1 \in lost THEN <<>> ELSE ts[n + 1])
      BY <3>1, WrittenMore
    <3>3. QED
      BY <3>2 DEF n
  <2>4. k <= m /\ k + 1 \in 1 .. m /\ k + 1 \in 0 .. m /\ k + 1 \in Nat
    BY <1>1, <2>1, <2>2
  <2>5. more = <<>> \/ more = <<lines[k + 1]>>
    BY <1>1, <2>4
  <2>6. none => more = <<lines[k + 1]>>
    BY <1>1, <1>4, <2>4
  <2> HIDE DEF more
  <2>7. /\ IsSeq(W) /\ b <= Len(W)
        /\ \A i \in 1 .. b : W[i] = first[i]
        /\ \A i \in 1 .. Len(W) : i > b => \E j \in 1 .. m : W[i] = lines[j]
        /\ none => Len(W) = b + k /\ \A j \in 1 .. k : W[b + j] = lines[j]
    BY <2>1, <2>4 DEF Right
  <2> HIDE DEF W, V
  <2>8. /\ IsSeq(more) /\ Len(more) \in {0, 1} /\ (Len(more) = 1 => more[1] = lines[k + 1])
        /\ none => Len(more) = 1
    <3>1. IsSeq(<<>>) /\ Len(<<>>) = 0
      BY EmptyIs
    <3>2. \A x : IsSeq(<<x>>) /\ Len(<<x>>) = 1 /\ <<x>>[1] = x
      BY OneIs
    <3>3. CASE more = <<>>
      <4>1. more # <<lines[k + 1]>>
        BY <3>1, <3>2, <3>3
      <4>2. QED
        BY <2>6, <3>1, <3>3, <4>1
    <3>4. CASE more = <<lines[k + 1]>>
      BY <3>2, <3>4
    <3>5. QED
      BY <2>5, <3>3, <3>4
  <2>9. IsSeq(W) /\ IsSeq(more)
    BY <2>7, <2>8
  <2>10. /\ IsSeq(V) /\ Len(V) = Len(W) + Len(more)
         /\ \A i \in 1 .. Len(W) : V[i] = W[i]
         /\ \A i \in 1 .. Len(more) : V[Len(W) + i] = more[i]
    BY <2>3, <2>9, ConcatIs
  <2>11. Len(W) \in Nat
    BY <2>9, IsSeqFacts
  <2>12. b <= Len(V) /\ \A i \in 1 .. b : V[i] = first[i]
    BY <1>3, <2>7, <2>8, <2>10, <2>11
  <2>13. ASSUME NEW i \in 1 .. Len(V), i > b PROVE \E j \in 1 .. m : V[i] = lines[j]
    <3>1. CASE i <= Len(W)
      <4>1. i \in 1 .. Len(W) /\ V[i] = W[i]
        BY <2>10, <2>11, <3>1
      <4>2. QED
        BY <2>7, <2>13, <4>1
    <3>2. CASE ~ (i <= Len(W))
      <4>1. Len(more) = 1 /\ i = Len(W) + 1 /\ 1 \in 1 .. Len(more)
        BY <2>8, <2>10, <2>11, <3>2
      <4>2. V[Len(W) + 1] = more[1]
        BY <2>10, <4>1
      <4>3. V[i] = lines[k + 1]
        BY <2>8, <4>1, <4>2
      <4>4. QED
        BY <2>4, <4>3
    <3>3. QED
      BY <3>1, <3>2
  <2>14. ASSUME none PROVE Len(V) = b + (k + 1) /\ \A j \in 1 .. k + 1 : V[b + j] = lines[j]
    <3>1. Len(more) = 1 /\ Len(W) = b + k /\ \A j \in 1 .. k : W[b + j] = lines[j]
      BY <2>7, <2>8, <2>14
    <3>2. Len(V) = b + (k + 1)
      BY <1>3, <2>1, <2>10, <3>1
    <3>3. ASSUME NEW j \in 1 .. k + 1 PROVE V[b + j] = lines[j]
      <4>1. CASE j <= k
        <5>1. j \in 1 .. k /\ b + j \in 1 .. Len(W)
          BY <1>3, <2>1, <3>1, <4>1
        <5>2. V[b + j] = W[b + j] /\ W[b + j] = lines[j]
          BY <2>10, <3>1, <5>1
        <5>3. QED
          BY <5>2
      <4>2. CASE ~ (j <= k)
        <5>1. j = k + 1 /\ b + j = Len(W) + 1 /\ 1 \in 1 .. Len(more)
          BY <1>3, <2>1, <3>1, <4>2
        <5>2. V[Len(W) + 1] = more[1] /\ more[1] = lines[k + 1]
          BY <2>8, <2>10, <3>1, <5>1
        <5>3. QED
          BY <5>1, <5>2
      <4>3. QED
        BY <4>1, <4>2
    <3>4. QED
      BY <3>2, <3>3
  <2>15. QED
    BY <2>10, <2>12, <2>13, <2>14 DEF Right, V
<1>7. S = Nat
  <2>1. S \in SUBSET Nat
    OBVIOUS
  <2> HIDE DEF S
  <2>2. QED
    BY <1>5, <1>6, <2>1, AllOfNat
<1> DEFINE w == Written(ts, m + 1, lost)
           whole == base \o lines
<1>8. /\ IsSeq(w) /\ b <= Len(w)
      /\ \A i \in 1 .. b : w[i] = first[i]
      /\ \A i \in 1 .. Len(w) : i > b => \E j \in 1 .. m : w[i] = lines[j]
      /\ none => Len(w) = b + m /\ \A j \in 1 .. m : w[b + j] = lines[j]
  <2>1. m \in S
    BY <1>1, <1>7
  <2>2. Right(m) /\ m <= m
    BY <1>1, <2>1
  <2>3. QED
    BY <2>2
<1> HIDE DEF w, S
<1>9. Parts(w, base, lines)
  BY <1>2, <1>8 DEF Parts, b, m
<1>10. ASSUME none PROVE w = whole
  <2>1. 0 \in 0 .. m /\ 0 + 1 = 1
    BY <1>1
  <2>2. first = base
    BY <1>2, <1>4, <1>10, <2>1
  <2>3. /\ IsSeq(whole) /\ Len(whole) = b + m
        /\ \A i \in 1 .. b : whole[i] = base[i]
        /\ \A j \in 1 .. m : whole[b + j] = lines[j]
    BY <2>2, ConcatIs DEF b, m
  <2> HIDE DEF whole
  <2>4. ASSUME NEW i \in 1 .. b + m PROVE w[i] = whole[i]
    <3>1. CASE i <= b
      <4>1. i \in 1 .. b
        BY <1>3, <3>1
      <4>2. QED
        BY <1>8, <2>2, <2>3, <4>1
    <3>2. CASE ~ (i <= b)
      <4>1. i - b \in 1 .. m /\ b + (i - b) = i
        BY <1>1, <1>3, <3>2
      <4>2. w[b + (i - b)] = lines[i - b] /\ whole[b + (i - b)] = lines[i - b]
        BY <1>8, <1>10, <2>3, <4>1
      <4>3. QED
        BY <4>1, <4>2
    <3>3. QED
      BY <3>1, <3>2
  <2>5. IsSeq(w) /\ Len(w) = b + m
    BY <1>8, <1>10
  <2>6. QED
    BY <2>3, <2>4, <2>5, SameSeq
<1>11. QED
  BY <1>9, <1>10 DEF w, whole, ts, m, none

----------------------------------------------------------------------------
(***************************************************************************)
(* What bhyve reads in a file: the generated lines come in the opposite    *)
(* order of the calls that added them, so that the first one added for a   *)
(* key counts, and the existing file where none was.                       *)
(***************************************************************************)

First(s, key, v) ==
    \E i \in 1 .. Len(s) : s[i].key = key /\ s[i].value = v /\ \A j \in 1 .. i - 1 : s[j].key # key
Lacks(s, key) == \A i \in 1 .. Len(s) : s[i].key # key
Only(s, key, v) == \A i \in 1 .. Len(s) : s[i].key = key => s[i].value = v

LEMMA LacksIsOnly == \A s, key, v : Lacks(s, key) => Only(s, key, v)
BY DEF Lacks, Only

LEMMA ConcatKeys ==
    ASSUME NEW s, NEW u, IsSeq(s), IsSeq(u)
    PROVE  /\ IsSeq(s \o u)
           /\ \A key : Lacks(s, key) /\ Lacks(u, key) => Lacks(s \o u, key)
           /\ \A key, v : First(s, key, v) => First(s \o u, key, v)
           /\ \A key, v : Lacks(s, key) /\ First(u, key, v) => First(s \o u, key, v)
           /\ \A key, v : Only(s, key, v) /\ Only(u, key, v) => Only(s \o u, key, v)
<1> DEFINE w == s \o u
           m == Len(s)
           n == Len(u)
<1>1. /\ IsSeq(w) /\ Len(w) = m + n
      /\ \A i \in 1 .. m : w[i] = s[i]
      /\ \A i \in 1 .. n : w[m + i] = u[i]
  BY ConcatIs
<1>2. m \in Nat /\ n \in Nat
  BY IsSeqFacts
<1> HIDE DEF w
<1>3. ASSUME NEW key, Lacks(s, key), Lacks(u, key) PROVE Lacks(w, key)
  <2>1. SUFFICES ASSUME NEW i \in 1 .. m + n PROVE w[i].key # key
    BY <1>1 DEF Lacks
  <2>2. CASE i <= m
    BY <1>1, <1>2, <1>3, <2>2 DEF Lacks
  <2>3. CASE ~ (i <= m)
    <3>1. i - m \in 1 .. n /\ m + (i - m) = i
      BY <1>2, <2>3
    <3>2. w[m + (i - m)] = u[i - m]
      BY <1>1, <3>1
    <3>3. QED
      BY <1>3, <3>1, <3>2 DEF Lacks
  <2>4. QED
    BY <2>2, <2>3
<1>4. ASSUME NEW key, NEW v, First(s, key, v) PROVE First(w, key, v)
  <2>1. PICK i \in 1 .. m : s[i].key = key /\ s[i].value = v /\ \A j \in 1 .. i - 1 : s[j].key # key
    BY <1>4 DEF First
  <2>2. i \in 1 .. m + n /\ w[i] = s[i] /\ \A j \in 1 .. i - 1 : w[j] = s[j]
    BY <1>1, <1>2
  <2>3. QED
    BY <1>1, <2>1, <2>2 DEF First
<1>5. ASSUME NEW key, NEW v, Lacks(s, key), First(u, key, v) PROVE First(w, key, v)
  <2>1. PICK i \in 1 .. n : u[i].key = key /\ u[i].value = v /\ \A j \in 1 .. i - 1 : u[j].key # key
    BY <1>5 DEF First
  <2> DEFINE k == m + i
  <2>2. k \in 1 .. m + n /\ w[k] = u[i]
    BY <1>1, <1>2
  <2>3. ASSUME NEW j \in 1 .. k - 1 PROVE w[j].key # key
    <3>1. CASE j <= m
      <4>1. j \in 1 .. m
        BY <1>2, <3>1
      <4>2. QED
        BY <1>1, <1>5, <4>1 DEF Lacks
    <3>2. CASE ~ (j <= m)
      <4>1. j - m \in 1 .. i - 1 /\ j - m \in 1 .. n /\ m + (j - m) = j
        BY <1>2, <3>2
      <4>2. w[m + (j - m)] = u[j - m]
        BY <1>1, <4>1
      <4>3. QED
        BY <2>1, <4>1, <4>2
    <3>3. QED
      BY <3>1, <3>2
  <2> HIDE DEF k
  <2>4. QED
    BY <1>1, <2>1, <2>2, <2>3 DEF First
<1>6. ASSUME NEW key, NEW v, Only(s, key, v), Only(u, key, v) PROVE Only(w, key, v)
  <2>1. SUFFICES ASSUME NEW i \in 1 .. m + n, w[i].key = key PROVE w[i].value = v
    BY <1>1 DEF Only
  <2>2. CASE i <= m
    BY <1>1, <1>2, <1>6, <2>1, <2>2 DEF Only
  <2>3. CASE ~ (i <= m)
    <3>1. i - m \in 1 .. n /\ m + (i - m) = i
      BY <1>2, <2>3
    <3>2. w[m + (i - m)] = u[i - m]
      BY <1>1, <3>1
    <3>3. QED
      BY <1>6, <2>1, <3>1, <3>2 DEF Only
  <2>4. QED
    BY <2>2, <2>3
<1>7. QED
  BY <1>1, <1>3, <1>4, <1>5, <1>6 DEF w

(* The last position of a set of them. *)
LEMMA LastIs ==
    ASSUME NEW m \in Nat, NEW J \in SUBSET (1 .. m), J # {}
    PROVE  Max(J) \in J /\ \A y \in J : Max(J) >= y
<1> DEFINE Up == {k \in Nat : \A y \in J : y <= k}
<1>1. Up \in SUBSET Nat /\ m \in Up
  OBVIOUS
<1> DEFINE x == Min(Up)
<1>2. x \in Up /\ \A k \in Up : x <= k
  BY <1>1, MinIs
<1> HIDE DEF x
<1>3. x \in Nat /\ \A y \in J : y <= x
  BY <1>2
<1>4. x \in J
  <2>1. SUFFICES ASSUME x \notin J PROVE FALSE
    OBVIOUS
  <2>2. \A y \in J : y \in Nat /\ y <= x /\ y # x /\ y >= 1
    BY <1>3, <2>1
  <2>3. x - 1 \in Nat /\ \A y \in J : y <= x - 1
    <3>1. \E y \in J : y \in Nat /\ y <= x /\ y # x
      BY <2>2
    <3>2. x >= 1 /\ \A y \in J : y \in Nat /\ y <= x /\ y # x
      BY <1>3, <2>2, <3>1
    <3> HIDE DEF Up
    <3>3. \A y \in Nat : y <= x /\ y # x => y <= x - 1
      BY <1>3
    <3>4. QED
      BY <1>3, <3>2, <3>3
  <2>4. x - 1 \in Up
    BY <2>3
  <2>5. x <= x - 1
    BY <1>2, <2>4
  <2>6. QED
    BY <1>3, <2>5
<1>5. \A y \in J : x >= y
  BY <1>3
<1>6. QED
  BY <1>4, <1>5 DEF Max

LEMMA EffectiveIs ==
    ASSUME NEW base, IsSeq(base), NEW core, IsSeq(core), NEW key
    PROVE  /\ \A v : First(core, key, v) => Effective(base \o Reverse(core), key) = v
           /\ Lacks(core, key) => Effective(base \o Reverse(core), key) = Effective(base, key)
<1> DEFINE rev == Reverse(core)
           w == base \o rev
           m == Len(base)
           n == Len(core)
<1>1. /\ IsSeq(rev) /\ Len(rev) = n
      /\ \A i \in 1 .. n : rev[i] = core[(n - i) + 1] /\ (n - i) + 1 \in 1 .. n
  BY ReverseIs
<1> HIDE DEF rev
<1>2. /\ IsSeq(w) /\ Len(w) = m + n
      /\ \A i \in 1 .. m : w[i] = base[i]
      /\ \A i \in 1 .. n : w[m + i] = rev[i]
  <2>1. IsSeq(rev)
    BY <1>1
  <2>2. /\ IsSeq(w) /\ Len(w) = m + Len(rev)
        /\ \A i \in 1 .. m : w[i] = base[i]
        /\ \A i \in 1 .. Len(rev) : w[m + i] = rev[i]
    BY <2>1, ConcatIs
  <2>3. QED
    BY <1>1, <2>2
<1>3. m \in Nat /\ n \in Nat
  BY IsSeqFacts
<1> HIDE DEF w, m, n
<1> DEFINE I(file) == {i \in 1 .. Len(file) : file[i].key = key}
<1>4. \A file : Effective(file, key) = IF I(file) = {} THEN NULL
                                       ELSE IF Max(I(file)) = 0 THEN NULL ELSE file[Max(I(file))].value
  BY DEF Effective, SelectLastInSeq
<1>5. ASSUME NEW v, First(core, key, v) PROVE Effective(w, key) = v
  <2>1. PICK i \in 1 .. n : core[i].key = key /\ core[i].value = v /\ \A j \in 1 .. i - 1 : core[j].key # key
    BY <1>5 DEF First, n
  <2> DEFINE k == (n - i) + 1
             x == m + k
  <2>2. k \in 1 .. n /\ (n - k) + 1 = i /\ x \in 1 .. m + n
    BY <1>3
  <2>3. rev[k] = core[i] /\ w[x] = rev[k]
    BY <1>1, <1>2, <2>2
  <2>4. ASSUME NEW y \in I(w) PROVE x >= y
    <3>1. SUFFICES ASSUME y > x PROVE FALSE
      BY <1>2, <1>3, <2>2
    <3>2. y \in 1 .. m + n /\ w[y].key = key
      BY <1>2
    <3>3. y - m \in 1 .. n /\ m + (y - m) = y /\ (n - (y - m)) + 1 \in 1 .. i - 1
      BY <1>3, <3>1, <3>2
    <3>4. w[m + (y - m)] = rev[y - m] /\ rev[y - m] = core[(n - (y - m)) + 1]
      BY <1>1, <1>2, <3>3
    <3>5. QED
      BY <2>1, <3>2, <3>3, <3>4
  <2>5. x \in I(w) /\ x \in Nat /\ x # 0
    BY <1>2, <1>3, <2>1, <2>2, <2>3
  <2>6. I(w) \in SUBSET Nat
    BY <1>2, <1>3
  <2> DEFINE J == I(w)
  <2> HIDE DEF x, J
  <2>7. Max(J) = x
    <3>1. x \in J /\ \A y \in J : x >= y
      BY <2>4, <2>5 DEF J
    <3>2. J \in SUBSET Nat
      BY <2>6 DEF J
    <3>3. Max(J) \in J /\ \A y \in J : Max(J) >= y
      BY <3>1 DEF Max
    <3>4. Max(J) >= x /\ x >= Max(J) /\ Max(J) \in Nat /\ x \in Nat
      BY <3>1, <3>2, <3>3
    <3>5. QED
      BY <3>4
  <2>8. w[x].value = v
    BY <2>1, <2>3
  <2>9. QED
    BY <1>4, <2>5, <2>7, <2>8 DEF J
<1>6. ASSUME Lacks(core, key) PROVE Effective(w, key) = Effective(base, key)
  <2>1. ASSUME NEW i \in 1 .. n PROVE w[m + i].key # key
    <3>1. w[m + i] = rev[i] /\ rev[i] = core[(n - i) + 1] /\ (n - i) + 1 \in 1 .. n
      BY <1>1, <1>2
    <3>2. QED
      BY <1>6, <3>1 DEF Lacks, n
  <2>2. ASSUME NEW i \in 1 .. m + n, w[i].key = key PROVE i \in 1 .. m
    <3>1. SUFFICES ASSUME ~ (i <= m) PROVE FALSE
      BY <1>3
    <3>2. i - m \in 1 .. n /\ m + (i - m) = i
      BY <1>3, <3>1
    <3>3. QED
      BY <2>1, <2>2, <3>2
  <2>3. \A i \in 1 .. m : i \in 1 .. m + n
    BY <1>3
  <2>4. I(w) = I(base)
    BY <1>2, <2>2, <2>3 DEF m
  <2> DEFINE J == I(base)
  <2>5. J \in SUBSET Nat /\ \A j \in J : j \in 1 .. m /\ w[j] = base[j]
    BY <1>2, <1>3 DEF m
  <2>6. CASE J = {}
    BY <1>4, <2>4, <2>6
  <2>7. CASE J # {}
    <3> HIDE DEF J
    <3>1. J \in SUBSET (1 .. m)
      BY <2>5
    <3>2. Max(J) \in J
      BY <1>3, <2>7, <3>1, LastIs
    <3>3. w[Max(J)] = base[Max(J)]
      BY <2>5, <3>2
    <3>4. Effective(base, key) = IF Max(J) = 0 THEN NULL ELSE base[Max(J)].value
      BY <1>4, <2>7 DEF J
    <3>5. Effective(w, key) = IF Max(J) = 0 THEN NULL ELSE w[Max(J)].value
      <4>1. I(w) = J
        BY <2>4 DEF J
      <4>2. QED
        BY <1>4, <2>7, <4>1
    <3>6. QED
      BY <3>3, <3>4, <3>5
  <2>8. QED
    BY <2>6, <2>7
<1>7. QED
  BY <1>5, <1>6 DEF w, rev

(* A file that misses texts has no setting that is neither the existing file's nor a line's. *)
LEMMA PartsCount ==
    ASSUME NEW w, NEW base, IsSeq(base), NEW lines, Parts(w, base, lines), NEW key
    PROVE  \/ Effective(w, key) \in {Effective(base, key), NULL}
           \/ \E j \in 1 .. Len(lines) : lines[j].key = key /\ lines[j].value = Effective(w, key)
<1> DEFINE I(file) == {i \in 1 .. Len(file) : file[i].key = key}
<1>1. \A file : Effective(file, key) = IF I(file) = {} THEN NULL
                                       ELSE IF Max(I(file)) = 0 THEN NULL ELSE file[Max(I(file))].value
  BY DEF Effective, SelectLastInSeq
<1>2. PICK b \in {<<>>, base} :
        /\ IsSeq(w) /\ IsSeq(b) /\ Len(b) <= Len(w)
        /\ \A i \in 1 .. Len(b) : w[i] = b[i]
        /\ \A i \in 1 .. Len(w) : i > Len(b) => \E j \in 1 .. Len(lines) : w[i] = lines[j]
  BY DEF Parts
<1>3. Len(w) \in Nat /\ Len(b) \in Nat
  BY <1>2, IsSeqFacts
<1> DEFINE J == I(w)
           x == Max(J)
<1>4. CASE J = {}
  BY <1>1, <1>4
<1>5. CASE J # {}
  <2>1. x \in 1 .. Len(w) /\ w[x].key = key /\ \A y \in J : x >= y
    <3>1. J \in SUBSET (1 .. Len(w))
      OBVIOUS
    <3> DEFINE K == J
    <3> HIDE DEF K
    <3>2. Max(K) \in K /\ \A y \in K : Max(K) >= y
      BY <1>3, <1>5, <3>1, LastIs DEF K
    <3>3. QED
      BY <3>2 DEF K
  <2>2. Effective(w, key) = w[x].value
    <3>1. x # 0
      BY <1>3, <2>1
    <3>2. QED
      BY <1>1, <1>5, <3>1
  <2>3. CASE x > Len(b)
    BY <1>2, <2>1, <2>2, <2>3
  <2>4. CASE ~ (x > Len(b))
    <3>1. x \in 1 .. Len(b) /\ w[x] = b[x]
      BY <1>2, <1>3, <2>1, <2>4
    <3>2. b = base
      <4>1. b # <<>>
        BY <1>3, <3>1, EmptyIs
      <4>2. QED
        BY <1>2, <4>1
    <3> DEFINE K == I(base)
    <3>3. x \in K /\ \A y \in K : x >= y
      <4>1. \A y \in K : y \in J
        BY <1>2, <1>3, <3>2
      <4>2. x \in K
        BY <2>1, <3>1, <3>2
      <4>3. QED
        BY <2>1, <4>1, <4>2
    <3>4. Max(K) = x
      <4>1. K \in SUBSET (1 .. Len(b)) /\ x \in Nat
        BY <3>1, <3>2
      <4> HIDE DEF K, x
      <4>2. Max(K) \in K /\ \A y \in K : Max(K) >= y
        BY <1>3, <3>3, <4>1, LastIs
      <4> DEFINE z == Max(K)
      <4> HIDE DEF z
      <4>3. z >= x /\ x >= z /\ z \in 1 .. Len(b)
        BY <3>3, <4>1, <4>2 DEF z
      <4>4. z = x
        BY <1>3, <4>1, <4>3
      <4>5. QED
        BY <4>4 DEF z
    <3>5. Effective(base, key) = base[x].value
      <4>1. K # {} /\ x # 0
        BY <1>3, <3>1, <3>3
      <4>2. QED
        BY <1>1, <3>4, <4>1
    <3>6. QED
      BY <2>2, <3>1, <3>2, <3>5
  <2>5. QED
    BY <2>3, <2>4
<1>6. QED
  BY <1>4, <1>5

LEMMA FlattenLacks ==
    ASSUME NEW n \in Nat, NEW f, f = [i \in 1 .. n |-> f[i]], \A i \in 1 .. n : IsSeq(f[i])
    PROVE  /\ IsSeq(FlattenSeq(f))
           /\ \A key : (\A i \in 1 .. n : Lacks(f[i], key)) => Lacks(FlattenSeq(f), key)
<1> DEFINE part(k) == [i \in 1 .. k |-> f[i]]
           Right(k) == k <= n =>
               /\ IsSeq(FlattenSeq(part(k)))
               /\ \A key : (\A i \in 1 .. n : Lacks(f[i], key)) => Lacks(FlattenSeq(part(k)), key)
           S == {k \in Nat : Right(k)}
<1>1. 0 \in S
  <2>1. part(0) = <<>>
    OBVIOUS
  <2>2. FlattenSeq(<<>>) = <<>>
    BY EmptyIs DEF FlattenSeq
  <2>3. \A key : Lacks(<<>>, key)
    BY EmptyIs DEF Lacks
  <2>4. QED
    BY <2>1, <2>2, <2>3, EmptyIs
<1>2. ASSUME NEW k \in S PROVE k + 1 \in S
  <2> DEFINE s == part(k)
             t == part(k + 1)
             F == FlattenSeq(s)
             G == FlattenSeq(t)
  <2> HIDE DEF Right
  <2>0. SUFFICES ASSUME k + 1 <= n PROVE Right(k + 1)
    <3>1. CASE k + 1 <= n
      BY <3>1
    <3>2. CASE ~ (k + 1 <= n)
      BY <3>2 DEF Right
    <3>3. QED
      BY <3>1, <3>2
  <2>1. k \in Nat /\ Right(k) /\ k <= n /\ k + 1 \in 1 .. n
    BY <2>0
  <2>2. s = [i \in 1 .. k |-> s[i]] /\ t = [i \in 1 .. k + 1 |-> t[i]] /\ \A i \in 1 .. k : s[i] = t[i]
    OBVIOUS
  <2>3. t[k + 1] = f[k + 1]
    OBVIOUS
  <2>4. IsSeq(F) /\ \A key : (\A i \in 1 .. n : Lacks(f[i], key)) => Lacks(F, key)
    BY <2>1 DEF Right
  <2>5. IsSeq(f[k + 1])
    BY <2>1
  <2> HIDE DEF s, t
  <2>6. G = IF k = 0 THEN t[k + 1] ELSE F \o t[k + 1]
    BY <2>1, <2>2, FlattenMore
  <2> HIDE DEF F, G
  <2>7. /\ IsSeq(F \o f[k + 1])
        /\ \A key : Lacks(F, key) /\ Lacks(f[k + 1], key) => Lacks(F \o f[k + 1], key)
    BY <2>4, <2>5, ConcatKeys
  <2>8. IsSeq(G) /\ \A key : (\A i \in 1 .. n : Lacks(f[i], key)) => Lacks(G, key)
    BY <2>1, <2>3, <2>4, <2>5, <2>6, <2>7
  <2>9. QED
    BY <2>8 DEF Right, G, t
<1>3. S = Nat
  <2>1. S \in SUBSET Nat
    OBVIOUS
  <2> HIDE DEF S
  <2>2. QED
    BY <1>1, <1>2, <2>1, AllOfNat
<1>4. n \in S
  BY <1>3
<1>5. Right(n) /\ n <= n
  BY <1>4
<1>6. part(n) = f
  OBVIOUS
<1>7. QED
  BY <1>5, <1>6

LEMMA LineIs ==
    \A key, v : /\ IsSeq(Line(key, v)) /\ First(Line(key, v), key, v) /\ Only(Line(key, v), key, v)
                /\ \A other : other # key => Lacks(Line(key, v), other)
<1> TAKE key, v
<1> DEFINE l == [key |-> key, value |-> v]
<1>1. l.key = key /\ l.value = v /\ Line(key, v) = <<l>>
  BY DEF Line
<1> HIDE DEF l
<1>2. IsSeq(<<l>>) /\ Len(<<l>>) = 1 /\ <<l>>[1] = l
  BY OneIs
<1> DEFINE s == <<l>>
<1> HIDE DEF s
<1>3. Line(key, v) = s /\ IsSeq(s) /\ Len(s) = 1 /\ s[1] = l
  BY <1>1, <1>2 DEF s
<1>4. 1 \in 1 .. Len(s) /\ (\A j : j \notin 1 .. 1 - 1) /\ \A j \in 1 .. Len(s) : j = 1
  BY <1>3
<1>5. First(s, key, v)
  BY <1>1, <1>3, <1>4 DEF First
<1>6. \A other : other # key => Lacks(s, other)
  BY <1>1, <1>3, <1>4 DEF Lacks
<1>7. Only(s, key, v)
  BY <1>1, <1>3, <1>4 DEF Only
<1>8. QED
  BY <1>3, <1>5, <1>6, <1>7

LEMMA UnlessIs ==
    \A key, v : /\ IsSeq(Unless0(key, v)) /\ Only(Unless0(key, v), key, v)
                /\ v # 0 => First(Unless0(key, v), key, v)
                /\ v = 0 => Lacks(Unless0(key, v), key)
                /\ \A other : other # key => Lacks(Unless0(key, v), other)
<1> TAKE key, v
<1>1. \A other : Lacks(<<>>, other) /\ Only(<<>>, other, v)
  BY EmptyIs DEF Lacks, Only
<1>2. CASE v = 0
  BY <1>1, <1>2, EmptyIs DEF Unless0
<1>3. CASE v # 0
  BY <1>3, LineIs DEF Unless0
<1>4. QED
  BY <1>2, <1>3

LEMMA ConsoleLines ==
    \A p : /\ IsSeq(obc_set_consoles(p))
           /\ \A key : Len(key) = 1 \/ key[1] = "pci.device" => Lacks(obc_set_consoles(p), key)
           /\ ~ p.comport[0].enabled => Lacks(obc_set_consoles(p), <<"lpc.com", 1>>)
<1> TAKE p
<1> DEFINE f == [i \in 1 .. 4 |->
                    IF p.comport[i - 1].enabled
                    THEN Line(<<"lpc.com", i>>, p.comport[i - 1].backend) ELSE <<>>]
<1>1. f = [i \in 1 .. 4 |-> f[i]] /\ obc_set_consoles(p) = FlattenSeq(f)
  BY DEF obc_set_consoles
<1>2. \A i \in 1 .. 4 : /\ p.comport[i - 1].enabled => f[i] = Line(<<"lpc.com", i>>, p.comport[i - 1].backend)
                        /\ ~ p.comport[i - 1].enabled => f[i] = <<>>
  OBVIOUS
<1> HIDE DEF f
<1>3. \A other : Lacks(<<>>, other)
  BY EmptyIs DEF Lacks
<1>4. \A i \in 1 .. 4 : IsSeq(f[i]) /\ \A key : key # <<"lpc.com", i>> => Lacks(f[i], key)
  BY <1>2, <1>3, LineIs, EmptyIs
<1>5. /\ IsSeq(FlattenSeq(f))
      /\ \A key : (\A i \in 1 .. 4 : Lacks(f[i], key)) => Lacks(FlattenSeq(f), key)
  <2>1. 4 \in Nat
    OBVIOUS
  <2>2. \A i \in 1 .. 4 : IsSeq(f[i])
    BY <1>4
  <2>3. QED
    BY <1>1, <2>1, <2>2, FlattenLacks
<1>6. ASSUME NEW key, Len(key) = 1 \/ key[1] = "pci.device" PROVE Lacks(FlattenSeq(f), key)
  <2>1. \A i \in 1 .. 4 : key # <<"lpc.com", i>>
    BY <1>6
  <2>2. QED
    BY <1>4, <1>5, <2>1
<1>7. ASSUME ~ p.comport[0].enabled PROVE Lacks(FlattenSeq(f), <<"lpc.com", 1>>)
  <2>1. \A i \in 1 .. 4 : Lacks(f[i], <<"lpc.com", 1>>)
    <3>1. TAKE i \in 1 .. 4
    <3>2. CASE i = 1
      <4>1. i - 1 = 0
        BY <3>2
      <4>2. f[i] = <<>>
        BY <1>2, <1>7, <4>1
      <4>3. QED
        BY <1>3, <4>2
    <3>3. CASE i # 1
      <4>1. <<"lpc.com", 1>> # <<"lpc.com", i>>
        BY <3>3
      <4>2. QED
        BY <1>4, <4>1
    <3>4. QED
      BY <3>2, <3>3
  <2>2. QED
    BY <1>5, <2>1
<1>8. QED
  BY <1>1, <1>5, <1>6, <1>7

LEMMA SlotLines ==
    ASSUME NEW p, IsSeq(p.pcislots)
    PROVE  /\ IsSeq(obc_set_pcislots(p))
           /\ \A key : Len(key) = 1 \/ key[1] = "lpc.com" => Lacks(obc_set_pcislots(p), key)
           /\ \A at : (\A i \in DOMAIN p.pcislots : p.pcislots[i].at # at)
                          => Lacks(obc_set_pcislots(p), <<"pci.device", at>>)
<1> DEFINE slots == p.pcislots
           n == Len(slots)
           f == [i \in 1 .. n |-> Line(<<"pci.device", slots[i].at>>, slots[i].device)]
<1>1. n \in Nat /\ DOMAIN slots = 1 .. n
  BY IsSeqFacts
<1>2. obc_set_pcislots(p) = FlattenSeq([i \in DOMAIN slots |-> Line(<<"pci.device", slots[i].at>>, slots[i].device)])
  BY DEF obc_set_pcislots
<1> HIDE DEF slots, n
<1>3. obc_set_pcislots(p) = FlattenSeq(f)
  BY <1>1, <1>2
<1>4. f = [i \in 1 .. n |-> f[i]] /\ \A i \in 1 .. n : f[i] = Line(<<"pci.device", slots[i].at>>, slots[i].device)
  OBVIOUS
<1> HIDE DEF f
<1>5. \A i \in 1 .. n : IsSeq(f[i]) /\ \A key : key # <<"pci.device", slots[i].at>> => Lacks(f[i], key)
  <2>1. TAKE i \in 1 .. n
  <2> DEFINE k == <<"pci.device", slots[i].at>>
             v == slots[i].device
  <2>2. f[i] = Line(k, v)
    BY <1>4
  <2> HIDE DEF k, v
  <2>3. IsSeq(f[i]) /\ \A key : key # k => Lacks(f[i], key)
    BY <2>2, LineIs
  <2>4. QED
    BY <2>3 DEF k
<1>6. /\ IsSeq(FlattenSeq(f))
      /\ \A key : (\A i \in 1 .. n : Lacks(f[i], key)) => Lacks(FlattenSeq(f), key)
  <2>1. \A i \in 1 .. n : IsSeq(f[i])
    BY <1>5
  <2>2. QED
    BY <1>1, <1>4, <2>1, FlattenLacks
<1>7. ASSUME NEW key, Len(key) = 1 \/ key[1] = "lpc.com" PROVE Lacks(FlattenSeq(f), key)
  <2>1. \A i \in 1 .. n : key # <<"pci.device", slots[i].at>>
    BY <1>7
  <2>2. QED
    BY <1>5, <1>6, <2>1
<1>8. ASSUME NEW at, \A i \in 1 .. n : slots[i].at # at PROVE Lacks(FlattenSeq(f), <<"pci.device", at>>)
  <2>1. \A i \in 1 .. n : <<"pci.device", at>> # <<"pci.device", slots[i].at>>
    BY <1>8
  <2>2. QED
    BY <1>5, <1>6, <2>1
<1>9. QED
  BY <1>1, <1>3, <1>6, <1>7, <1>8 DEF slots

LEMMA CoreIs ==
    ASSUME NEW p, IsSeq(p.pcislots)
    PROVE  LET c == obc_set_core(p) IN
           /\ IsSeq(c)
           /\ First(c, <<"name">>, p.vmname)
           /\ p.memory # 0 => First(c, <<"memory.size">>, p.memory)
           /\ p.memory = 0 => Lacks(c, <<"memory.size">>)
           /\ p.numcpus # 0 => First(c, <<"cpus">>, p.numcpus)
           /\ p.numcpus = 0 => Lacks(c, <<"cpus">>)
           /\ p.sockets # 0 => First(c, <<"sockets">>, p.sockets)
           /\ p.sockets = 0 /\ p.cores = 0 => Lacks(c, <<"sockets">>)
           /\ First(c, <<"x86.vmexit_on_hlt">>, p.yield_on_hlt)
           /\ First(c, <<"acpi_tables">>, p.generate_acpi_tables)
           /\ First(c, <<"lpc.bootrom">>, p.bootrom)
           /\ ~ p.comport[0].enabled => Lacks(c, <<"lpc.com", 1>>)
           /\ \A at : (\A i \in DOMAIN p.pcislots : p.pcislots[i].at # at) => Lacks(c, <<"pci.device", at>>)
           /\ Only(c, <<"name">>, p.vmname)
           /\ Only(c, <<"memory.size">>, p.memory)
           /\ Only(c, <<"cpus">>, p.numcpus)
           /\ p.cores = 0 => Only(c, <<"sockets">>, p.sockets)
           /\ Only(c, <<"x86.vmexit_on_hlt">>, p.yield_on_hlt)
           /\ Only(c, <<"acpi_tables">>, p.generate_acpi_tables)
           /\ Only(c, <<"lpc.bootrom">>, p.bootrom)
<1> DEFINE n == <<"name">>
           m == <<"memory.size">>
           u == <<"cpus">>
           s == <<"sockets">>
           x == <<"x86.vmexit_on_hlt">>
           a == <<"acpi_tables">>
           b == <<"lpc.bootrom">>
           com == <<"lpc.com", 1>>
           pci(at) == <<"pci.device", at>>
           Keys == {n, m, u, s, x, a, b}
           q1 == Line(n, p.vmname)
           q2 == Unless0(m, p.memory)
           q3 == Unless0(u, p.numcpus)
           q4 == Unless0(s, p.sockets)
           q5 == Unless0(s, p.cores)
           q6 == Line(x, p.yield_on_hlt)
           q7 == Line(a, p.generate_acpi_tables)
           q8 == Line(b, p.bootrom)
           q9 == obc_set_consoles(p)
           q10 == obc_set_pcislots(p)
           c2 == q1 \o q2
           c3 == c2 \o q3
           c4 == c3 \o q4
           c5 == c4 \o q5
           c6 == c5 \o q6
           c7 == c6 \o q7
           c8 == c7 \o q8
           c9 == c8 \o q9
           c10 == c9 \o q10
<1>1. obc_set_core(p) = c10
  BY DEF obc_set_core
<1>2. /\ n # m /\ n # u /\ n # s /\ n # x /\ n # a /\ n # b
      /\ m # u /\ m # s /\ m # x /\ m # a /\ m # b
      /\ u # s /\ u # x /\ u # a /\ u # b
      /\ s # x /\ s # a /\ s # b
      /\ x # a /\ x # b
      /\ a # b
  OBVIOUS
<1>3. \A k \in Keys : Len(k) = 1 /\ k # com /\ \A at : k # pci(at)
  <2>1. \A k \in Keys : Len(k) = 1
    OBVIOUS
  <2>2. Len(com) = 2 /\ \A at : Len(pci(at)) = 2
    OBVIOUS
  <2>3. QED
    BY <2>1, <2>2
<1>4. com[1] = "lpc.com" /\ \A at : pci(at)[1] = "pci.device"
  OBVIOUS
<1>5. n \in Keys /\ m \in Keys /\ u \in Keys /\ s \in Keys /\ x \in Keys /\ a \in Keys /\ b \in Keys
  OBVIOUS
<1> HIDE DEF n, m, u, s, x, a, b, com, pci, Keys
<1>6. /\ IsSeq(q1) /\ First(q1, n, p.vmname) /\ Only(q1, n, p.vmname) /\ \A k : k # n => Lacks(q1, k)
      /\ IsSeq(q6) /\ First(q6, x, p.yield_on_hlt) /\ Only(q6, x, p.yield_on_hlt) /\ \A k : k # x => Lacks(q6, k)
      /\ IsSeq(q7) /\ First(q7, a, p.generate_acpi_tables) /\ Only(q7, a, p.generate_acpi_tables) /\ \A k : k # a => Lacks(q7, k)
      /\ IsSeq(q8) /\ First(q8, b, p.bootrom) /\ Only(q8, b, p.bootrom) /\ \A k : k # b => Lacks(q8, k)
  BY LineIs
<1>7. /\ IsSeq(q2) /\ Only(q2, m, p.memory) /\ (p.memory # 0 => First(q2, m, p.memory)) /\ (p.memory = 0 => Lacks(q2, m))
      /\ \A k : k # m => Lacks(q2, k)
      /\ IsSeq(q3) /\ Only(q3, u, p.numcpus) /\ (p.numcpus # 0 => First(q3, u, p.numcpus)) /\ (p.numcpus = 0 => Lacks(q3, u))
      /\ \A k : k # u => Lacks(q3, k)
      /\ IsSeq(q4) /\ Only(q4, s, p.sockets) /\ (p.sockets # 0 => First(q4, s, p.sockets)) /\ (p.sockets = 0 => Lacks(q4, s))
      /\ \A k : k # s => Lacks(q4, k)
      /\ IsSeq(q5) /\ (p.cores = 0 => Lacks(q5, s)) /\ \A k : k # s => Lacks(q5, k)
  BY UnlessIs
<1>8. /\ IsSeq(q9) /\ \A k \in Keys : Lacks(q9, k)
      /\ \A at : Lacks(q9, pci(at))
      /\ ~ p.comport[0].enabled => Lacks(q9, com)
  BY <1>3, <1>4, ConsoleLines DEF com
<1>9. /\ IsSeq(q10) /\ \A k \in Keys : Lacks(q10, k)
      /\ Lacks(q10, com)
      /\ \A at : (\A i \in DOMAIN p.pcislots : p.pcislots[i].at # at) => Lacks(q10, pci(at))
  BY <1>3, <1>4, SlotLines DEF pci
<1> HIDE DEF q1, q2, q3, q4, q5, q6, q7, q8, q9, q10
<1> DEFINE Joins(l, r, c) == /\ IsSeq(c)
                             /\ \A k : Lacks(l, k) /\ Lacks(r, k) => Lacks(c, k)
                             /\ \A k, v : First(l, k, v) => First(c, k, v)
                             /\ \A k, v : Lacks(l, k) /\ First(r, k, v) => First(c, k, v)
                             /\ \A k, v : Only(l, k, v) /\ Only(r, k, v) => Only(c, k, v)
<1>10. \A l, r : IsSeq(l) /\ IsSeq(r) => Joins(l, r, l \o r)
  BY ConcatKeys
<1> HIDE DEF Joins
<1>11. /\ Joins(q1, q2, c2) /\ Joins(c2, q3, c3) /\ Joins(c3, q4, c4) /\ Joins(c4, q5, c5)
       /\ Joins(c5, q6, c6) /\ Joins(c6, q7, c7) /\ Joins(c7, q8, c8) /\ Joins(c8, q9, c9)
       /\ Joins(c9, q10, c10)
  <2>1. \A l, r, c : Joins(l, r, c) => IsSeq(c)
    BY DEF Joins
  <2>2. Joins(q1, q2, c2)
    BY <1>6, <1>7, <1>10
  <2>3. Joins(c2, q3, c3)
    <3> HIDE DEF c2
    <3>1. QED
      BY <1>7, <1>10, <2>1, <2>2
  <2>4. Joins(c3, q4, c4)
    <3> HIDE DEF c3
    <3>1. QED
      BY <1>7, <1>10, <2>1, <2>3
  <2>5. Joins(c4, q5, c5)
    <3> HIDE DEF c4
    <3>1. QED
      BY <1>7, <1>10, <2>1, <2>4
  <2>6. Joins(c5, q6, c6)
    <3> HIDE DEF c5
    <3>1. QED
      BY <1>6, <1>10, <2>1, <2>5
  <2>7. Joins(c6, q7, c7)
    <3> HIDE DEF c6
    <3>1. QED
      BY <1>6, <1>10, <2>1, <2>6
  <2>8. Joins(c7, q8, c8)
    <3> HIDE DEF c7
    <3>1. QED
      BY <1>6, <1>10, <2>1, <2>7
  <2>9. Joins(c8, q9, c9)
    <3> HIDE DEF c8
    <3>1. QED
      BY <1>8, <1>10, <2>1, <2>8
  <2>10. Joins(c9, q10, c10)
    <3> HIDE DEF c9
    <3>1. QED
      BY <1>9, <1>10, <2>1, <2>9
  <2>11. QED
    BY <2>2, <2>3, <2>4, <2>5, <2>6, <2>7, <2>8, <2>9, <2>10
<1> HIDE DEF c2, c3, c4, c5, c6, c7, c8, c9, c10
<1> DEFINE L1(k) == Lacks(q1, k)
           L3(k) == Lacks(q2, k) /\ Lacks(q3, k)
           L5(k) == Lacks(q4, k) /\ Lacks(q5, k)
           L8(k) == Lacks(q6, k) /\ Lacks(q7, k) /\ Lacks(q8, k)
           L10(k) == Lacks(q9, k) /\ Lacks(q10, k)
<1>12. /\ \A k : L1(k) /\ Lacks(q2, k) => Lacks(c2, k)
       /\ \A k : L1(k) /\ L3(k) => Lacks(c3, k)
       /\ \A k : L1(k) /\ L3(k) /\ L5(k) => Lacks(c5, k)
       /\ \A k : L1(k) /\ L3(k) /\ L5(k) /\ Lacks(q6, k) => Lacks(c6, k)
       /\ \A k : L1(k) /\ L3(k) /\ L5(k) /\ Lacks(q6, k) /\ Lacks(q7, k) => Lacks(c7, k)
       /\ \A k : L1(k) /\ L3(k) /\ L5(k) /\ L8(k) /\ L10(k) => Lacks(c10, k)
  BY <1>11 DEF Joins
<1>13. /\ \A k, v : First(c8, k, v) => First(c10, k, v)
       /\ \A k, v : First(c7, k, v) => First(c10, k, v)
       /\ \A k, v : First(c6, k, v) => First(c10, k, v)
       /\ \A k, v : First(c4, k, v) => First(c10, k, v)
       /\ \A k, v : First(c3, k, v) => First(c10, k, v)
       /\ \A k, v : First(c2, k, v) => First(c10, k, v)
       /\ \A k, v : First(q1, k, v) => First(c10, k, v)
  BY <1>11 DEF Joins
<1>14. First(c10, n, p.vmname)
  BY <1>6, <1>13
<1>15. /\ p.memory # 0 => First(c10, m, p.memory)
       /\ p.memory = 0 => Lacks(c10, m)
  <2>1. L1(m) /\ Lacks(q3, m) /\ L5(m) /\ L8(m) /\ L10(m)
    BY <1>2, <1>5, <1>6, <1>7, <1>8, <1>9
  <2>2. First(q2, m, p.memory) => First(c2, m, p.memory)
    BY <1>11, <2>1 DEF Joins
  <2>3. QED
    BY <1>7, <1>12, <1>13, <2>1, <2>2
<1>16. /\ p.numcpus # 0 => First(c10, u, p.numcpus)
       /\ p.numcpus = 0 => Lacks(c10, u)
  <2>1. L1(u) /\ Lacks(q2, u) /\ L5(u) /\ L8(u) /\ L10(u)
    BY <1>2, <1>5, <1>6, <1>7, <1>8, <1>9
  <2>2. Lacks(c2, u)
    BY <1>12, <2>1
  <2>3. First(q3, u, p.numcpus) => First(c3, u, p.numcpus)
    BY <1>11, <2>2 DEF Joins
  <2>4. QED
    BY <1>7, <1>12, <1>13, <2>1, <2>3
<1>17. /\ p.sockets # 0 => First(c10, s, p.sockets)
       /\ p.sockets = 0 /\ p.cores = 0 => Lacks(c10, s)
  <2>1. L1(s) /\ L3(s) /\ L8(s) /\ L10(s)
    BY <1>2, <1>5, <1>6, <1>7, <1>8, <1>9
  <2>2. Lacks(c3, s)
    BY <1>12, <2>1
  <2>3. First(q4, s, p.sockets) => First(c4, s, p.sockets)
    BY <1>11, <2>2 DEF Joins
  <2>4. QED
    BY <1>7, <1>12, <1>13, <2>1, <2>3
<1>18. First(c10, x, p.yield_on_hlt)
  <2>1. L1(x) /\ L3(x) /\ L5(x)
    BY <1>2, <1>6, <1>7
  <2>2. Lacks(c5, x)
    BY <1>12, <2>1
  <2>3. First(c6, x, p.yield_on_hlt)
    BY <1>6, <1>11, <2>2 DEF Joins
  <2>4. QED
    BY <1>13, <2>3
<1>19. First(c10, a, p.generate_acpi_tables)
  <2>1. L1(a) /\ L3(a) /\ L5(a) /\ Lacks(q6, a)
    BY <1>2, <1>6, <1>7
  <2>2. Lacks(c6, a)
    BY <1>12, <2>1
  <2>3. First(c7, a, p.generate_acpi_tables)
    BY <1>6, <1>11, <2>2 DEF Joins
  <2>4. QED
    BY <1>13, <2>3
<1>20. First(c10, b, p.bootrom)
  <2>1. L1(b) /\ L3(b) /\ L5(b) /\ Lacks(q6, b) /\ Lacks(q7, b)
    BY <1>2, <1>6, <1>7
  <2>2. Lacks(c7, b)
    BY <1>12, <2>1
  <2>3. First(c8, b, p.bootrom)
    BY <1>6, <1>11, <2>2 DEF Joins
  <2>4. QED
    BY <1>13, <2>3
<1>21. ~ p.comport[0].enabled => Lacks(c10, com)
  <2>1. L1(com) /\ L3(com) /\ L5(com) /\ L8(com) /\ Lacks(q10, com)
    BY <1>3, <1>5, <1>6, <1>7, <1>9
  <2>2. QED
    BY <1>8, <1>12, <2>1
<1>22. ASSUME NEW at, \A i \in DOMAIN p.pcislots : p.pcislots[i].at # at PROVE Lacks(c10, pci(at))
  <2>1. L1(pci(at)) /\ L3(pci(at)) /\ L5(pci(at)) /\ L8(pci(at)) /\ Lacks(q9, pci(at))
    BY <1>3, <1>5, <1>6, <1>7, <1>8
  <2>2. Lacks(q10, pci(at))
    BY <1>9, <1>22
  <2>3. QED
    BY <1>12, <2>1, <2>2
<1>23. IsSeq(c10)
  BY <1>11 DEF Joins
<1> DEFINE O5(k, v) == Only(q1, k, v) /\ Only(q2, k, v) /\ Only(q3, k, v) /\ Only(q4, k, v) /\ Only(q5, k, v)
           O10(k, v) == Only(q6, k, v) /\ Only(q7, k, v) /\ Only(q8, k, v) /\ Only(q9, k, v) /\ Only(q10, k, v)
<1>24. \A k, v : O5(k, v) /\ O10(k, v) => Only(c10, k, v)
  <2>1. \A k, v : O5(k, v) => Only(c5, k, v)
    BY <1>11 DEF Joins
  <2>2. \A k, v : Only(c5, k, v) /\ O10(k, v) => Only(c10, k, v)
    BY <1>11 DEF Joins
  <2> HIDE DEF O5, O10
  <2>3. QED
    BY <2>1, <2>2
<1>25. \A k \in Keys : \A v :
          /\ k # n => Only(q1, k, v)
          /\ k # m => Only(q2, k, v)
          /\ k # u => Only(q3, k, v)
          /\ k # s => Only(q4, k, v) /\ Only(q5, k, v)
          /\ p.cores = 0 => Only(q5, k, v)
          /\ k # x => Only(q6, k, v)
          /\ k # a => Only(q7, k, v)
          /\ k # b => Only(q8, k, v)
          /\ Only(q9, k, v) /\ Only(q10, k, v)
  BY <1>6, <1>7, <1>8, <1>9, LacksIsOnly
<1>26. /\ Only(c10, n, p.vmname) /\ Only(c10, m, p.memory) /\ Only(c10, u, p.numcpus)
       /\ p.cores = 0 => Only(c10, s, p.sockets)
  BY <1>2, <1>5, <1>6, <1>7, <1>24, <1>25
<1>27. /\ Only(c10, x, p.yield_on_hlt) /\ Only(c10, a, p.generate_acpi_tables)
       /\ Only(c10, b, p.bootrom)
  BY <1>2, <1>5, <1>6, <1>24, <1>25
<1>28. QED
  BY <1>1, <1>14, <1>15, <1>16, <1>17, <1>18, <1>19, <1>20, <1>21, <1>22, <1>23, <1>26, <1>27
     DEF n, m, u, s, x, a, b, com, pci

----------------------------------------------------------------------------
(***************************************************************************)
(* The generated file of a machine that is started once and that shares it *)
(* with no other: from the end of obc_combine_with to the boot of bhyve it *)
(* is what the generator makes of the machine's own configuration, or what *)
(* is left of that when writes fail without notice.                        *)
(***************************************************************************)

ConfigFile(i) == vms[i].config.configfile
Lines(i)      == obc_new(ptc_translate(vms[i].config))
Made(file, base, lines) == /\ ~ file.lost => file.lines = base \o lines
                           /\ Parts(file.lines, base, lines)
FileIs(i)     == ConfigFile(i) \in DOMAIN Bases /\ Made(files[ConfigFile(i)], Base(i), Lines(i))
Generated(t)  == job[t].at \in {"link", "launch"}

FileKept(i) ==
    /\ vms[i].process = "exec" \/ (\E t \in Starters : job[t].vm = i /\ Generated(t)) => FileIs(i)
    /\ vms[i].process = "up" => ConfigFile(i) \in DOMAIN Bases /\ Made(vms[i].boot, Base(i), Lines(i))

FileInv ==
    /\ DOMAIN files = DOMAIN Bases
    /\ \A i \in DOMAIN vms : vms[i].process # "up" => vms[i].boot = NULL
    /\ \A t \in Starters : job[t].at = "write" => ConfigFile(job[t].vm) \in DOMAIN Bases
    /\ \A i \in DOMAIN vms : vms[i].alone /\ Unshared(i) => FileKept(i)

LEMMA SharingStays ==
    ASSUME SameConfigs, NEW i \in DOMAIN vms
    PROVE  /\ Unshared(i)' <=> Unshared(i)
           /\ ConfigFile(i)' = ConfigFile(i) /\ Base(i)' = Base(i) /\ Lines(i)' = Lines(i)
<1>1. ConfigFile(i)' = ConfigFile(i) /\ Base(i)' = Base(i) /\ Lines(i)' = Lines(i)
  BY DEF SameConfigs, ConfigFile, Lines, Base
<1>2. Unshared(i)' <=> Unshared(i)
  BY DEF SameConfigs, Unshared
<1>3. QED
  BY <1>1, <1>2

LEMMA FileQuiet ==
    ASSUME FileInv, NEW i \in DOMAIN vms, vms[i].alone, Unshared(i), SameConfigs,
           FileIs(i) => files'[ConfigFile(i)] = files[ConfigFile(i)],
           \A t \in Starters : job'[t].vm = i /\ Generated(t)' => job[t].vm = i /\ Generated(t),
           \/ vms'[i].process = vms[i].process /\ vms'[i].boot = vms[i].boot
           \/ vms'[i].process = "none"
    PROVE  FileKept(i)'
<1>1. FileKept(i)
  BY DEF FileInv
<1>2. ConfigFile(i)' = ConfigFile(i) /\ Base(i)' = Base(i) /\ Lines(i)' = Lines(i)
  BY SharingStays
<1>3. FileIs(i) => FileIs(i)'
  BY <1>2 DEF FileIs
<1>4. QED
  BY <1>1, <1>2, <1>3 DEF FileKept

LEMMA FilesStay ==
    ASSUME TypeInv, TypeInv', FileInv, SameConfigs, files' = files,
           \A t \in Starters : job'[t].vm # 0 =>
               /\ job'[t].vm = job[t].vm
               /\ Generated(t)' => Generated(t)
               /\ job'[t].at = "write" => job[t].at = "write",
           \A i \in DOMAIN vms : /\ vms'[i].alone => vms[i].alone
                                 /\ \/ vms'[i].process = vms[i].process /\ vms'[i].boot = vms[i].boot
                                    \/ vms'[i].process = "none" /\ vms'[i].boot = NULL
    PROVE  FileInv'
<1>1. 0 \notin DOMAIN vms /\ DOMAIN vms' = DOMAIN vms
      /\ \A t \in Starters : job'[t].at # "rest" => job'[t].vm \in DOMAIN vms
  <2>1. 0 \notin DOMAIN vms /\ DOMAIN vms = 1 .. Len(vms) /\ DOMAIN vms' = DOMAIN vms /\ Len(vms') = Len(vms)
    BY Basics DEF SameConfigs
  <2>2. \A t \in Starters : job'[t].vm \in 0 .. Len(vms) /\ (job'[t].vm = 0 => job'[t] = Idle)
    BY <2>1 DEF TypeInv, Jobs
  <2>3. Idle.at = "rest" /\ Len(vms) \in Nat
    BY Basics DEF Idle
  <2>4. QED
    BY <2>1, <2>2, <2>3
<1>2. \A t \in Starters : job'[t].at = "write" => ConfigFile(job[t].vm)' \in DOMAIN Bases
  <2>1. SUFFICES ASSUME NEW t \in Starters, job'[t].at = "write" PROVE ConfigFile(job[t].vm)' \in DOMAIN Bases
    OBVIOUS
  <2>2. job'[t].vm \in DOMAIN vms /\ job'[t].vm # 0 /\ job'[t].vm = job[t].vm /\ job[t].at = "write"
    BY <1>1, <2>1
  <2>3. QED
    BY <2>2 DEF FileInv, SameConfigs, ConfigFile
<1>3. ASSUME NEW i \in DOMAIN vms, vms'[i].alone, Unshared(i)' PROVE FileKept(i)'
  <2>1. vms[i].alone /\ Unshared(i)
    BY <1>3, SharingStays
  <2>2. \A t \in Starters : job'[t].vm = i /\ Generated(t)' => job[t].vm = i /\ Generated(t)
    BY <1>1
  <2>3. QED
    BY <2>1, <2>2, FileQuiet
<1>4. \A i \in DOMAIN vms : vms'[i].process # "up" => vms'[i].boot = NULL
  BY DEF FileInv
<1>5. QED
  BY <1>1, <1>2, <1>3, <1>4 DEF FileInv

LEMMA InitFiles == Init => FileInv
<1>1. SUFFICES ASSUME Init PROVE FileInv
  OBVIOUS
<1>2. DOMAIN vms = {} /\ DOMAIN files = DOMAIN Bases /\ \A t \in Starters : job[t].at = "rest"
  BY <1>1 DEF Init, Idle
<1>3. QED
  BY <1>2 DEF FileInv

LEMMA SameFiles ==
    ASSUME TypeInv, FileInv, UNCHANGED <<vms, files, job>>
    PROVE  FileInv'
BY DEF FileInv, Unshared, FileKept, FileIs, ConfigFile, Lines, Base, Generated

LEMMA LoadingFiles == TypeInv /\ TypeInv' /\ FileInv /\ (bcs_walkdir \/ EndOfDir \/ bd_new) => FileInv'
<1>1. SUFFICES ASSUME TypeInv, TypeInv', FileInv, bcs_walkdir \/ EndOfDir \/ bd_new PROVE FileInv'
  OBVIOUS
<1>2. CASE UNCHANGED <<vms, files, job>>
  BY <1>1, <1>2, SameFiles
<1>3. CASE bd_new /\ ~ UNCHANGED vms
  <2> DEFINE m == bwv_new(configs[bci_next])
  <2>1. pc' = "list" /\ UNCHANGED <<files, job>> /\ vms' = <<m>> \o vms /\ pc = "list"
    BY <1>3 DEF bd_new
  <2>2. m.boot = NULL
    BY DEF bwv_new
  <2> HIDE DEF m
  <2> DEFINE one == <<m>>
  <2>3. IsSeq(one) /\ Len(one) = 1 /\ one[1] = m /\ vms' = one \o vms
    BY <2>1, OneIs
  <2> HIDE DEF one
  <2>4. IsSeq(one) /\ IsSeq(vms)
    BY <1>1, <2>3 DEF TypeInv, Machines
  <2>5. /\ DOMAIN (one \o vms) = 1 .. Len(one) + Len(vms)
        /\ \A i \in 1 .. Len(one) : (one \o vms)[i] = one[i]
        /\ \A i \in 1 .. Len(vms) : (one \o vms)[Len(one) + i] = vms[i]
    BY <2>4, ConcatIs
  <2>6. Len(vms) \in Nat /\ DOMAIN vms = 1 .. Len(vms)
    BY <2>4, IsSeqFacts
  <2>7. \A i \in DOMAIN vms : vms[i].boot = NULL
    BY <1>1, <2>1 DEF TypeInv, Loads, FileInv
  <2>8. ASSUME NEW i \in DOMAIN vms' PROVE vms'[i].boot = NULL
    <3>1. i \in 1 .. 1 + Len(vms)
      BY <2>3, <2>5
    <3>2. CASE i = 1
      BY <2>2, <2>3, <2>5, <3>2
    <3>3. CASE i # 1
      <4>1. i - 1 \in 1 .. Len(vms) /\ 1 + (i - 1) = i
        BY <2>6, <3>1, <3>3
      <4>2. vms'[1 + (i - 1)] = vms[i - 1]
        BY <2>3, <2>5, <4>1
      <4>3. QED
        BY <2>6, <2>7, <4>1, <4>2
    <3>4. QED
      BY <3>2, <3>3
  <2>9. \A i \in DOMAIN vms' : ~ vms'[i].alone
    BY <1>1, <2>1 DEF TypeInv, Loads
  <2>10. \A t \in Starters : job'[t].at = "rest"
    BY <1>1, <2>1 DEF TypeInv, Loads, Idle
  <2>11. QED
    BY <1>1, <2>1, <2>8, <2>9, <2>10 DEF FileInv
<1>4. QED
  BY <1>1, <1>2, <1>3 DEF bcs_walkdir, EndOfDir, bd_new, Crash

(* A step that changes one machine, but not whether its start was alone. *)
LEMMA OneFile ==
    ASSUME TypeInv, TypeInv', FileInv, NEW i \in DOMAIN vms, NEW x \in VMStates,
           NEW p, NEW b, (p = vms[i].process /\ b = vms[i].boot) \/ (p = "none" /\ b = NULL),
           Changes(i, x, p, b, vms[i].alone), files' = files,
           \A t \in Starters : job'[t].vm # 0 => job'[t] = job[t]
    PROVE  FileInv'
<1>1. p \in Processes /\ vms[i].alone \in BOOLEAN
  BY Basics DEF Processes
<1>2. /\ Len(vms') = Len(vms) /\ DOMAIN vms' = DOMAIN vms
      /\ vms'[i].process = p /\ vms'[i].boot = b /\ vms'[i].alone = vms[i].alone
      /\ \A k \in DOMAIN vms : k # i => vms'[k] = vms[k]
      /\ \A k \in DOMAIN vms : vms'[k].config = vms[k].config
  BY <1>1, OneMachine DEF TypeInv
<1>3. SameConfigs
  BY <1>2 DEF SameConfigs
<1>4. \A k \in DOMAIN vms :
         /\ vms'[k].alone => vms[k].alone
         /\ \/ vms'[k].process = vms[k].process /\ vms'[k].boot = vms[k].boot
            \/ vms'[k].process = "none" /\ vms'[k].boot = NULL
  BY <1>2
<1>5. \A t \in Starters : job'[t].vm # 0 =>
               /\ job'[t].vm = job[t].vm
               /\ Generated(t)' => Generated(t)
               /\ job'[t].at = "write" => job[t].at = "write"
  BY DEF Generated
<1>6. QED
  BY <1>3, <1>4, <1>5, FilesStay

LEMMA FailsFiles ==
    ASSUME IInv, TypeInv', FileInv, NEW t \in Starters, job[t].at # "rest", Gives(t),
           vms' = [vms EXCEPT ![job[t].vm].vmstate = "FAILED"], files' = files
    PROVE  FileInv'
<1>1. PICK i \in DOMAIN vms : i = job[t].vm
  BY Basics DEF IInv
<1>2. Changes(i, "FAILED", vms[i].process, vms[i].boot, vms[i].alone) /\ TypeInv
  BY <1>1, AMachineChanges DEF IInv, TypeInv
<1>3. Len(vms') = Len(vms)
  BY <1>2, ChangesKeeps DEF TypeInv, SameConfigs
<1>4. \A u \in Starters : job'[u].vm # 0 => job'[u] = job[u]
  BY <1>2, <1>3, JobMoves
<1>5. "FAILED" \in VMStates
  BY DEF VMStates
<1> DEFINE p == vms[i].process
           b == vms[i].boot
<1>6. /\ Changes(i, "FAILED", p, b, vms[i].alone)
      /\ (p = vms[i].process /\ b = vms[i].boot) \/ (p = "none" /\ b = NULL)
  BY <1>2
<1>7. TypeInv /\ TypeInv' /\ FileInv /\ files' = files
  BY <1>2
<1> HIDE DEF p, b
<1>8. QED
  BY <1>4, <1>5, <1>6, <1>7, OneFile

LEMMA BeginFiles ==
    ASSUME IInv, TypeInv', FileInv, NEW t \in Starters, NEW n \in DOMAIN vms, Begin(t, vms[n].config.name)
    PROVE  FileInv'
<1> DEFINE i == bd_getvmbyname(vms[n].config.name)
<1>1. i \in DOMAIN vms
  BY GetVmIs, Basics DEF IInv
<1>2. /\ pc = "serving" /\ job[t] = Idle
      /\ job' = [job EXCEPT ![t] = [at |-> "open", vm |-> i]]
      /\ vms' = [vms EXCEPT ![i].alone = AtRest(i)]
      /\ UNCHANGED <<loading, pc, files, links, broken, ending>>
  BY DEF Begin
<1> HIDE DEF i
<1> DEFINE a == AtRest(i)
<1>3. a \in BOOLEAN
  BY DEF AtRest
<1>4. a => /\ vms[i].process = "none"
           /\ \A u \in Starters : job[u].vm # i
  BY DEF AtRest
<1> HIDE DEF a
<1>5. Changes(i, vms[i].vmstate, vms[i].process, vms[i].boot, a)
  BY <1>1, <1>2, AMachineChanges DEF IInv, TypeInv, a
<1>6. vms[i].vmstate \in VMStates /\ vms[i].process \in Processes
  BY <1>1, Basics DEF IInv
<1>7. /\ Machines' /\ Len(vms') = Len(vms) /\ DOMAIN vms' = DOMAIN vms
      /\ vms'[i].process = vms[i].process /\ vms'[i].boot = vms[i].boot /\ vms'[i].alone = a
      /\ \A k \in DOMAIN vms : k # i => vms'[k] = vms[k]
      /\ \A k \in DOMAIN vms : vms'[k].config = vms[k].config
  BY <1>1, <1>3, <1>5, <1>6, OneMachine DEF IInv, TypeInv
<1>8. /\ job'[t].vm = i /\ job'[t].at = "open"
      /\ \A u \in Starters : u # t => job'[u] = job[u]
  BY <1>1, <1>2, <1>7, JobMoves DEF IInv
<1>9. SameConfigs
  BY <1>7 DEF SameConfigs
<1>10. \A u \in Starters : /\ Generated(u)' => job'[u] = job[u]
                           /\ job'[u].at = "write" => job'[u] = job[u]
  BY <1>8 DEF Generated
<1>11. ASSUME NEW k \in DOMAIN vms, vms'[k].alone, Unshared(k)' PROVE FileKept(k)'
  <2>1. CASE k # i
    <3>1. vms'[k] = vms[k] /\ vms[k].alone /\ Unshared(k)
      BY <1>7, <1>9, <1>11, <2>1, SharingStays
    <3>2. \A u \in Starters : job'[u].vm = k /\ Generated(u)' => job[u].vm = k /\ Generated(u)
      BY <1>10 DEF Generated
    <3>3. QED
      BY <1>2, <1>9, <3>1, <3>2, FileQuiet
  <2>2. CASE k = i
    <3>1. vms'[k].process = "none" /\ \A u \in Starters : job[u].vm # i
      BY <1>4, <1>7, <1>11, <2>2
    <3>2. \A u \in Starters : ~ (job'[u].vm = k /\ Generated(u)')
      BY <1>10, <2>2, <3>1
    <3>3. QED
      BY <3>1, <3>2 DEF FileKept
  <2>3. QED
    BY <2>1, <2>2
<1>12. \A k \in DOMAIN vms : vms'[k].process # "up" => vms'[k].boot = NULL
  BY <1>1, <1>7 DEF FileInv
<1>13. \A u \in Starters : job'[u].at = "write" => ConfigFile(job[u].vm)' \in DOMAIN Bases
  <2>1. SUFFICES ASSUME NEW u \in Starters, job'[u].at = "write" PROVE ConfigFile(job[u].vm)' \in DOMAIN Bases
    OBVIOUS
  <2>2. job'[u] = job[u] /\ job[u].vm \in DOMAIN vms
    BY <1>10, <2>1, Basics DEF IInv
  <2>3. QED
    BY <1>7, <2>1, <2>2 DEF FileInv, ConfigFile
<1>14. QED
  BY <1>2, <1>7, <1>11, <1>12, <1>13 DEF FileInv

LEMMA LinesAreASeq ==
    \A bc : IsSeq(obc_new(ptc_translate(bc)))
<1> TAKE bc
<1> DEFINE p == ptc_translate(bc)
<1>1. IsSeq(p.pcislots)
  BY TranslatedIs, SlotsOfIs
<1> HIDE DEF p
<1>2. IsSeq(obc_set_core(p))
  BY <1>1, CoreIs
<1>3. IsSeq(obc_new(p))
  BY <1>2, ReverseIs DEF obc_new
<1>4. QED
  BY <1>3 DEF p

(* The steps of starter t that write the file of its machine. *)
LEMMA OwnFile ==
    ASSUME IInv, TypeInv', FileInv, NEW t \in Starters, NEW i \in DOMAIN vms, i = job[t].vm, SameConfigs,
           NEW text, ConfigFile(i) \in DOMAIN Bases, files' = [files EXCEPT ![ConfigFile(i)] = text],
           \A u \in Starters : u # t => job'[u] = job[u],
           job'[t].vm # 0 => job'[t].vm = i,
           Generated(t)' => Made(text, Base(i), Lines(i)),
           \A k \in DOMAIN vms : /\ vms'[k].alone = vms[k].alone
                                 /\ vms'[k].process = vms[k].process /\ vms'[k].boot = vms[k].boot
    PROVE  FileInv'
<1>1. TypeInv /\ 0 \notin DOMAIN vms /\ DOMAIN vms' = DOMAIN vms
  BY Basics DEF IInv, SameConfigs
<1>2. DOMAIN files = DOMAIN Bases
  BY DEF FileInv
<1>3. DOMAIN files' = DOMAIN Bases /\ files'[ConfigFile(i)] = text
      /\ \A c \in DOMAIN Bases : c # ConfigFile(i) => files'[c] = files[c]
  BY <1>2
<1>4. \A u \in Starters : job'[u].at # "rest" => job'[u].vm \in DOMAIN vms
  <2>1. DOMAIN vms = 1 .. Len(vms) /\ Len(vms') = Len(vms)
    BY <1>1, Basics DEF SameConfigs
  <2>2. \A u \in Starters : job'[u].vm \in 0 .. Len(vms) /\ (job'[u].vm = 0 => job'[u] = Idle)
    BY <2>1 DEF TypeInv, Jobs
  <2>3. Idle.at = "rest" /\ Len(vms) \in Nat
    BY <1>1, Basics DEF Idle
  <2>4. QED
    BY <2>1, <2>2, <2>3
<1>5. ASSUME NEW k \in DOMAIN vms, vms'[k].alone, Unshared(k)' PROVE FileKept(k)'
  <2>1. /\ vms[k].alone /\ Unshared(k) /\ ConfigFile(k)' = ConfigFile(k)
        /\ Base(k)' = Base(k) /\ Lines(k)' = Lines(k)
    BY <1>5, SharingStays
  <2>2. CASE k # i
    <3>1. ConfigFile(k) # ConfigFile(i)
      BY <2>1, <2>2 DEF Unshared, ConfigFile
    <3>2. FileIs(k) => files'[ConfigFile(k)] = files[ConfigFile(k)]
      BY <1>3, <3>1 DEF FileIs
    <3>3. \A u \in Starters : job'[u].vm = k /\ Generated(u)' => job[u].vm = k /\ Generated(u)
      BY <1>1, <2>2 DEF Generated
    <3>4. QED
      BY <2>1, <3>2, <3>3, FileQuiet
  <2>3. CASE k = i
    <3>1. OneStart(i) /\ vms[i].process = "none"
      BY <2>1, <2>3 DEF IInv, LinkInv, NoProcess
    <3>2. \A u \in Starters : job'[u].vm = i /\ Generated(u)' => u = t
      BY <3>1 DEF OneStart
    <3>3. ASSUME NEW u \in Starters, job'[u].vm = i, Generated(u)' PROVE FileIs(i)'
      <4>1. u = t
        BY <3>2, <3>3
      <4>2. Made(text, Base(i), Lines(i))
        BY <3>3, <4>1
      <4>3. QED
        BY <1>3, <2>1, <2>3, <4>2 DEF FileIs
    <3>4. vms'[i].process = "none"
      BY <3>1
    <3>5. QED
      BY <2>3, <3>3, <3>4 DEF FileKept
  <2>4. QED
    BY <2>2, <2>3
<1>6. \A k \in DOMAIN vms : vms'[k].process # "up" => vms'[k].boot = NULL
  BY DEF FileInv
<1>7. \A u \in Starters : job'[u].at = "write" => ConfigFile(job[u].vm)' \in DOMAIN Bases /\ job'[u].vm = job[u].vm
  <2>1. SUFFICES ASSUME NEW u \in Starters, job'[u].at = "write"
                 PROVE  ConfigFile(job[u].vm)' \in DOMAIN Bases /\ job'[u].vm = job[u].vm
    OBVIOUS
  <2>2. job'[u].vm \in DOMAIN vms
    BY <1>4, <2>1
  <2>3. CASE u = t
    <3>1. job'[t].vm = i
      BY <1>1, <2>2, <2>3
    <3>2. ConfigFile(i)' = ConfigFile(i)
      BY SharingStays
    <3>3. QED
      BY <2>3, <3>1, <3>2 DEF ConfigFile
  <2>4. CASE u # t
    <3>1. job'[u] = job[u]
      BY <2>4
    <3>2. ConfigFile(job[u].vm) \in DOMAIN Bases /\ job[u].vm \in DOMAIN vms
      BY <2>1, <2>2, <3>1 DEF FileInv
    <3>3. QED
      BY <3>1, <3>2, SharingStays DEF ConfigFile
  <2>5. QED
    BY <2>3, <2>4
<1>8. QED
  BY <1>1, <1>3, <1>5, <1>6, <1>7 DEF FileInv

LEMMA OpenFiles ==
    ASSUME IInv, IInv', FileInv, NEW t \in Starters, Open(t)
    PROVE  FileInv'
<1>1. job[t].at = "open" /\ TypeInv /\ TypeInv'
  BY DEF Open, IInv
<1>2. CASE Crash
  BY <1>1, <1>2, SameFiles DEF Crash
<1>3. CASE Fails(t)
  BY <1>1, <1>3, FailsFiles DEF Fails
<1>4. CASE /\ Size(vms[job[t].vm].config) \in {"ok", "pages"}
           /\ files' = [files EXCEPT ![vms[job[t].vm].config.configfile] = Truncated]
           /\ Goto(t, "write")
           /\ UNCHANGED <<loading, pc, vms, links, broken, ending>>
  <2>1. PICK i \in DOMAIN vms : i = job[t].vm
    BY <1>1, Basics
  <2>2. ConfigFile(i) \in DOMAIN Bases
    BY <1>4, <2>1 DEF Size, ConfigFile
  <2>3. "write" \in Steps \ {"rest"} /\ job[t].at # "rest" /\ pc = "serving"
    BY <1>1 DEF Steps, Open
  <2>4. /\ SameConfigs
        /\ job'[t].vm = job[t].vm /\ job'[t].at = "write"
        /\ \A u \in Starters : u # t => job'[u] = job[u]
    BY <1>4, <2>3, OnlyJob
  <2>5. ~ Generated(t)'
    BY <2>4 DEF Generated
  <2>6. files' = [files EXCEPT ![ConfigFile(i)] = Truncated]
    BY <1>4, <2>1 DEF ConfigFile
  <2>7. QED
    BY <1>1, <1>4, <2>1, <2>2, <2>4, <2>5, <2>6, OwnFile
<1>5. QED
  BY <1>2, <1>3, <1>4 DEF Open

LEMMA CombineFiles ==
    ASSUME IInv, IInv', FileInv, NEW t \in Starters, obc_combine_with(t)
    PROVE  FileInv'
<1>1. job[t].at = "write" /\ pc = "serving" /\ TypeInv /\ TypeInv' /\ UNCHANGED <<loading, pc, links, broken, ending>>
  BY DEF obc_combine_with, IInv
<1>2. PICK i \in DOMAIN vms : i = job[t].vm
  BY <1>1, Basics
<1> DEFINE bc == vms[i].config
           lines == Lines(i)
           texts == Texts(Base(i), lines)
           File(n, lost) == [lines |-> Written(texts, n, lost), lost |-> lost \cap 1 .. n # {}]
           Write(n, lost) == files' = [files EXCEPT ![ConfigFile(i)] = File(n, lost)]
<1>3. \E lost \in Unnoticed \cup {{}} :
         \/ Write(Len(texts), lost) /\ Goto(t, "link") /\ UNCHANGED vms
         \/ /\ \E n \in Stops \cap 0 .. Len(texts) : Write(n, lost)
            /\ Gives(t)
            /\ vms' = [vms EXCEPT ![i].vmstate = "FAILED"]
  BY <1>2 DEF obc_combine_with, Lines, Base, ConfigFile
<1>4. ConfigFile(i) \in DOMAIN Bases /\ IsSeq(Base(i)) /\ IsSeq(lines)
  <2>1. ConfigFile(i) \in DOMAIN Bases
    BY <1>1, <1>2 DEF FileInv
  <2>2. IsSeq(Base(i))
    BY <2>1, BasesAssumption DEF ConfigFile, Base
  <2>3. IsSeq(lines)
    BY LinesAreASeq DEF Lines
  <2>4. QED
    BY <2>1, <2>2, <2>3
<1> HIDE DEF lines
<1>5. ASSUME NEW lost PROVE Made(File(Len(texts), lost), Base(i), lines)
  <2> DEFINE m == Len(lines)
             w == Written(texts, m + 1, lost)
  <2>1. Len(texts) = m + 1
    BY <1>4, TextsAre
  <2>2. /\ Parts(w, Base(i), lines)
        /\ lost \cap 1 .. m + 1 = {} => w = Base(i) \o lines
    BY <1>4, WrittenIs
  <2>3. /\ File(Len(texts), lost).lines = w
        /\ lost \cap 1 .. m + 1 # {} <=> File(Len(texts), lost).lost
    <3> HIDE DEF texts
    <3>1. QED
      BY <2>1
  <2> HIDE DEF File, w
  <2>4. QED
    BY <2>2, <2>3 DEF Made
<1> HIDE DEF File, texts
<1>8. ASSUME NEW lost, Write(Len(texts), lost), Goto(t, "link"), UNCHANGED vms
      PROVE  FileInv'
  <2> DEFINE text == File(Len(texts), lost)
  <2>1. Made(text, Base(i), Lines(i))
    BY <1>5 DEF lines
  <2>2. files' = [files EXCEPT ![ConfigFile(i)] = text]
    BY <1>8
  <2> HIDE DEF text
  <2>3. Goto(t, "link") /\ UNCHANGED vms /\ "link" \in Steps \ {"rest"} /\ job[t].at # "rest"
    BY <1>1, <1>8 DEF Steps
  <2>4. /\ SameConfigs
        /\ job'[t].vm = job[t].vm /\ job'[t].at = "link"
        /\ \A u \in Starters : u # t => job'[u] = job[u]
    BY <1>1, <2>3, OnlyJob
  <2>5. QED
    BY <1>1, <1>2, <1>4, <2>1, <2>2, <2>3, <2>4, OwnFile
<1>9. ASSUME NEW lost, NEW n, Write(n, lost), Gives(t), vms' = [vms EXCEPT ![i].vmstate = "FAILED"]
      PROVE  FileInv'
  <2> DEFINE text == File(n, lost)
  <2>0. files' = [files EXCEPT ![ConfigFile(i)] = text]
    BY <1>9
  <2> HIDE DEF text
  <2>1. Gives(t) /\ vms' = [vms EXCEPT ![i].vmstate = "FAILED"]
    BY <1>9
  <2>2. Changes(i, "FAILED", vms[i].process, vms[i].boot, vms[i].alone)
    BY <1>1, <2>1, AMachineChanges DEF TypeInv
  <2>3. "FAILED" \in VMStates /\ vms[i].process \in Processes /\ vms[i].alone \in BOOLEAN
    BY <1>1, Basics DEF VMStates
  <2>4. /\ Machines' /\ Len(vms') = Len(vms) /\ DOMAIN vms' = DOMAIN vms
        /\ vms'[i].process = vms[i].process /\ vms'[i].boot = vms[i].boot /\ vms'[i].alone = vms[i].alone
        /\ \A k \in DOMAIN vms : k # i => vms'[k] = vms[k]
        /\ \A k \in DOMAIN vms : vms'[k].config = vms[k].config
    BY <1>1, <2>2, <2>3, OneMachine DEF TypeInv
  <2>5. /\ job'[t] = Idle /\ job'[t].vm = 0
        /\ \A u \in Starters : u # t => job'[u] = job[u]
    BY <1>1, <2>1, <2>4, JobMoves
  <2>6. SameConfigs /\ ~ Generated(t)'
    BY <2>4, <2>5 DEF SameConfigs, Generated, Idle
  <2>7. \A k \in DOMAIN vms : /\ vms'[k].alone = vms[k].alone
                              /\ vms'[k].process = vms[k].process /\ vms'[k].boot = vms[k].boot
    BY <2>4
  <2>8. QED
    BY <1>1, <1>2, <1>4, <2>0, <2>5, <2>6, <2>7, OwnFile
<1>10. QED
  BY <1>3, <1>8, <1>9

LEMMA LinkFiles ==
    ASSUME IInv, IInv', FileInv, NEW t \in Starters, bwv_linkconsoles(t)
    PROVE  FileInv'
<1>1. job[t].at = "link" /\ pc = "serving" /\ TypeInv /\ TypeInv'
  BY DEF bwv_linkconsoles, IInv
<1>2. CASE Crash
  BY <1>1, <1>2, SameFiles DEF Crash
<1>3. CASE Goto(t, "launch") /\ UNCHANGED <<loading, pc, vms, files, ending>>
  <2>1. "launch" \in Steps \ {"rest"} /\ job[t].at # "rest"
    BY <1>1 DEF Steps
  <2>2. /\ SameConfigs
        /\ job'[t].vm = job[t].vm /\ job'[t].at = "launch"
        /\ \A u \in Starters : u # t => job'[u] = job[u]
    BY <1>1, <1>3, <2>1, OnlyJob
  <2>3. \A u \in Starters : job'[u].vm # 0 =>
               /\ job'[u].vm = job[u].vm
               /\ Generated(u)' => Generated(u)
               /\ job'[u].at = "write" => job[u].at = "write"
    BY <1>1, <2>2 DEF Generated
  <2>4. QED
    BY <1>1, <1>3, <2>2, <2>3, FilesStay
<1>4. QED
  BY <1>2, <1>3 DEF bwv_linkconsoles

LEMMA LaunchFiles ==
    ASSUME IInv, IInv', FileInv, NEW t \in Starters, Launch(t)
    PROVE  FileInv'
<1> DEFINE i == job[t].vm
<1>1. /\ pc = "serving" /\ job[t].at = "launch" /\ job[t].at # "rest" /\ Gives(t)
      /\ UNCHANGED <<loading, pc, files, links, broken, ending>>
      /\ TypeInv /\ TypeInv'
  BY DEF Launch, IInv
<1>2. i \in DOMAIN vms
  BY <1>1, Basics
<1>3. \/ UNCHANGED vms
      \/ /\ vms' = [vms EXCEPT ![i].vmstate = "RUNNING", ![i].process = "exec"]
         /\ vms[i].process = "none"
      \/ vms' = [vms EXCEPT ![i].vmstate = "FAILED"]
  BY DEF Launch
<1>4. CASE vms' = [vms EXCEPT ![i].vmstate = "FAILED"]
  BY <1>1, <1>4, FailsFiles
<1>5. CASE UNCHANGED vms
  <2>1. Len(vms') = Len(vms) /\ SameConfigs
    BY <1>5 DEF SameConfigs
  <2>2. /\ job'[t].vm = 0
        /\ \A u \in Starters : u # t => job'[u] = job[u]
    BY <1>1, <2>1, JobMoves
  <2>3. \A u \in Starters : job'[u].vm # 0 =>
               /\ job'[u].vm = job[u].vm
               /\ Generated(u)' => Generated(u)
               /\ job'[u].at = "write" => job[u].at = "write"
    BY <2>2 DEF Generated
  <2>4. QED
    BY <1>1, <1>5, <2>1, <2>3, FilesStay
<1>6. CASE /\ vms' = [vms EXCEPT ![i].vmstate = "RUNNING", ![i].process = "exec"]
           /\ vms[i].process = "none"
  <2>0. i = job[t].vm
    OBVIOUS
  <2> HIDE DEF i
  <2>1. Changes(i, "RUNNING", "exec", vms[i].boot, vms[i].alone)
    BY <1>1, <1>2, <1>6, AMachineChanges DEF TypeInv
  <2>2. "RUNNING" \in VMStates /\ "exec" \in Processes /\ vms[i].alone \in BOOLEAN
    BY <1>1, <1>2, Basics DEF VMStates, Processes
  <2>3. /\ Len(vms') = Len(vms) /\ DOMAIN vms' = DOMAIN vms
        /\ vms'[i].process = "exec" /\ vms'[i].alone = vms[i].alone /\ vms'[i].boot = vms[i].boot
        /\ \A k \in DOMAIN vms : k # i => vms'[k] = vms[k]
        /\ \A k \in DOMAIN vms : vms'[k].config = vms[k].config
    BY <1>1, <1>2, <2>1, <2>2, OneMachine DEF TypeInv
  <2>4. /\ job'[t] = Idle
        /\ \A u \in Starters : u # t => job'[u] = job[u]
    BY <1>1, <2>3, JobMoves
  <2>5. SameConfigs
    BY <2>3 DEF SameConfigs
  <2>6. \A u \in Starters : (job'[u].at = "write" \/ Generated(u)') => job'[u] = job[u]
    BY <2>4 DEF Generated, Idle
  <2>7. ASSUME NEW k \in DOMAIN vms, vms'[k].alone, Unshared(k)' PROVE FileKept(k)'
    <3>1. /\ vms[k].alone /\ Unshared(k) /\ ConfigFile(k)' = ConfigFile(k)
          /\ Base(k)' = Base(k) /\ Lines(k)' = Lines(k)
      BY <1>2, <2>3, <2>5, <2>7, SharingStays
    <3>2. \A u \in Starters : job'[u].vm = k /\ Generated(u)' => job[u].vm = k /\ Generated(u)
      BY <2>6 DEF Generated
    <3>3. CASE k # i
      <4>1. vms'[k].process = vms[k].process /\ vms'[k].boot = vms[k].boot
        BY <2>3, <3>3
      <4>2. QED
        BY <1>1, <2>5, <3>1, <3>2, <4>1, FileQuiet
    <3>4. CASE k = i
      <4>1. FileIs(k)
        BY <1>1, <2>0, <3>1, <3>4 DEF FileInv, FileKept, Generated
      <4>2. FileIs(k)'
        BY <1>1, <3>1, <4>1 DEF FileIs
      <4>3. vms'[k].process = "exec"
        BY <2>3, <3>4
      <4>4. QED
        BY <4>2, <4>3 DEF FileKept
    <3>5. QED
      BY <3>3, <3>4
  <2>8. \A k \in DOMAIN vms : vms'[k].process # "up" => vms'[k].boot = NULL
    BY <1>2, <1>6, <2>3 DEF FileInv
  <2>9. ASSUME NEW u \in Starters, job'[u].at = "write"
        PROVE  ConfigFile(job[u].vm)' \in DOMAIN Bases /\ job'[u] = job[u]
    <3>1. job'[u] = job[u]
      BY <2>6, <2>9
    <3>2. job[u].vm \in DOMAIN vms /\ ConfigFile(job[u].vm) \in DOMAIN Bases
      BY <1>1, <2>9, <3>1, Basics DEF FileInv
    <3>3. QED
      BY <2>5, <3>1, <3>2, SharingStays
  <2>10. QED
    BY <1>1, <2>3, <2>7, <2>8, <2>9 DEF FileInv, ConfigFile
<1>7. QED
  BY <1>3, <1>4, <1>5, <1>6

LEMMA BootsFiles ==
    ASSUME IInv, IInv', FileInv, NEW i \in DOMAIN vms, Boots(i)
    PROVE  FileInv'
<1>1. /\ vms[i].process = "exec" /\ UNCHANGED <<loading, pc, files, links, broken, job, ending>>
      /\ TypeInv /\ TypeInv'
      /\ vms' = [vms EXCEPT ![i].process = "up", ![i].boot = files[ConfigFile(i)]]
  BY DEF Boots, IInv, ConfigFile
<1> DEFINE text == files[ConfigFile(i)]
<1>2. Changes(i, vms[i].vmstate, "up", text, vms[i].alone)
  BY <1>1, AMachineChanges DEF TypeInv
<1> HIDE DEF text
<1>3. vms[i].vmstate \in VMStates /\ "up" \in Processes /\ vms[i].alone \in BOOLEAN
  BY <1>1, Basics DEF Processes
<1>4. /\ Len(vms') = Len(vms) /\ DOMAIN vms' = DOMAIN vms
      /\ vms'[i].process = "up" /\ vms'[i].alone = vms[i].alone /\ vms'[i].boot = text
      /\ \A k \in DOMAIN vms : k # i => vms'[k] = vms[k]
      /\ \A k \in DOMAIN vms : vms'[k].config = vms[k].config
  <2> DEFINE x == vms[i].vmstate
             p == "up"
             a == vms[i].alone
  <2>1. Machines /\ x \in VMStates /\ p \in Processes /\ a \in BOOLEAN /\ Changes(i, x, p, text, a)
    BY <1>1, <1>2, <1>3 DEF TypeInv
  <2> HIDE DEF x, p, a
  <2>2. /\ Len(vms') = Len(vms) /\ DOMAIN vms' = DOMAIN vms
        /\ vms'[i].process = p /\ vms'[i].alone = a /\ vms'[i].boot = text
        /\ \A k \in DOMAIN vms : k # i => vms'[k] = vms[k]
        /\ \A k \in DOMAIN vms : vms'[k].config = vms[k].config
    BY <2>1, OneMachine
  <2>3. QED
    BY <2>2 DEF p, a
<1>5. SameConfigs
  BY <1>4 DEF SameConfigs
<1>6. ASSUME NEW k \in DOMAIN vms, vms'[k].alone, Unshared(k)' PROVE FileKept(k)'
  <2>1. /\ vms[k].alone /\ Unshared(k) /\ ConfigFile(k)' = ConfigFile(k)
        /\ Base(k)' = Base(k) /\ Lines(k)' = Lines(k)
    BY <1>4, <1>5, <1>6, SharingStays
  <2>2. CASE k # i
    <3>1. vms'[k].process = vms[k].process /\ vms'[k].boot = vms[k].boot
      BY <1>4, <2>2
    <3>2. \A u \in Starters : job'[u].vm = k /\ Generated(u)' => job[u].vm = k /\ Generated(u)
      BY <1>1 DEF Generated
    <3>3. QED
      BY <1>1, <1>5, <2>1, <3>1, <3>2, FileQuiet
  <2>3. CASE k = i
    <3>1. FileIs(i)
      BY <1>1, <2>1, <2>3 DEF FileInv, FileKept
    <3>2. FileIs(i)' /\ Made(text, Base(i), Lines(i))
      BY <1>1, <2>1, <2>3, <3>1 DEF FileIs, text
    <3>4. ConfigFile(i) \in DOMAIN Bases
      BY <3>1 DEF FileIs
    <3>3. QED
      BY <1>4, <2>1, <2>3, <3>2, <3>4 DEF FileKept
  <2>4. QED
    BY <2>2, <2>3
<1>7. \A k \in DOMAIN vms : vms'[k].process # "up" => vms'[k].boot = NULL
  BY <1>4 DEF FileInv
<1>8. ASSUME NEW u \in Starters, job'[u].at = "write"
      PROVE  ConfigFile(job[u].vm)' \in DOMAIN Bases /\ job'[u] = job[u]
  <2>1. job[u].vm \in DOMAIN vms /\ ConfigFile(job[u].vm) \in DOMAIN Bases
    BY <1>1, <1>8, Basics DEF FileInv
  <2>2. QED
    BY <1>1, <1>5, <2>1, SharingStays
<1>9. QED
  BY <1>1, <1>4, <1>6, <1>7, <1>8 DEF FileInv, ConfigFile

LEMMA OtherFiles ==
    ASSUME IInv, IInv', FileInv,
           OnExit \/ \E i \in DOMAIN vms : Ends(i) \/ ResetFail(i)
    PROVE  FileInv'
<1>1. TypeInv /\ TypeInv' /\ Machines
  BY DEF IInv, TypeInv
<1>2. \A t \in Starters : job'[t].vm # 0 => job'[t] = job[t]
  BY DEF OnExit, Ends, ResetFail
<1>3. files' = files
  BY DEF OnExit, Ends, ResetFail
<1>4. ASSUME NEW i \in DOMAIN vms, NEW x \in VMStates, vms' = [vms EXCEPT ![i].vmstate = x]
      PROVE  FileInv'
  <2> DEFINE p == vms[i].process
             b == vms[i].boot
  <2>1. /\ Changes(i, x, p, b, vms[i].alone)
        /\ (p = vms[i].process /\ b = vms[i].boot) \/ (p = "none" /\ b = NULL)
    BY <1>1, <1>4, AMachineChanges
  <2> HIDE DEF p, b
  <2>2. QED
    BY <1>1, <1>2, <1>3, <2>1, OneFile
<1>5. ASSUME NEW i \in DOMAIN vms, Ends(i) PROVE FileInv'
  <2> DEFINE x == vms[i].vmstate
             p == "none"
             b == NULL
  <2>1. /\ Changes(i, x, p, b, vms[i].alone) /\ x \in VMStates
        /\ (p = vms[i].process /\ b = vms[i].boot) \/ (p = "none" /\ b = NULL)
    BY <1>1, <1>5, AMachineChanges, Basics DEF Ends
  <2> HIDE DEF x, p, b
  <2>2. QED
    BY <1>1, <1>2, <1>3, <2>1, OneFile
<1>6. CASE OnExit
  <2>1. ending \in DOMAIN vms
    BY <1>1, <1>6, Basics DEF OnExit, TypeInv
  <2>2. PICK x \in {"STOPPED", "FAILED"} : vms' = [vms EXCEPT ![ending].vmstate = x]
    BY <1>6 DEF OnExit
  <2>3. x \in VMStates
    BY DEF VMStates
  <2>4. QED
    BY <1>4, <2>1, <2>2, <2>3
<1>7. ASSUME NEW i \in DOMAIN vms, ResetFail(i) PROVE FileInv'
  <2>1. "INIT" \in VMStates /\ vms' = [vms EXCEPT ![i].vmstate = "INIT"]
    BY <1>7 DEF VMStates, ResetFail
  <2>2. QED
    BY <1>4, <2>1
<1>8. QED
  BY <1>5, <1>6, <1>7

LEMMA FilesStep == IInv /\ FileInv /\ [Next]_vars => FileInv'
<1>1. SUFFICES ASSUME IInv, FileInv, [Next]_vars PROVE FileInv'
  OBVIOUS
<1>2. IInv' /\ TypeInv /\ TypeInv'
  <2>1. IInv'
    BY <1>1, IInvStep
  <2>2. QED
    BY <1>1, <2>1 DEF IInv
<1>3. ASSUME NEW t \in Starters, StartStep(t) PROVE FileInv'
  BY <1>1, <1>2, <1>3, BeginFiles, OpenFiles, CombineFiles, LinkFiles, LaunchFiles DEF StartStep
<1>4. ASSUME NEW i \in DOMAIN vms, Boots(i) PROVE FileInv'
  BY <1>1, <1>2, <1>4, BootsFiles
<1>5. CASE OnExit \/ \E i \in DOMAIN vms : Ends(i) \/ ResetFail(i)
  BY <1>1, <1>2, <1>5, OtherFiles
<1>6. CASE UNCHANGED vars
  BY <1>1, <1>2, <1>6, SameFiles DEF vars
<1>7. CASE bcs_walkdir \/ EndOfDir \/ bd_new
  BY <1>1, <1>2, <1>7, LoadingFiles
<1>8. QED
  BY <1>1, <1>3, <1>4, <1>5, <1>6, <1>7 DEF Next

----------------------------------------------------------------------------
(***************************************************************************)
(* What bhyve booted from, and what the block of its machine said.  The    *)
(* blocks are known for a machine that was started, also when the daemon   *)
(* is no longer there.                                                     *)
(***************************************************************************)

BootedFits == (\E i \in DOMAIN vms : vms[i].process # "none") => ListFits

LEMMA InitBooted == Init => BootedFits
BY EmptyIs DEF Init, BootedFits

LEMMA BootedStep == TypeInv /\ TypeInv' /\ NameInv' /\ BootedFits /\ [Next]_vars => BootedFits'
<1>1. SUFFICES ASSUME TypeInv, TypeInv', NameInv', BootedFits, [Next]_vars PROVE BootedFits'
  OBVIOUS
<1>2. CASE UNCHANGED <<loading, vms>>
  <2>1. Blocks' = Blocks
    BY <1>2 DEF loading, Blocks
  <2>2. QED
    BY <1>1, <1>2, <2>1 DEF BootedFits, ListFits
<1>3. CASE pc' = "serving"
  BY <1>1, <1>3 DEF NameInv, BootedFits
<1>4. CASE pc' \in {"walk", "list"}
  BY <1>1, <1>4 DEF TypeInv, Loads, BootedFits
<1>5. UNCHANGED vars \/ Crash \/ EndOfDir => UNCHANGED <<loading, vms>>
  BY DEF vars, Crash, EndOfDir
<1>6. ~ Crash /\ (bcs_walkdir \/ bd_new) => pc' \in {"walk", "list", "serving"}
  BY DEF bcs_walkdir, bd_new
<1>7. Next => (bcs_walkdir \/ EndOfDir \/ bd_new) \/ pc = "serving"
  BY DEF Next, StartStep, Begin, Open, obc_combine_with, bwv_linkconsoles, Launch, Boots, Ends, ResetFail, OnExit
<1>8. Next /\ ~ Crash /\ pc = "serving" => pc' = "serving"
  BY <1>1, ServingKeeps
<1>9. QED
  BY <1>1, <1>2, <1>3, <1>4, <1>5, <1>6, <1>7, <1>8

LEMMA BootedIsConfigured == TypeInv /\ FileInv /\ BootedFits => BootsAsConfigured
<1> DEFINE com == <<"lpc.com", 1>>
           host == <<"pci.device", <<0, 0, 0>>>>
           isa == <<"pci.device", <<0, 1, 0>>>>
           Left(i, key) ==
              \/ Gets(i, key, Effective(Base(i), key))
              \/ Says(i, IF key[1] = "lpc.com" \/ key[2] = <<0, 1, 0>> THEN "consoles" ELSE "hostbridge",
                      IF key[1] = "lpc.com" \/ key[2] = <<0, 1, 0>> THEN "list" ELSE "string") # NULL
           Right(i) ==
              /\ Gets(i, <<"name">>, NameSaid(i))
              /\ Number(i, "memory", <<"memory.size">>)
              /\ Number(i, "numcpus", <<"cpus">>)
              /\ Number(i, "sockets", <<"sockets">>)
              /\ Flag(i, "vmexit_on_halt", <<"x86.vmexit_on_hlt">>)
              /\ Flag(i, "generate_acpi_tables", <<"acpi_tables">>)
              /\ Says(i, "bootrom", "string") # NULL =>
                    Gets(i, <<"lpc.bootrom">>, Says(i, "bootrom", "string"))
              /\ \A key \in {com, host, isa} : Left(i, key)
<1>1. SUFFICES ASSUME TypeInv, FileInv, BootedFits, NEW i \in DOMAIN vms,
                      vms[i].boot # NULL, vms[i].alone, Unshared(i)
               PROVE  Right(i)
  BY DEF BootsAsConfigured
<1> DEFINE boot == vms[i].boot
           base == Base(i)
           bc == vms[i].config
           b == Blocks[i]
           p == ptc_translate(bc)
           core == obc_set_core(p)
           lines == Reverse(core)
           text == boot.lines
           whole == base \o lines
<1>2. vms[i].process = "up"
  BY <1>1 DEF FileInv
<1>3. ConfigFile(i) \in DOMAIN Bases /\ Made(boot, base, Lines(i))
  BY <1>1, <1>2 DEF FileInv, FileKept
<1>4. IsSeq(base)
  BY <1>3, BasesAssumption DEF Base, ConfigFile
<1>5. Fits(bc, b)
  BY <1>1, <1>2 DEF BootedFits, ListFits
<1>6. (~ boot.lost => text = whole) /\ Parts(text, base, lines)
  <2>1. Lines(i) = lines
    BY DEF Lines, obc_new
  <2> HIDE DEF lines, base, boot
  <2>2. QED
    BY <1>3, <2>1 DEF Made
<1>7. /\ \A key, type : Says(i, key, type) = Said(b, key, type)
      /\ NameSaid(i) = NameOf(b)
  BY NameSaidIs DEF Says, Said
<1>8. /\ p.vmname = bc.name
      /\ p.bootrom = IF bc.bootrom = NULL THEN "" ELSE bc.bootrom
      /\ p.memory = bc.memory /\ p.numcpus = bc.numcpus
      /\ p.sockets = bc.sockets /\ p.cores = bc.cores
      /\ p.yield_on_hlt = bc.vmexit_on_halt
      /\ p.generate_acpi_tables = bc.generate_acpi_tables
      /\ p.comport = [port \in 0 .. 3 |-> IF bc.consoles = <<>>
                                          THEN [portname |-> "", enabled |-> FALSE, backend |-> ""]
                                          ELSE Comport(bc, port)]
      /\ p.pcislots = SlotsOf(bc)
  BY TranslatedIs
<1> HIDE DEF boot, base, bc, b, p
<1>9. IsSeq(p.pcislots)
  <2>1. p.pcislots = SlotsOf(bc)
    BY <1>8, Zenon
  <2>2. QED
    BY <2>1, SlotsOfIs, Zenon
<1>10. /\ IsSeq(core)
       /\ First(core, <<"name">>, p.vmname)
       /\ p.memory # 0 => First(core, <<"memory.size">>, p.memory)
       /\ p.memory = 0 => Lacks(core, <<"memory.size">>)
       /\ p.numcpus # 0 => First(core, <<"cpus">>, p.numcpus)
       /\ p.numcpus = 0 => Lacks(core, <<"cpus">>)
       /\ p.sockets # 0 => First(core, <<"sockets">>, p.sockets)
       /\ p.sockets = 0 /\ p.cores = 0 => Lacks(core, <<"sockets">>)
       /\ First(core, <<"x86.vmexit_on_hlt">>, p.yield_on_hlt)
       /\ First(core, <<"acpi_tables">>, p.generate_acpi_tables)
       /\ First(core, <<"lpc.bootrom">>, p.bootrom)
       /\ ~ p.comport[0].enabled => Lacks(core, com)
       /\ \A at : (\A k \in DOMAIN p.pcislots : p.pcislots[k].at # at) => Lacks(core, <<"pci.device", at>>)
       /\ Only(core, <<"name">>, p.vmname)
       /\ Only(core, <<"memory.size">>, p.memory)
       /\ Only(core, <<"cpus">>, p.numcpus)
       /\ p.cores = 0 => Only(core, <<"sockets">>, p.sockets)
       /\ Only(core, <<"x86.vmexit_on_hlt">>, p.yield_on_hlt)
       /\ Only(core, <<"acpi_tables">>, p.generate_acpi_tables)
       /\ Only(core, <<"lpc.bootrom">>, p.bootrom)
  BY <1>9, CoreIs
<1> HIDE DEF core
<1>11. \A key : /\ \A v : First(core, key, v) /\ Only(core, key, v) => Gets(i, key, v)
                /\ \A v : First(core, key, v) => Gets(i, key, v) \/ boot.lost
                /\ Lacks(core, key) => Gets(i, key, Effective(base, key))
  <2>1. \A key, v : Gets(i, key, v) <=>
           \/ Effective(text, key) = v
           \/ boot.lost /\ Effective(text, key) \in {Effective(base, key), NULL}
    BY Zenon DEF Gets, boot, base
  <2>2. CASE ~ boot.lost
    <3>1. \A key : /\ \A v : First(core, key, v) => Effective(whole, key) = v
                   /\ Lacks(core, key) => Effective(whole, key) = Effective(base, key)
      BY <1>4, <1>10, EffectiveIs
    <3> HIDE DEF whole, text
    <3>2. text = whole
      BY <1>6, <2>2, Zenon
    <3>3. QED
      BY <2>1, <3>1, <3>2
  <2>3. CASE boot.lost
    <3>1. ASSUME NEW key PROVE \/ Effective(text, key) \in {Effective(base, key), NULL}
                               \/ \E k \in 1 .. Len(core) : core[k].key = key /\ core[k].value = Effective(text, key)
      <4>1. /\ Len(lines) = Len(core)
            /\ \A k \in 1 .. Len(core) : /\ lines[k] = core[(Len(core) - k) + 1]
                                         /\ (Len(core) - k) + 1 \in 1 .. Len(core)
        BY <1>10, ReverseIs
      <4> HIDE DEF lines, text
      <4>2. \/ Effective(text, key) \in {Effective(base, key), NULL}
            \/ \E j \in 1 .. Len(lines) : lines[j].key = key /\ lines[j].value = Effective(text, key)
        BY <1>4, <1>6, PartsCount
      <4>3. QED
        BY <4>1, <4>2
    <3> HIDE DEF text
    <3>2. \A key : /\ \A v : Only(core, key, v) => Effective(text, key) \in {Effective(base, key), NULL, v}
                   /\ Lacks(core, key) => Effective(text, key) \in {Effective(base, key), NULL}
      BY <3>1 DEF Only, Lacks
    <3>3. QED
      BY <2>1, <2>3, <3>2
  <2>4. QED
    BY <2>2, <2>3
<1>12. Keeps(bc, b) /\ bc.name = NameOf(b)
  BY <1>5 DEF Fits
<1>13. Gets(i, <<"name">>, NameSaid(i))
  BY <1>7, <1>8, <1>10, <1>11, <1>12
<1> DEFINE cores == Says(i, "cores", "string") # NULL
<1>14. ASSUME NEW key, NEW line, KeepsNumber(bc, b, key),
              \/ bc[key] # 0 => Gets(i, line, bc[key])
              \/ key = "sockets" /\ cores /\ boot.lost,
              \/ bc[key] = 0 => Gets(i, line, Effective(base, line))
              \/ key = "sockets" /\ cores
       PROVE  Number(i, key, line)
  <2> DEFINE n == Said(b, key, "int")
             fits == n \in 0 .. Largest(key)
  <2>1. (n # NULL /\ ~ fits) \/ bc[key] = IF n = NULL THEN 0 ELSE n
    BY <1>14 DEF KeepsNumber
  <2>2. Number(i, key, line) <=>
           \/ n # NULL /\ ~ fits
           \/ key = "sockets" /\ cores /\ (n \in {NULL, 0} \/ boot.lost)
           \/ Gets(i, line, IF n \in {NULL, 0} THEN Effective(base, line) ELSE n)
    BY <1>7, Zenon DEF Number, boot, base
  <2> HIDE DEF n, fits, cores
  <2>3. QED
    BY <1>14, <2>1, <2>2
<1>15. Number(i, "memory", <<"memory.size">>)
  BY <1>8, <1>10, <1>11, <1>12, <1>14 DEF Keeps
<1>16. Number(i, "numcpus", <<"cpus">>)
  BY <1>8, <1>10, <1>11, <1>12, <1>14 DEF Keeps
<1>17. Number(i, "sockets", <<"sockets">>)
  <2>1. KeepsNumber(bc, b, "sockets")
    BY <1>12 DEF Keeps
  <2>2. /\ \/ bc.sockets # 0 => Gets(i, <<"sockets">>, bc.sockets)
           \/ cores /\ boot.lost
        /\ \/ bc.sockets = 0 => Gets(i, <<"sockets">>, Effective(base, <<"sockets">>))
           \/ cores
    <3>1. cores \/ p.cores = 0
      <4>1. Said(b, "cores", "string") = NULL => bc.cores = 0
        BY <1>12 DEF Keeps
      <4>2. p.cores = bc.cores /\ Says(i, "cores", "string") = Said(b, "cores", "string")
        BY <1>7, <1>8, Zenon
      <4>3. QED
        BY <4>1, <4>2
    <3>2. /\ bc.sockets = 0 /\ p.cores = 0 => Gets(i, <<"sockets">>, Effective(base, <<"sockets">>))
          /\ bc.sockets # 0 /\ p.cores = 0 => Gets(i, <<"sockets">>, bc.sockets)
          /\ bc.sockets # 0 => Gets(i, <<"sockets">>, bc.sockets) \/ boot.lost
      BY <1>8, <1>10, <1>11
    <3> HIDE DEF cores
    <3>3. QED
      BY <3>1, <3>2
  <2> HIDE DEF cores
  <2>3. QED
    BY <1>14, <2>1, <2>2
<1>18. ASSUME NEW key, NEW line, KeepsFlag(bc, b, key), Gets(i, line, bc[key])
       PROVE  Flag(i, key, line)
  BY <1>7, <1>18, Zenon DEF Flag, KeepsFlag
<1>19. Flag(i, "vmexit_on_halt", <<"x86.vmexit_on_hlt">>)
  <2>1. Gets(i, <<"x86.vmexit_on_hlt">>, bc["vmexit_on_halt"])
    BY <1>8, <1>10, <1>11, Zenon
  <2>2. KeepsFlag(bc, b, "vmexit_on_halt")
    BY <1>12 DEF Keeps
  <2>3. QED
    BY <1>18, <2>1, <2>2
<1>20. Flag(i, "generate_acpi_tables", <<"acpi_tables">>)
  <2>1. Gets(i, <<"acpi_tables">>, bc["generate_acpi_tables"])
    BY <1>8, <1>10, <1>11, Zenon
  <2>2. KeepsFlag(bc, b, "generate_acpi_tables")
    BY <1>12 DEF Keeps
  <2>3. QED
    BY <1>18, <2>1, <2>2
<1>21. Says(i, "bootrom", "string") # NULL => Gets(i, <<"lpc.bootrom">>, Says(i, "bootrom", "string"))
  <2>1. Gets(i, <<"lpc.bootrom">>, p.bootrom)
    BY <1>10, <1>11
  <2>2. bc.bootrom = Says(i, "bootrom", "string")
    BY <1>7, <1>12 DEF Keeps
  <2>3. bc.bootrom # NULL => p.bootrom = bc.bootrom
    BY <1>8
  <2>4. QED
    BY <2>1, <2>2, <2>3
<1>22. Left(i, com)
  <2>1. com[1] = "lpc.com"
    OBVIOUS
  <2>2. CASE bc.consoles = <<>>
    <3>1. ~ p.comport[0].enabled
      <4> DEFINE empty == [portname |-> "", enabled |-> FALSE, backend |-> ""]
      <4>1. p.comport[0] = empty
        <5> HIDE DEF empty
        <5>1. p.comport = [port \in 0 .. 3 |-> IF bc.consoles = <<>> THEN empty ELSE Comport(bc, port)]
          BY <1>8 DEF empty
        <5>2. QED
          BY <2>2, <5>1
      <4>2. empty.enabled = FALSE
        OBVIOUS
      <4> HIDE DEF empty
      <4>3. QED
        BY <4>1, <4>2, Zenon
    <3>2. Gets(i, com, Effective(base, com))
      BY <1>10, <1>11, <3>1
    <3>3. QED
      BY <3>2 DEF base
  <2>3. CASE bc.consoles # <<>>
    <3>1. Says(i, "consoles", "list") # NULL
      BY <1>7, <1>12, <2>3 DEF Keeps
    <3>2. QED
      BY <2>1, <3>1
  <2>4. QED
    BY <2>2, <2>3
<1>23. /\ IsaSlot.at = <<0, 1, 0>> /\ HostSlot(bc).at = <<0, 0, 0>>
       /\ <<0, 1, 0>> # <<0, 0, 0>>
  BY DEF IsaSlot, HostSlot
<1>24. Left(i, isa)
  <2>1. isa[2] = <<0, 1, 0>>
    OBVIOUS
  <2>2. CASE bc.consoles = <<>>
    <3>1. \A k \in DOMAIN p.pcislots : p.pcislots[k].at # <<0, 1, 0>>
      <4>1. \A k \in DOMAIN SlotsOf(bc) : SlotsOf(bc)[k] = HostSlot(bc)
        BY <2>2, SlotsOfIs
      <4>2. \A k \in DOMAIN SlotsOf(bc) : SlotsOf(bc)[k].at = <<0, 0, 0>>
        BY <1>23, <4>1
      <4>3. QED
        BY <1>8, <1>23, <4>2
    <3>2. Gets(i, isa, Effective(base, isa))
      BY <1>10, <1>11, <3>1
    <3>3. QED
      BY <3>2 DEF base
  <2>3. CASE bc.consoles # <<>>
    <3>1. Says(i, "consoles", "list") # NULL
      BY <1>7, <1>12, <2>3 DEF Keeps
    <3>2. QED
      BY <2>1, <3>1
  <2>4. QED
    BY <2>2, <2>3
<1>25. Left(i, host)
  <2>1. host[1] # "lpc.com" /\ host[2] # <<0, 1, 0>>
    BY <1>23
  <2>2. CASE bc.hostbridge = NULL
    <3>1. \A k \in DOMAIN p.pcislots : p.pcislots[k].at # <<0, 0, 0>>
      <4>1. \A k \in DOMAIN SlotsOf(bc) : SlotsOf(bc)[k] = IsaSlot
        BY <2>2, SlotsOfIs
      <4>2. \A k \in DOMAIN SlotsOf(bc) : SlotsOf(bc)[k].at = <<0, 1, 0>>
        BY <1>23, <4>1
      <4>3. QED
        BY <1>8, <1>23, <4>2
    <3>2. Gets(i, host, Effective(base, host))
      BY <1>10, <1>11, <3>1
    <3>3. QED
      BY <3>2 DEF base
  <2>3. CASE bc.hostbridge # NULL
    <3>1. Says(i, "hostbridge", "string") # NULL
      BY <1>7, <1>12, <2>3 DEF Keeps
    <3>2. QED
      BY <2>1, <3>1
  <2>4. QED
    BY <2>2, <2>3
<1> HIDE DEF Left
<1>26. \A key \in {com, host, isa} : Left(i, key)
  BY <1>22, <1>24, <1>25
<1> HIDE DEF com, host, isa
<1>27. QED
  BY <1>13, <1>15, <1>16, <1>17, <1>19, <1>20, <1>21, <1>26

(***************************************************************************)
(* From the block in the directory to the file bhyve reads: a bhyve that   *)
(* was started once and that shares its file with no other VM runs with    *)
(* the settings of its own block, and with those of its base file where    *)
(* the block is silent, whatever other threads start or fail to start, and *)
(* with none of another configuration even where a write of text failed    *)
(* without notice and settings are missing.                                *)
(***************************************************************************)
THEOREM BhyveBootsAsConfigured == Spec => []BootsAsConfigured
<1>1. IInv => TypeInv
  BY DEF IInv
<1>2. Spec => [](TypeInv /\ FileInv /\ BootedFits)
  BY <1>1, Initially, IInvStep, InitNames, NamesStep, InitFiles, FilesStep, InitBooted, BootedStep, PTL DEF Spec
<1>3. QED
  BY <1>2, BootedIsConfigured, PTL
=============================================================================
