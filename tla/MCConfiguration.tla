--------------------------- MODULE MCConfiguration ---------------------------
\* Configuration directories and base files for model checking.
EXTENDS ConfigurationProperties

Symmetry == Permutations(Starters)

Text(s) == [string |-> s]
Num(n)  == [int |-> n]
Yes     == [boolean |-> TRUE]
No      == [boolean |-> FALSE]
List(l) == [list |-> l]

Entry(name, config)   == [d_name |-> name, hidden |-> FALSE, directory |-> TRUE, config |-> config]
Dots                  == [d_name |-> "..", hidden |-> TRUE, directory |-> TRUE, config |-> NULL]
Plain                 == [d_name |-> "notes", hidden |-> FALSE, directory |-> FALSE, config |-> NULL]
Block(key, value)     == [key |-> key, value |-> value]
Console(key, backend) == Block(key, [backend |-> Text(backend)])

\* Every setting there is, and five consoles, one more than there are com ports.
Full == Block("full",
    [name |-> Text("web"), configfile |-> Text("base"), scriptpath |-> Text("/scripts"),
     os |-> Text("FreeBSD"), osversion |-> Text("14"), owner |-> Text("root"),
     group |-> Text("wheel"), description |-> Text("all"), bootrom |-> Text("uefi.fd"),
     hostbridge |-> Text("amd"), maxrestart |-> Num(3), maxrestarttime |-> Num(30),
     memory |-> Num(70000), numcpus |-> Num(4), sockets |-> Num(2), cores |-> Num(2),
     autostart |-> Yes, generate_acpi_tables |-> Yes, wire_memory |-> Yes,
     vmexit_on_halt |-> Yes,
     consoles |-> List(<<Console("c5", "nmdm0A"), Console("c4", "nmdm1A"),
                         Console("c3", "nmdm1B"), Console("c2", "stdio"),
                         Console("c1", "nmdm2B")>>)])

\* Few settings, values of the wrong type, keys nobody knows and a console without a name.
Sparse == Block("sparse",
    [configfile |-> Text("other"), hostbridge |-> Text("hostbridge"), os |-> Num(1),
     numcpus |-> Num(65538), sockets |-> Num(2), autostart |-> Num(1), cores |-> Text("2"), cpus |-> Num(4),
     consoles |-> List(<<Block("k1", [name |-> Text("k1"), enabled |-> No,
                                      backend |-> Text("nmdm0B")])>>)])

\* Another machine with the base file of the first, and one with its name as well.
Shares   == Block("shares", [configfile |-> Text("base"), bootrom |-> Text("uefi.fd"),
                             memory |-> Num(512)])
Namesake == Block("web", [configfile |-> Text("base"), hostbridge |-> Text("intel"),
                          bootrom |-> Text("uefi.fd"), vmexit_on_halt |-> No,
                          consoles |-> List(<<Console("c1", "nmdm2B")>>)])

WrongName   == Block("wrong", [name |-> Num(7)])
NoFile      == Block("nofile", [memory |-> Num(1), consoles |-> List(<<Block("c1", [enabled |-> Yes])>>)])
EmptyBase   == Block("empty", [configfile |-> Text("empty"), consoles |-> List(<<Block(NULL, [enabled |-> Yes])>>)])
PageBase    == Block("page", [configfile |-> Text("page")])
Backendless == Block("silent", [configfile |-> Text("other"), consoles |-> List(
                   <<Block("c3", [enabled |-> Yes]), Console("c2", ""), Console("c1", "nmdm0A")>>)])
Unlinked    == Block("unlinked", [configfile |-> Text("other"), consoles |-> List(
                   <<Console("c2", "nmdm0A"), Block("c1", [enabled |-> Yes])>>)])
Unnamed     == Block("unnamed", [configfile |-> Text("other"), consoles |-> List(
                   <<Block("c1", [name |-> Num(1)])>>)])

MCDirectories ==
    {<<Dots, Entry("a", <<Full>>), Plain, Entry("b", <<Namesake>>)>>,
     <<Entry("a", NULL), Entry("b", <<Shares, Sparse>>)>>,
     <<Entry("a", <<Shares>>), Entry("c", <<Namesake>>)>>,
     <<Entry("a", <<Sparse, WrongName>>)>>,
     <<Entry("a", <<NoFile, EmptyBase>>), Entry("b", <<PageBase>>)>>,
     <<Entry("a", <<Backendless, Unlinked, Unnamed>>)>>,
     <<Dots, Plain, Entry("a", NULL)>>}

BaseLines == Line(<<"memory.size">>, 256) \o Line(<<"sockets">>, 1)
             \o Line(<<"pci.device", <<0, 0, 0>>>>, "hostbridge") \o Line(<<"acpi_tables">>, FALSE)
             \o Line(<<"lpc.com", 1>>, "stdio") \o Line(<<"rtc">>, "utc")

MCBases == [base  |-> [lines |-> BaseLines, size |-> "ok"],
            other |-> [lines |-> <<>>, size |-> "ok"],
            empty |-> [lines |-> <<>>, size |-> "zero"],
            page  |-> [lines |-> BaseLines, size |-> "pages"]]

\* The base file and the third line, which is a flag or the PCI slot of the ISA bridge.
MCUnnoticed == {{1, 4}}

MCNullModems == {<<"nmdm0A", "nmdm0B">>, <<"nmdm1A", "nmdm1B">>, <<"nmdm2A", "nmdm2B">>}

MCExtraSlots == [slot_type : {"HOSTBRIDGE", "ISABRIDGE", "BLOCK"},
                 at : {<<0, 0, 0>>, <<0, 1, 0>>, <<0, 2, 0>>, <<1, 0, 0>>}]
=============================================================================
