----------------------------- MODULE MCCmdAgent -----------------------------
(***************************************************************************)
(* Instances of CmdAgent: the packets peers send and the cells they form.  *)
(***************************************************************************)
EXTENDS CmdAgent

Entry(k, v) == [key |-> k, type |-> "string", val |-> v]

Hello(m) == <<Entry("agent_type", "linux-claymore-nvidia"), Entry("miner_mac", m)>>

Command(fields) == <<Entry("agent_type", "ux"), Entry("commend_type", "file-download"),
                     Entry("path", "conf")>> \o fields

Download(m, seq) == Command(<<Entry("sequence", seq), Entry("miner_mac", m),
                              Entry("path_install", "/etc")>>)

\* Packets that leave out or spoil a field.
HelloNoMac   == <<Entry("agent_type", "linux-claymore-nvidia")>>
DownloadNoMac == Command(<<Entry("path_install", "/etc")>>)
NoInstall    == Command(<<Entry("miner_mac", "m1"), Entry("path_install", "")>>)
BigFile      == <<Entry("agent_type", "ux"), Entry("commend_type", "file-download"),
                  Entry("path", "big"), Entry("miner_mac", "m1"),
                  Entry("path_install", "/etc")>>
OtherAgent   == <<Entry("agent_type", "windows-claymore")>>
VersionFirst == <<[key |-> "version", type |-> "int", val |-> 1]>> \o Download("m1", "1")

Whole(json) == [json |-> json, part |-> "whole", nul |-> TRUE]
Open(json)  == [json |-> json, part |-> "whole", nul |-> FALSE]
HeadOf(json) == [json |-> json, part |-> "head", nul |-> FALSE]
TailOf(json) == [json |-> json, part |-> "tail", nul |-> TRUE]

Macs1 == {"m1", UX_SESSION}
Macs2 == {"m1", "m2", UX_SESSION}
Fds2  == 0..1
Fds3  == 0..2
Fds4  == 0..3
Fds6  == 0..5

CoreCells  == {Whole(Hello("m1")), Whole(Download("m1", "1"))}
SeqCells   == {Whole(Hello("m1")), Whole(Download("m1", "1")), Whole(Download("m1", "2"))}
OddCells   == {Whole(Hello("m1")), Whole(Download("m1", "1")), Open(Download("m1", "2")),
               Whole(HelloNoMac), Whole(DownloadNoMac), Whole(NoInstall),
               Whole(BigFile), Whole(OtherAgent)}
SplitCells == {Whole(Hello("m1")), Open(Hello("m2")), HeadOf(Download("m1", "1")),
               TailOf(Download("m1", "1"))}
NoMacCells == {Whole(DownloadNoMac)}
FirstCells == {Whole(Hello("m1")), Whole(VersionFirst)}
BadCells   == {Whole(NULL)}
=============================================================================
