------------------------------- MODULE MCFlow -------------------------------
(* Two processes, one of them configured, or none; a real address, a fake   *)
(* one, and an IPv6 address that stands for the fake one.                   *)
EXTENDS Flow

CONSTANTS codex, curl, nobody, noPeer, real, fake, mapped

MCProcesses == {codex, curl}
MCWanted == {{}, {codex}}
MCModes == {"system", "socks5", "http"}
MCAddresses == {real, fake, mapped}
MCFakeIPs == {fake}
MCUnmap(a) == IF a = mapped THEN fake ELSE a

=============================================================================
