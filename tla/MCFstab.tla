------------------------------- MODULE MCFstab -------------------------------
(* Three filesystems, some listed or mounted, with entries and comments of  *)
(* others in between, also behind a line that cannot be parsed.  As strings *)
(* /mnt is a prefix of /mnt2.                                               *)
EXTENDS Fstab

CONSTANTS F, G, H, other, admin

Mnt == <<"/", "mnt">>
MntX == Mnt \o <<"/", "x">>
Mnt2 == Mnt \o <<"2">>

MCFsSeq == <<F, G, H>>
MCPathSeq == <<Root, Mnt, MntX, Mnt2>>

Bad == [kind |-> "bad"]
Comment(text) == [kind |-> "comment", text |-> text]
Empty == [kind |-> "empty"]
Entry(spec, path) == [kind |-> "entry", spec |-> spec, path |-> path, opts |-> 1]

MCAdded == Entry(admin, Mnt2)

\* A header, entries with comments and a footer; a line that cannot be parsed with a
\* comment of its own before the entry of another.
MCFiles == {
  <<Comment("header"), Empty, Entry(F, Root), Comment("other"), Entry(other, Mnt2), Entry(G, MntX),
    Empty, Comment("footer")>>,
  <<Comment("F"), Entry(F, MntX), Comment("bad"), Bad, Comment("other"), Entry(other, Mnt \o <<"/", "y">>)>>,
  <<Entry(G, Mnt), Comment("F"), Entry(F, MntX), Comment("footer")>>}

MCMounts == {{}, {[fs |-> G, path |-> Mnt], [fs |-> F, path |-> MntX]}}
=============================================================================
