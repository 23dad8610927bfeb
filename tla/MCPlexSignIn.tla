---------------------------- MODULE MCPlexSignIn ----------------------------
(***************************************************************************)
(* An instance of PlexSignIn for TLC: accounts without a server, with one  *)
(* whose second connection is the local one, and with a player, a server   *)
(* without a local connection, one without any, and one more.              *)
(***************************************************************************)
EXTENDS PlexSignIn

At(address, local)  == [address |-> address, local |-> local]
Res(name, server, connections) ==
  [name |-> name, server |-> server, connections |-> connections]

NoServers == <<>>
OneServer == <<Res("nas", TRUE, <<At("relay", FALSE), At("lan", TRUE), At("lan2", TRUE)>>)>>
Mixed     == <<Res("tv", FALSE, <<At("lan3", TRUE)>>),
               Res("away", TRUE, <<At("wan", FALSE), At("relay", FALSE)>>),
               Res("off", TRUE, <<>>),
               Res("den", TRUE, <<At("wan2", FALSE), At("lan4", TRUE)>>)>>
SomeAccounts == {NoServers, OneServer, Mixed}
=============================================================================
