------------------------------ MODULE MCListener ------------------------------
(* A small instance of Listener for TLC.                                   *)
EXTENDS Listener

Says(channel, text) ==
  [channel |-> channel, text |-> text, posted |-> TRUE, author |-> "user"]
SomeEvents ==
  {Says("ours", "command"), Says("ours", "padded"), Says("other", "command"),
   [channel |-> "ours", text |-> "glued", posted |-> FALSE, author |-> "user"]}
\* With an unlucky trigger the bot's own words begin with it.
Echo == {[channel |-> "ours", text |-> "glued", posted |-> TRUE, author |-> "bot"]}

Block(enabled, given, tokenFile) ==
  [enabled |-> enabled, given |-> given, tokenFile |-> tokenFile]
SomeConfigs ==
  {Block(TRUE, Required, "none"), Block(TRUE, Required \ {"token"}, "token"),
   Block(TRUE, Required, "blank"), Block(TRUE, Required, "unreadable"),
   Block(TRUE, Required \ {"trigger"}, "none"), Block(FALSE, {}, "none")}
=============================================================================
