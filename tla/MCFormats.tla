----------------------------- MODULE MCFormats ------------------------------
(* Three addresses and the broadcast, documents of five tokens, blocks of  *)
(* four pointers of which three are looked at: two frames and the mark     *)
(* behind them, which a callback takes or of which it takes only one.      *)
EXTENDS Formats

CONSTANTS console, phone, peer, broadcast

MCMacs   == {console, phone, peer, broadcast}
MCGroups == {broadcast}
=============================================================================
