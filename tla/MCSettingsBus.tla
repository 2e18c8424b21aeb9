---------------------------- MODULE MCSettingsBus ----------------------------
(* The node and the BCM over lossy or late channels, with a setting of    *)
(* channel F and two of channel E, which different state frames report: a    *)
(* transaction that reads back too little leaves one of them unread.         *)
EXTENDS SettingsBus

MCItems   == {"doorUnlock", "wiper", "seat"}
MCTimeout == 1
=============================================================================
