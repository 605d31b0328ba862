---------------------------- MODULE MCMessageBox ----------------------------
(* Small instances of the message box for TLC. *)
EXTENDS MessageBox, TLC

CONSTANTS
  SecretStart, ChannelStart,          \* the server's positions at the start
  AccountMax, SecretMax, ChannelMax   \* and at the end

MCStart == [e \in Entries |-> IF e = ACCOUNT THEN 1
                              ELSE IF e = SECRET THEN SecretStart ELSE ChannelStart]
MCMax == [e \in Entries |-> IF e = ACCOUNT THEN AccountMax
                            ELSE IF e = SECRET THEN SecretMax ELSE ChannelMax]
=============================================================================
