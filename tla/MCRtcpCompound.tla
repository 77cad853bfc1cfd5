--------------------------- MODULE MCRtcpCompound ---------------------------
(***************************************************************************)
(* An instance of RtcpCompound: two output and two input streams, one      *)
(* report block per compound, texts that fill a word and that do not.      *)
(***************************************************************************)
EXTENDS RtcpCompound

Streams == {66051, 258}
Heard == {1029, 7}
Go == <<71, 111>>
Names == {<<65>>, <<66, 67, 68, 69>>}
GoodBye == <<98, 121, 101>>

\* More than 24 bits of lost packets; streams start without any.
Statistics == {[lost |-> 16777221, frac |-> 200, highest |-> 65537, jitter |-> 33]}

\* Transport and payload feedback, RR, SDES with an empty chunk and one of
\* two items, APP and XR.
Words == PutUint32(515)
Others == {[bytes |-> <<129, 205, 0, 3>> \o Words \o Words \o <<9, 8, 7, 6>>
                      \o <<129, 206, 0, 4>> \o Words \o Words
                      \o <<1, 2, 3, 4, 5, 6, 7, 8>>
                      \o <<128, 201, 0, 1>> \o Words
                      \o <<130, 202, 0, 6>> \o Words \o <<0, 0, 0, 0>>
                      \o Words \o <<2, 1, 65, 1, 3, 66, 67, 68, 0, 0, 0, 0>>
                      \o <<128, 204, 0, 2>> \o Words \o <<1, 2, 3, 4>>
                      \o <<128, 207, 0, 1>> \o Words,
            meant |-> <<[type |-> RtcpRtpfb, ssrc |-> 515, reason |-> <<9, 8, 7, 6>>],
                        [type |-> RtcpPsfb, ssrc |-> 515,
                         reason |-> <<1, 2, 3, 4, 5, 6, 7, 8>>],
                        [type |-> RtcpRR, ssrc |-> 515, blocks |-> <<>>],
                        [type |-> RtcpSdes, chunks |->
                            <<[ssrc |-> 515, items |-> <<>>],
                              [ssrc |-> 515, items |-> <<<<66, 67, 68>>, <<65>>>>]>>],
                        [type |-> RtcpApp], [type |-> RtcpXr]>>]}
=============================================================================
