----------------------------- MODULE MCSettings -----------------------------
EXTENDS Settings, TLC
CONSTANTS c1, c2
MCCall == {c1, c2}
CallSymmetry == Permutations(MCCall)
\* Every setter, but for four that are set_binning_mode on another field of the same document.
MCUsed == DOMAIN Setter \ {"set_HDR", "set_exposure", "set_daynight", "set_anti_flicker"}
\* Two setters of a document that an HTTP answer replaces, and two of one that it is merged into; of
\* each two, asked for different fields.
MCRacing == {"set_audio", "set_bit_rate", "set_recording", "set_post_recording_time"}
=============================================================================
