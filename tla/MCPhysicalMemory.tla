-------------------------- MODULE MCPhysicalMemory --------------------------
(* The files with which PhysicalMemory is model-checked. *)
EXTENDS PhysicalMemory

Number(key, number) == [key |-> key, number |-> number]
Word(key, word)     == [key |-> key, word |-> word]

Malformed == [text |-> "a line without an equals sign"]

\* A rank of one bank with two rows of one burst, and one of two banks with one row of
\* two bursts: 16 bytes each.
OneBank  == <<Number("NUM_BANKS", 1), Number("NUM_ROWS", 2), Number("NUM_COLS", 4),
              Number("DEVICE_WIDTH", 8), Number("BL", 4)>>
TwoBanks == <<Number("NUM_BANKS", 2), Number("NUM_ROWS", 1), Number("NUM_COLS", 4),
              Number("DEVICE_WIDTH", 16), Number("BL", 2)>>

\* Also a file that cannot be read, two without a number, and one with a parameter of
\* the system file and a value that is not a number.
MCDeviceFiles ==
  {OneBank, TwoBanks, Append(OneBank, Malformed), Tail(OneBank), Front(OneBank),
   OneBank \o <<Number("JEDEC_DATA_BUS_BITS", 32), Word("NUM_ROWS", "many")>>}

System(scheme) == <<Number("JEDEC_DATA_BUS_BITS", 16), Word("ADDRESS_MAPPING_SCHEME", scheme)>>

\* One file for every scheme and one for a name that is none, with a parameter of
\* the device file and an unknown one.
MCSystemFiles ==
  {System(scheme) : scheme \in DOMAIN SchemeNames}
    \cup {System("scheme7") \o <<Word("USE_LOW_POWER", "true"), Number("NUM_ROWS", 2),
                                 Number("NUM_ROWZ", 4)>>}

MCAddresses == {4 * n : n \in 0 .. 7}
=============================================================================
