------------------------------ MODULE Ft8Tables ------------------------------
(***************************************************************************)
(* The tables of src/libft8/ft8/constants.c that FT8 uses, the LDPC code   *)
(* (174, 91) among them, byte for byte.                                    *)
(***************************************************************************)
EXTENDS Integers, Sequences, FiniteSets

(* Indexed from 0, as in the code *)
kFT8_Costas_pattern == [i \in 0 .. 6 |-> <<3, 1, 4, 0, 6, 5, 2>>[i + 1]]
kFT8_Gray_map == [i \in 0 .. 7 |-> <<0, 1, 3, 2, 5, 6, 4, 7>>[i + 1]]

(* A row of bits, 12 bytes, for each of the 83 checksum bits *)
kFTX_LDPC_generator == <<
    <<131,41,206,17,191,49,234,245,9,242,127,192>>,
    <<118,28,38,78,37,194,89,51,84,147,19,32>>,
    <<220,38,89,2,251,39,124,100,16,161,189,192>>,
    <<27,63,65,120,88,205,45,211,62,199,246,32>>,
    <<9,253,164,254,224,65,149,253,3,71,131,160>>,
    <<7,124,204,193,27,136,115,237,92,61,72,160>>,
    <<41,182,42,254,60,160,54,244,254,26,157,160>>,
    <<96,84,250,245,243,93,150,211,176,200,195,224>>,
    <<226,7,152,228,49,14,237,39,136,74,233,0>>,
    <<119,92,156,8,232,14,38,221,174,86,49,128>>,
    <<176,184,17,2,140,43,249,151,33,52,135,192>>,
    <<24,160,201,35,31,198,10,223,92,94,163,32>>,
    <<118,71,30,131,2,160,114,30,1,177,43,128>>,
    <<255,188,203,128,202,131,65,250,251,71,178,224>>,
    <<102,167,42,21,143,147,37,162,191,103,23,0>>,
    <<196,36,54,137,254,133,177,197,19,99,161,128>>,
    <<13,255,115,148,20,209,161,179,75,28,39,0>>,
    <<21,180,136,48,99,108,139,153,137,73,114,224>>,
    <<41,168,156,13,61,232,29,102,84,137,176,224>>,
    <<79,18,111,55,250,81,203,230,27,214,185,64>>,
    <<153,196,114,57,208,217,125,60,132,224,148,0>>,
    <<25,25,183,81,25,118,86,33,187,79,30,128>>,
    <<9,219,18,215,49,250,238,11,134,223,107,128>>,
    <<72,143,195,61,244,63,189,238,164,234,251,64>>,
    <<130,116,35,238,64,182,117,247,86,235,95,224>>,
    <<171,225,151,196,132,203,116,117,113,68,169,160>>,
    <<43,80,14,75,192,236,90,109,43,219,221,0>>,
    <<196,116,170,83,215,2,24,118,22,105,54,0>>,
    <<142,186,26,19,219,51,144,189,103,24,206,192>>,
    <<117,56,68,103,58,39,120,44,196,32,18,224>>,
    <<6,255,131,161,69,195,112,53,165,193,38,128>>,
    <<59,55,65,120,88,204,45,211,62,195,246,32>>,
    <<154,74,90,40,238,23,202,156,50,72,66,192>>,
    <<188,41,244,101,48,156,151,126,137,97,10,64>>,
    <<38,99,174,109,223,139,92,226,187,41,72,128>>,
    <<70,242,49,239,228,87,3,76,24,20,65,128>>,
    <<63,178,206,133,171,233,176,199,46,6,251,224>>,
    <<222,135,72,31,40,44,21,57,113,160,162,224>>,
    <<252,215,204,242,60,105,250,153,187,161,65,32>>,
    <<240,38,20,71,233,73,12,168,228,116,206,192>>,
    <<68,16,17,88,24,25,111,149,205,215,1,32>>,
    <<8,143,195,29,244,191,189,226,164,234,251,64>>,
    <<184,254,241,182,48,119,41,251,10,7,140,0>>,
    <<90,254,167,172,204,183,123,188,157,153,169,0>>,
    <<73,167,1,106,198,83,246,94,205,201,7,96>>,
    <<25,68,208,133,190,78,125,168,214,204,125,0>>,
    <<37,31,98,173,196,3,47,14,231,20,0,32>>,
    <<86,71,31,135,2,160,114,30,0,177,43,128>>,
    <<43,142,73,35,242,221,81,226,213,55,250,0>>,
    <<107,85,10,64,166,111,71,85,222,149,194,96>>,
    <<161,138,210,141,78,39,254,146,164,246,200,64>>,
    <<16,194,229,134,56,140,184,42,61,128,117,128>>,
    <<239,52,164,24,23,238,2,19,61,178,235,0>>,
    <<126,156,12,84,50,90,156,21,131,110,0,0>>,
    <<54,147,229,114,209,253,228,205,240,121,232,96>>,
    <<191,178,206,197,171,225,176,199,46,7,251,224>>,
    <<126,225,130,48,197,131,204,204,87,212,176,128>>,
    <<160,102,203,47,237,175,201,245,38,100,18,96>>,
    <<187,35,114,90,188,71,204,95,76,196,205,32>>,
    <<222,217,219,163,190,228,12,89,181,96,155,64>>,
    <<217,167,1,106,198,83,230,222,205,201,3,96>>,
    <<154,212,106,237,95,112,127,40,10,181,252,64>>,
    <<229,146,28,119,130,37,135,49,109,125,60,32>>,
    <<79,20,218,130,66,168,184,109,202,115,53,32>>,
    <<139,139,80,122,212,103,212,68,29,247,112,224>>,
    <<34,131,28,156,241,22,148,103,173,4,182,128>>,
    <<33,59,131,143,226,174,84,195,142,231,24,0>>,
    <<93,146,107,109,215,31,8,81,129,164,225,32>>,
    <<102,171,121,212,178,158,230,230,149,9,229,96>>,
    <<149,129,72,104,45,116,138,56,221,104,186,160>>,
    <<184,206,2,12,240,105,195,42,114,58,177,64>>,
    <<244,51,29,109,70,22,7,233,87,82,116,96>>,
    <<109,162,59,164,36,185,89,97,51,207,156,128>>,
    <<166,54,188,188,123,48,197,251,234,230,127,224>>,
    <<92,176,216,106,7,223,101,74,144,137,162,0>>,
    <<241,31,16,104,72,120,15,201,236,221,128,160>>,
    <<31,187,83,100,251,141,44,157,115,13,91,160>>,
    <<252,184,107,199,10,80,201,208,42,93,3,64>>,
    <<165,52,67,48,41,234,193,95,50,46,52,192>>,
    <<201,137,217,199,195,211,184,197,93,117,19,0>>,
    <<123,179,139,47,1,134,212,102,67,174,150,32>>,
    <<38,68,235,173,235,68,185,70,125,31,66,192>>,
    <<96,140,200,87,89,75,251,181,93,105,96,0>>>>

(* The codeword bits of each parity check, from 1; a row of six ends in 0  *)
kFTX_LDPC_Nm == <<
    <<4,31,59,91,92,96,153>>, <<5,32,60,93,115,146,0>>,
    <<6,24,61,94,122,151,0>>, <<7,33,62,95,96,143,0>>,
    <<8,25,63,83,93,96,148>>, <<6,32,64,97,126,138,0>>,
    <<5,34,65,78,98,107,154>>, <<9,35,66,99,139,146,0>>,
    <<10,36,67,100,107,126,0>>, <<11,37,67,87,101,139,158>>,
    <<12,38,68,102,105,155,0>>, <<13,39,69,103,149,162,0>>,
    <<8,40,70,82,104,114,145>>, <<14,41,71,88,102,123,156>>,
    <<15,42,59,106,123,159,0>>, <<1,33,72,106,107,157,0>>,
    <<16,43,73,108,141,160,0>>, <<17,37,74,81,109,131,154>>,
    <<11,44,75,110,121,166,0>>, <<45,55,64,111,130,161,173>>,
    <<8,46,71,112,119,166,0>>, <<18,36,76,89,113,114,143>>,
    <<19,38,77,104,116,163,0>>, <<20,47,70,92,138,165,0>>,
    <<2,48,74,113,128,160,0>>, <<21,45,78,83,117,121,151>>,
    <<22,47,58,118,127,164,0>>, <<16,39,62,112,134,158,0>>,
    <<23,43,79,120,131,145,0>>, <<19,35,59,73,110,125,161>>,
    <<20,36,63,94,136,161,0>>, <<14,31,79,98,132,164,0>>,
    <<3,44,80,124,127,169,0>>, <<19,46,81,117,135,167,0>>,
    <<7,49,58,90,100,105,168>>, <<12,50,61,118,119,144,0>>,
    <<13,51,64,114,118,157,0>>, <<24,52,76,129,148,149,0>>,
    <<25,53,69,90,101,130,156>>, <<20,46,65,80,120,140,170>>,
    <<21,54,77,100,140,171,0>>, <<35,82,133,142,171,174,0>>,
    <<14,30,83,113,125,170,0>>, <<4,29,68,120,134,173,0>>,
    <<1,4,52,57,86,136,152>>, <<26,51,56,91,122,137,168>>,
    <<52,84,110,115,145,168,0>>, <<7,50,81,99,132,173,0>>,
    <<23,55,67,95,172,174,0>>, <<26,41,77,109,141,148,0>>,
    <<2,27,41,61,62,115,133>>, <<27,40,56,124,125,126,0>>,
    <<18,49,55,124,141,167,0>>, <<6,33,85,108,116,156,0>>,
    <<28,48,70,85,105,129,158>>, <<9,54,63,131,147,155,0>>,
    <<22,53,68,109,121,174,0>>, <<3,13,48,78,95,123,0>>,
    <<31,69,133,150,155,169,0>>, <<12,43,66,89,97,135,159>>,
    <<5,39,75,102,136,167,0>>, <<2,54,86,101,135,164,0>>,
    <<15,56,87,108,119,171,0>>, <<10,44,82,91,111,144,149>>,
    <<23,34,71,94,127,153,0>>, <<11,49,88,92,142,157,0>>,
    <<29,34,87,97,147,162,0>>, <<30,50,60,86,137,142,162>>,
    <<10,53,66,84,112,128,165>>, <<22,57,85,93,140,159,0>>,
    <<28,32,72,103,132,166,0>>, <<28,29,84,88,117,143,150>>,
    <<1,26,45,80,128,147,0>>, <<17,27,89,103,116,153,0>>,
    <<51,57,98,163,165,172,0>>, <<21,37,73,138,152,169,0>>,
    <<16,47,76,130,137,154,0>>, <<3,24,30,72,104,139,0>>,
    <<9,40,90,106,134,151,0>>, <<15,58,60,74,111,150,163>>,
    <<18,42,79,144,146,152,0>>, <<25,38,65,99,122,160,0>>,
    <<17,42,75,129,170,172,0>>>>

(* The three parity checks of each codeword bit, from 1 *)
kFTX_LDPC_Mn == <<
    <<16,45,73>>, <<25,51,62>>, <<33,58,78>>, <<1,44,45>>, <<2,7,61>>,
    <<3,6,54>>, <<4,35,48>>, <<5,13,21>>, <<8,56,79>>, <<9,64,69>>,
    <<10,19,66>>, <<11,36,60>>, <<12,37,58>>, <<14,32,43>>, <<15,63,80>>,
    <<17,28,77>>, <<18,74,83>>, <<22,53,81>>, <<23,30,34>>, <<24,31,40>>,
    <<26,41,76>>, <<27,57,70>>, <<29,49,65>>, <<3,38,78>>, <<5,39,82>>,
    <<46,50,73>>, <<51,52,74>>, <<55,71,72>>, <<44,67,72>>, <<43,68,78>>,
    <<1,32,59>>, <<2,6,71>>, <<4,16,54>>, <<7,65,67>>, <<8,30,42>>,
    <<9,22,31>>, <<10,18,76>>, <<11,23,82>>, <<12,28,61>>, <<13,52,79>>,
    <<14,50,51>>, <<15,81,83>>, <<17,29,60>>, <<19,33,64>>, <<20,26,73>>,
    <<21,34,40>>, <<24,27,77>>, <<25,55,58>>, <<35,53,66>>, <<36,48,68>>,
    <<37,46,75>>, <<38,45,47>>, <<39,57,69>>, <<41,56,62>>, <<20,49,53>>,
    <<46,52,63>>, <<45,70,75>>, <<27,35,80>>, <<1,15,30>>, <<2,68,80>>,
    <<3,36,51>>, <<4,28,51>>, <<5,31,56>>, <<6,20,37>>, <<7,40,82>>,
    <<8,60,69>>, <<9,10,49>>, <<11,44,57>>, <<12,39,59>>, <<13,24,55>>,
    <<14,21,65>>, <<16,71,78>>, <<17,30,76>>, <<18,25,80>>, <<19,61,83>>,
    <<22,38,77>>, <<23,41,50>>, <<7,26,58>>, <<29,32,81>>, <<33,40,73>>,
    <<18,34,48>>, <<13,42,64>>, <<5,26,43>>, <<47,69,72>>, <<54,55,70>>,
    <<45,62,68>>, <<10,63,67>>, <<14,66,72>>, <<22,60,74>>, <<35,39,79>>,
    <<1,46,64>>, <<1,24,66>>, <<2,5,70>>, <<3,31,65>>, <<4,49,58>>, <<1,4,5>>,
    <<6,60,67>>, <<7,32,75>>, <<8,48,82>>, <<9,35,41>>, <<10,39,62>>,
    <<11,14,61>>, <<12,71,74>>, <<13,23,78>>, <<11,35,55>>, <<15,16,79>>,
    <<7,9,16>>, <<17,54,63>>, <<18,50,57>>, <<19,30,47>>, <<20,64,80>>,
    <<21,28,69>>, <<22,25,43>>, <<13,22,37>>, <<2,47,51>>, <<23,54,74>>,
    <<26,34,72>>, <<27,36,37>>, <<21,36,63>>, <<29,40,44>>, <<19,26,57>>,
    <<3,46,82>>, <<14,15,58>>, <<33,52,53>>, <<30,43,52>>, <<6,9,52>>,
    <<27,33,65>>, <<25,69,73>>, <<38,55,83>>, <<20,39,77>>, <<18,29,56>>,
    <<32,48,71>>, <<42,51,59>>, <<28,44,79>>, <<34,60,62>>, <<31,45,61>>,
    <<46,68,77>>, <<6,24,76>>, <<8,10,78>>, <<40,41,70>>, <<17,50,53>>,
    <<42,66,68>>, <<4,22,72>>, <<36,64,81>>, <<13,29,47>>, <<2,8,81>>,
    <<56,67,73>>, <<5,38,50>>, <<12,38,64>>, <<59,72,80>>, <<3,26,79>>,
    <<45,76,81>>, <<1,65,74>>, <<7,18,77>>, <<11,56,59>>, <<14,39,54>>,
    <<16,37,66>>, <<10,28,55>>, <<15,60,70>>, <<17,25,82>>, <<20,30,31>>,
    <<12,67,68>>, <<23,75,80>>, <<27,32,62>>, <<24,69,75>>, <<19,21,71>>,
    <<34,53,61>>, <<35,46,47>>, <<33,59,76>>, <<40,43,83>>, <<41,42,63>>,
    <<49,75,83>>, <<20,44,48>>, <<42,49,57>>>>

(* How many bits a parity check has *)
kFTX_LDPC_Num_rows == <<
    7, 6, 6, 6, 7, 6, 7, 6, 6, 7, 6, 6, 7, 7, 6, 6, 6, 7, 6, 7, 6, 7, 6, 6, 6,
    7, 6, 6, 6, 7, 6, 6, 6, 6, 7, 6, 6, 6, 7, 7, 6, 6, 6, 6, 7, 7, 6, 6, 6, 6,
    7, 6, 6, 6, 7, 6, 6, 6, 6, 7, 6, 6, 6, 7, 6, 6, 6, 7, 7, 6, 6, 7, 6, 6, 6,
    6, 6, 6, 6, 7, 6, 6, 6>>

-----------------------------------------------------------------------------
(* The tables the decoder walks from checks to bits and from bits to       *)
(* checks are each other's inverse, and a row is as long as it says.       *)
BitsOf(m) == {kFTX_LDPC_Nm[m][i] : i \in 1 .. kFTX_LDPC_Num_rows[m]}

ASSUME ParityTablesAgree ==
    /\ \A m \in 1 .. 83 : BitsOf(m) \subseteq 1 .. 174
                          /\ Cardinality(BitsOf(m)) = kFTX_LDPC_Num_rows[m]
    /\ \A n \in 1 .. 174 : {kFTX_LDPC_Mn[n][i] : i \in 1 .. 3} = {m \in 1 .. 83 : n \in BitsOf(m)}
=============================================================================
