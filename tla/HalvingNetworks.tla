-------------------------- MODULE HalvingNetworks --------------------------
(***************************************************************************)
(* The halvers of small_halve.hpp and small_halve_rev.hpp: for 2 to 24     *)
(* cells a fixed list of compare-exchanges that moves the n / 2 smallest   *)
(* elements (in the reversed form the n / 2 largest) to the front, without *)
(* sorting either half.                                                    *)
(***************************************************************************)
EXTENDS Integers, Sequences

LargestHalver == 24

\* Networks[n - 1] is the list halve_n<n> applies: h2 to h6, h7_alt, h8_new,
\* h9 to h24.
Networks ==
    <<
      <<<<0,1>>>>,
      <<<<0,2>>,<<0,1>>>>,
      <<<<1,3>>,<<0,1>>,<<2,3>>,<<1,2>>>>,
      <<<<0,3>>,<<0,2>>,<<1,3>>,<<0,1>>,<<2,4>>,<<1,2>>>>,
      <<<<0,5>>,<<1,3>>,<<2,4>>,<<1,2>>,<<3,4>>,<<0,3>>,<<2,5>>,<<2,3>>>>,
      <<<<0,6>>,<<2,4>>,<<1,3>>,<<3,6>>,<<4,5>>,<<2,3>>,<<0,1>>,<<0,5>>,
        <<3,4>>,<<1,2>>,<<2,3>>>>,
      <<<<0,7>>,<<1,4>>,<<2,5>>,<<3,6>>,<<0,2>>,<<1,3>>,<<4,6>>,<<5,7>>,
        <<0,6>>,<<1,7>>,<<2,4>>,<<3,5>>,<<2,5>>,<<3,4>>>>,
      <<<<2,5>>,<<4,8>>,<<0,7>>,<<2,4>>,<<3,8>>,<<5,6>>,<<0,2>>,<<1,3>>,
        <<4,5>>,<<7,8>>,<<1,4>>,<<3,6>>,<<5,7>>,<<3,5>>,<<2,3>>,<<4,5>>,
        <<3,4>>>>,
      <<<<0,8>>,<<1,9>>,<<2,7>>,<<0,2>>,<<4,5>>,<<1,4>>,<<3,6>>,<<5,8>>,
        <<7,9>>,<<2,4>>,<<5,7>>,<<8,9>>,<<0,1>>,<<1,5>>,<<2,3>>,<<4,8>>,
        <<6,7>>,<<3,5>>,<<4,6>>,<<4,5>>>>,
      <<<<0,9>>,<<1,6>>,<<0,1>>,<<3,5>>,<<4,10>>,<<2,8>>,<<1,10>>,<<6,9>>,
        <<1,3>>,<<4,7>>,<<8,10>>,<<0,4>>,<<1,2>>,<<3,7>>,<<5,9>>,<<4,5>>,
        <<7,8>>,<<2,4>>,<<3,6>>,<<6,7>>,<<3,4>>,<<5,6>>,<<4,5>>>>,
      <<<<0,8>>,<<1,7>>,<<2,6>>,<<5,9>>,<<0,1>>,<<2,5>>,<<3,4>>,<<6,9>>,
        <<10,11>>,<<0,2>>,<<4,10>>,<<2,11>>,<<1,6>>,<<9,11>>,<<7,8>>,
        <<3,6>>,<<5,7>>,<<1,4>>,<<3,5>>,<<6,8>>,<<7,10>>,<<2,5>>,<<6,9>>,
        <<4,6>>,<<5,7>>,<<5,6>>,<<4,7>>>>,
      <<<<0,12>>,<<1,10>>,<<2,9>>,<<3,7>>,<<5,11>>,<<6,8>>,<<1,6>>,
        <<2,3>>,<<4,11>>,<<7,9>>,<<8,10>>,<<3,6>>,<<7,8>>,<<9,10>>,
        <<5,9>>,<<8,11>>,<<1,2>>,<<3,8>>,<<4,7>>,<<8,12>>,<<5,8>>,<<2,5>>,
        <<6,9>>,<<5,7>>,<<0,4>>,<<3,4>>,<<6,8>>,<<4,5>>,<<6,7>>,<<5,6>>>>,
      <<<<0,1>>,<<8,9>>,<<2,3>>,<<4,5>>,<<6,7>>,<<10,11>>,<<6,10>>,
        <<12,13>>,<<0,2>>,<<4,8>>,<<5,9>>,<<10,12>>,<<3,7>>,<<11,13>>,
        <<2,8>>,<<7,9>>,<<0,6>>,<<1,5>>,<<7,13>>,<<8,12>>,<<2,10>>,
        <<3,11>>,<<4,6>>,<<1,3>>,<<5,11>>,<<6,7>>,<<3,10>>,<<3,6>>,
        <<5,8>>,<<7,10>>,<<5,6>>,<<7,8>>,<<6,7>>,<<1,12>>>>,
      <<<<1,2>>,<<4,14>>,<<5,8>>,<<6,13>>,<<9,11>>,<<1,5>>,<<2,8>>,
        <<3,7>>,<<6,9>>,<<10,12>>,<<11,13>>,<<0,7>>,<<1,6>>,<<2,9>>,
        <<4,10>>,<<5,11>>,<<8,13>>,<<12,14>>,<<0,6>>,<<2,4>>,<<3,5>>,
        <<7,14>>,<<7,11>>,<<8,10>>,<<9,12>>,<<1,14>>,<<0,3>>,<<4,7>>,
        <<5,9>>,<<6,8>>,<<4,6>>,<<7,9>>,<<3,5>>,<<10,12>>,<<8,10>>,
        <<5,6>>,<<2,11>>,<<7,8>>,<<6,7>>>>,
      <<<<2,15>>,<<3,14>>,<<4,8>>,<<7,11>>,<<9,10>>,<<0,5>>,<<1,7>>,
        <<2,9>>,<<3,4>>,<<6,13>>,<<8,14>>,<<10,15>>,<<0,1>>,<<2,3>>,
        <<10,11>>,<<14,15>>,<<0,2>>,<<7,9>>,<<1,3>>,<<4,10>>,<<5,11>>,
        <<6,7>>,<<8,9>>,<<12,14>>,<<3,13>>,<<13,15>>,<<1,2>>,<<3,12>>,
        <<10,12>>,<<4,6>>,<<5,7>>,<<8,10>>,<<9,11>>,<<13,14>>,<<2,6>>,
        <<5,8>>,<<7,10>>,<<9,13>>,<<3,6>>,<<9,12>>,<<8,9>>,<<6,8>>,
        <<7,9>>,<<7,8>>>>,
      <<<<0,11>>,<<1,15>>,<<2,10>>,<<7,11>>,<<6,14>>,<<4,5>>,<<4,6>>,
        <<8,12>>,<<3,5>>,<<9,16>>,<<13,14>>,<<0,6>>,<<1,8>>,<<2,8>>,
        <<5,15>>,<<3,7>>,<<4,9>>,<<6,16>>,<<10,11>>,<<0,9>>,<<12,14>>,
        <<0,2>>,<<1,4>>,<<5,6>>,<<7,13>>,<<8,9>>,<<10,12>>,<<11,14>>,
        <<15,16>>,<<2,5>>,<<6,11>>,<<9,13>>,<<12,15>>,<<3,4>>,<<5,10>>,
        <<7,8>>,<<3,7>>,<<4,8>>,<<6,12>>,<<6,9>>,<<2,7>>,<<4,5>>,
        <<10,12>>,<<5,7>>,<<8,10>>,<<6,8>>,<<7,9>>,<<7,8>>>>,
      <<<<12,14>>,<<0,1>>,<<6,7>>,<<16,17>>,<<1,2>>,<<15,16>>,<<12,13>>,
        <<10,11>>,<<14,17>>,<<4,5>>,<<8,9>>,<<9,11>>,<<6,10>>,<<3,5>>,
        <<1,4>>,<<13,16>>,<<12,15>>,<<7,16>>,<<2,5>>,<<0,3>>,<<4,17>>,
        <<0,13>>,<<4,13>>,<<10,13>>,<<1,14>>,<<2,14>>,<<4,9>>,<<3,10>>,
        <<5,17>>,<<8,15>>,<<7,9>>,<<0,12>>,<<10,15>>,<<4,12>>,<<1,6>>,
        <<6,12>>,<<9,15>>,<<3,8>>,<<8,10>>,<<5,11>>,<<5,13>>,<<8,12>>,
        <<2,10>>,<<5,16>>,<<5,7>>,<<2,5>>,<<9,14>>,<<5,9>>,<<7,10>>,
        <<7,12>>,<<5,12>>,<<7,9>>>>,
      <<<<12,14>>,<<10,11>>,<<15,16>>,<<17,18>>,<<12,13>>,<<15,17>>,
        <<12,15>>,<<16,18>>,<<4,5>>,<<8,9>>,<<14,17>>,<<0,1>>,<<9,11>>,
        <<2,3>>,<<3,5>>,<<13,16>>,<<1,5>>,<<0,3>>,<<2,4>>,<<6,7>>,
        <<4,17>>,<<0,13>>,<<6,10>>,<<2,14>>,<<3,18>>,<<4,13>>,<<5,11>>,
        <<7,16>>,<<10,13>>,<<4,9>>,<<3,10>>,<<13,16>>,<<8,15>>,<<5,18>>,
        <<7,9>>,<<1,14>>,<<5,17>>,<<10,15>>,<<0,4>>,<<3,8>>,<<2,4>>,
        <<8,10>>,<<1,7>>,<<5,13>>,<<4,12>>,<<8,12>>,<<9,14>>,<<1,6>>,
        <<5,7>>,<<7,10>>,<<6,12>>,<<9,15>>,<<5,7>>,<<5,9>>,<<7,12>>,
        <<7,9>>>>,
      <<<<13,15>>,<<7,8>>,<<16,17>>,<<11,12>>,<<18,19>>,<<1,2>>,<<16,18>>,
        <<17,19>>,<<15,18>>,<<0,2>>,<<5,6>>,<<3,4>>,<<9,10>>,<<10,12>>,
        <<13,14>>,<<1,5>>,<<4,6>>,<<3,5>>,<<14,17>>,<<2,6>>,<<1,16>>,
        <<0,4>>,<<7,11>>,<<5,18>>,<<0,14>>,<<12,18>>,<<3,15>>,<<4,19>>,
        <<5,14>>,<<11,14>>,<<13,16>>,<<1,7>>,<<4,11>>,<<5,10>>,<<2,17>>,
        <<6,19>>,<<9,16>>,<<8,10>>,<<12,14>>,<<6,12>>,<<11,16>>,<<2,15>>,
        <<4,9>>,<<3,13>>,<<0,5>>,<<9,11>>,<<6,17>>,<<2,11>>,<<10,15>>,
        <<5,13>>,<<6,8>>,<<2,6>>,<<10,16>>,<<9,13>>,<<7,13>>,<<6,10>>,
        <<8,11>>,<<8,13>>,<<6,13>>,<<8,10>>>>,
      <<<<6,7>>,<<2,3>>,<<4,5>>,<<16,20>>,<<0,1>>,<<5,7>>,<<8,9>>,
        <<10,11>>,<<17,18>>,<<9,11>>,<<14,15>>,<<0,2>>,<<12,13>>,<<4,6>>,
        <<8,10>>,<<16,17>>,<<0,8>>,<<1,3>>,<<12,14>>,<<4,12>>,<<17,19>>,
        <<13,15>>,<<1,9>>,<<7,15>>,<<5,13>>,<<6,14>>,<<3,11>>,<<3,7>>,
        <<8,12>>,<<2,10>>,<<3,12>>,<<10,14>>,<<7,19>>,<<3,17>>,<<7,20>>,
        <<7,17>>,<<9,13>>,<<13,17>>,<<12,20>>,<<2,6>>,<<6,13>>,<<6,9>>,
        <<3,16>>,<<7,10>>,<<2,16>>,<<9,16>>,<<4,8>>,<<10,18>>,<<0,8>>,
        <<11,13>>,<<1,5>>,<<5,10>>,<<5,6>>,<<10,18>>,<<6,12>>,<<11,15>>,
        <<11,14>>,<<1,7>>,<<6,8>>,<<7,8>>,<<10,16>>,<<11,12>>,<<10,11>>,
        <<9,10>>,<<8,10>>>>,
      <<<<8,9>>,<<0,1>>,<<20,21>>,<<2,3>>,<<16,17>>,<<12,13>>,<<18,19>>,
        <<19,21>>,<<18,20>>,<<0,2>>,<<4,5>>,<<1,3>>,<<6,7>>,<<10,11>>,
        <<14,15>>,<<4,6>>,<<5,7>>,<<15,17>>,<<14,16>>,<<2,6>>,<<15,19>>,
        <<1,5>>,<<16,20>>,<<8,12>>,<<5,17>>,<<3,7>>,<<11,13>>,<<6,20>>,
        <<1,15>>,<<5,21>>,<<7,20>>,<<6,15>>,<<12,15>>,<<0,4>>,<<2,18>>,
        <<6,11>>,<<14,18>>,<<4,16>>,<<2,6>>,<<6,14>>,<<5,12>>,<<0,1>>,
        <<1,14>>,<<7,17>>,<<3,19>>,<<13,21>>,<<10,18>>,<<9,11>>,<<7,15>>,
        <<12,18>>,<<3,16>>,<<5,10>>,<<7,13>>,<<3,12>>,<<10,12>>,<<7,19>>,
        <<7,9>>,<<3,7>>,<<4,8>>,<<11,16>>,<<11,18>>,<<8,14>>,<<7,11>>,
        <<9,12>>,<<10,14>>,<<9,14>>,<<7,14>>,<<9,11>>>>,
      <<<<0,1>>,<<8,9>>,<<10,11>>,<<14,15>>,<<12,13>>,<<7,21>>,<<12,14>>,
        <<2,3>>,<<0,2>>,<<4,5>>,<<9,11>>,<<16,17>>,<<18,19>>,<<4,6>>,
        <<17,19>>,<<20,22>>,<<1,3>>,<<21,22>>,<<8,10>>,<<7,20>>,<<2,6>>,
        <<16,18>>,<<1,5>>,<<17,21>>,<<10,14>>,<<13,15>>,<<8,12>>,<<0,4>>,
        <<3,15>>,<<9,13>>,<<6,14>>,<<1,7>>,<<12,17>>,<<18,20>>,<<3,11>>,
        <<3,20>>,<<5,13>>,<<13,15>>,<<5,18>>,<<2,10>>,<<9,16>>,<<19,22>>,
        <<7,16>>,<<3,4>>,<<0,8>>,<<6,19>>,<<13,19>>,<<10,18>>,<<3,12>>,
        <<10,21>>,<<4,17>>,<<1,9>>,<<5,8>>,<<4,12>>,<<6,8>>,<<11,21>>,
        <<14,17>>,<<2,9>>,<<6,9>>,<<9,10>>,<<10,12>>,<<4,9>>,<<13,22>>,
        <<12,16>>,<<8,12>>,<<18,20>>,<<8,9>>,<<13,14>>,<<11,13>>,
        <<11,18>>,<<11,12>>,<<7,10>>,<<10,11>>,<<9,11>>>>,
      <<<<4,6>>,<<20,22>>,<<14,15>>,<<2,6>>,<<12,13>>,<<16,17>>,<<1,3>>,
        <<12,14>>,<<7,21>>,<<18,19>>,<<10,11>>,<<13,15>>,<<8,9>>,<<1,5>>,
        <<17,19>>,<<21,22>>,<<9,11>>,<<8,10>>,<<0,23>>,<<17,21>>,<<2,3>>,
        <<10,14>>,<<16,18>>,<<7,20>>,<<2,10>>,<<3,15>>,<<18,20>>,<<8,12>>,
        <<4,5>>,<<3,11>>,<<9,13>>,<<19,22>>,<<12,17>>,<<5,13>>,<<3,20>>,
        <<6,14>>,<<9,16>>,<<5,18>>,<<18,21>>,<<1,7>>,<<14,20>>,<<5,8>>,
        <<6,19>>,<<6,8>>,<<3,4>>,<<14,23>>,<<4,17>>,<<6,9>>,<<1,2>>,
        <<0,4>>,<<10,18>>,<<11,22>>,<<3,12>>,<<7,16>>,<<4,12>>,<<0,7>>,
        <<11,17>>,<<13,19>>,<<4,7>>,<<2,9>>,<<7,8>>,<<9,12>>,<<12,16>>,
        <<15,21>>,<<11,13>>,<<11,14>>,<<17,18>>,<<16,23>>,<<8,12>>,
        <<12,17>>,<<11,12>>,<<9,10>>,<<7,10>>,<<8,10>>,<<13,16>>,
        <<13,15>>,<<10,11>>,<<11,12>>,<<13,14>>,<<11,13>>>>
    >>

\* small_sort::cswap: the lesser key at the lower cell.
Cswap(a, i, j) == IF a[j] < a[i] THEN [a EXCEPT ![i] = a[j], ![j] = a[i]] ELSE a

\* small_halve_rev::cswap_rev: the greater key at the lower cell.
CswapRev(a, i, j) == IF a[i] < a[j] THEN [a EXCEPT ![i] = a[j], ![j] = a[i]] ELSE a

\* apply_network, apply_network_rev: the exchanges of net on the cells from
\* first on, one after the other.
ApplyNetwork(form, a, first, net) ==
    LET after[k \in 0 .. Len(net)] ==
            IF k = 0 THEN a
            ELSE LET i == first + net[k][1]
                     j == first + net[k][2]
                 IN  IF form = "forward" THEN Cswap(after[k - 1], i, j)
                                         ELSE CswapRev(after[k - 1], i, j)
    IN  after[Len(net)]

\* halve, halve_rev: the array after halving [first, last).
Halve(form, a, first, last) ==
    IF last - first <= 1 THEN a
    ELSE ApplyNetwork(form, a, first, Networks[last - first - 1])

\* The split point both return.
Half(first, last) == first + (last - first) \div 2
=============================================================================
