------------------------ MODULE MCCompanyResolution ------------------------
(***************************************************************************)
(* Two companies whose names share a token.  The records of n have no      *)
(* domain, d and e, in longer and longer spellings; m has one of d.  Those  *)
(* of e and m are for jobs at a company's seat, when that is known.         *)
(***************************************************************************)
EXTENDS CompanyResolution

CONSTANTS n0, nd, ne, md, n, m, d, e, seat

MCNameOf   == [r \in Records |-> IF r = md THEN m ELSE n]
MCDomainOf == [r \in Records |-> IF r = n0 THEN Unknown ELSE IF r = ne THEN e ELSE d]
MCCityOf   == [r \in Records |-> IF r \in {ne, md} THEN seat ELSE Unknown]
MCLengthOf == [r \in Records |-> IF r = ne THEN 2 ELSE 1]
MCShares   == {<<n, m>>, <<m, n>>}
MCOverlap  == [pair \in Names \X Names |-> IF pair[1] = pair[2] THEN 18 ELSE 9]
============================================================================
