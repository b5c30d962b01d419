CONSTANT Sessions = {s1, s2}
SPECIFICATION FairSpec
INVARIANT TypeOK
PROPERTIES RetiresUnderNobody DeathIsNoticed RetiresWhenAlone
