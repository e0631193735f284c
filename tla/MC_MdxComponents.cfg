CONSTANTS
    Undef = Undef
    C1 = C1
    C2 = C2
    Comps <- MCComps
    ProviderKeys <- MCProviderKeys
    PropsKeys <- MCPropsKeys
    MaxDepth = 3
SPECIFICATION Spec
SYMMETRY MCSymmetry
INVARIANT Mdx1ResolvesNearest Mdx2ResolvesNearest
