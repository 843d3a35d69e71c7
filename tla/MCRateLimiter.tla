---------------------------- MODULE MCRateLimiter ----------------------------
\* A small instance of RateLimiter: three requests per second in ticks of a
\* fifth, so that fills of none, one and more tokens all lose
\* fractions, and a window of two seconds.
EXTENDS RateLimiter
==============================================================================
